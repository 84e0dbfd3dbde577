------------------------- MODULE SocketStreamProofs -------------------------
(* What SocketStream.tla states of a connection, for any lengths of        *)
(* messages, any number of them, and any sizes of writes and buffers.      *)
EXTENDS SocketStream, SequenceFacts

-----------------------------------------------------------------------------
(* Helpers.                                                                *)

LEMMA MinOfThree ==
  ASSUME NEW a \in Int, NEW b \in Int, NEW c \in Int
  PROVE  /\ Min({a, b, c}) \in {a, b, c}
         /\ Min({a, b, c}) <= a /\ Min({a, b, c}) <= b /\ Min({a, b, c}) <= c
<1>1. \E x \in {a, b, c} : \A y \in {a, b, c} : x <= y
  <2>1. CASE a <= b /\ a <= c
    BY <2>1
  <2>2. CASE b <= a /\ b <= c
    BY <2>2
  <2>3. CASE c <= a /\ c <= b
    BY <2>3
  <2> QED BY <2>1, <2>2, <2>3
<1>2. Min({a, b, c}) \in {a, b, c} /\ \A y \in {a, b, c} : Min({a, b, c}) <= y
  BY <1>1 DEF Min
<1> QED BY <1>2

-----------------------------------------------------------------------------
(* Types.                                                                  *)

UnitsOf(n) == {Junk} \cup [msg : 1..n, at : Nat]
OpsOf(n) == [msg : 1..n, off : Nat, at : {"reactor", "handler"}]

LEMMA TypeFacts ==
  ASSUME StreamTypeOK
  PROVE  /\ sent \in Seq(Lengths) /\ Len(sent) \in Nat /\ Len(sent) <= MaxMessages
         /\ \A n \in 1..Len(sent) : sent[n] \in Nat /\ sent[n] > 0
         /\ ops \in Seq(OpsOf(Len(sent))) /\ Len(ops) \in Nat
         /\ \A i \in 1..Len(ops) :
              /\ ops[i] \in OpsOf(Len(sent)) /\ ops[i].off <= 1 + sent[ops[i].msg]
         /\ wire \in Seq(UnitsOf(Len(sent))) /\ Len(wire) \in Nat /\ Len(wire) <= Room
         /\ Room \in Nat /\ Room > 0 /\ Transfer \in Nat /\ Transfer > 0
         /\ frame \in [pc : {"header", "body", "ended"}, header : UnitsOf(Len(sent)),
                       need : Nat, body : Seq(UnitsOf(Len(sent)))]
         /\ delivered \in Seq(0..Len(sent)) /\ Len(delivered) \in Nat
<1>1. Lengths \subseteq Nat \ {0} /\ sent \in Seq(Lengths)
  BY StreamAssumption DEF StreamTypeOK
<1>2. \A n \in 1..Len(sent) : sent[n] \in Lengths
  BY <1>1
<1>3. Units = UnitsOf(Len(sent))
  BY DEF Units, UnitsOf
<1>4. ops \in Seq(OpsOf(Len(sent))) /\ \A i \in DOMAIN ops : ops[i].off <= 1 + sent[ops[i].msg]
  BY DEF StreamTypeOK, OpsOf, Size
<1>5. DOMAIN ops = 1..Len(ops)
  BY <1>4
<1>6. /\ Room \in Nat /\ Room > 0 /\ Transfer \in Nat /\ Transfer > 0
  BY StreamAssumption
<1>7. \A i \in 1..Len(ops) : ops[i] \in OpsOf(Len(sent))
  BY <1>4, ElementOfSeq
<1>8. \A n \in 1..Len(sent) : sent[n] \in Nat /\ sent[n] > 0
  <2>1. \A x \in Lengths : x \in Nat /\ x > 0
    BY <1>1
  <2> QED BY <1>2, <2>1
<1>9. /\ wire \in Seq(UnitsOf(Len(sent))) /\ Len(wire) <= Room
      /\ delivered \in Seq(0..Len(sent)) /\ Len(sent) <= MaxMessages
  BY <1>3 DEF StreamTypeOK
<1>10. frame \in [pc : {"header", "body", "ended"}, header : UnitsOf(Len(sent)),
                   need : Nat, body : Seq(UnitsOf(Len(sent)))]
  BY <1>3 DEF StreamTypeOK
<1>11. Len(sent) \in Nat /\ Len(ops) \in Nat /\ Len(wire) \in Nat /\ Len(delivered) \in Nat
  BY <1>1, <1>4, <1>9
<1> QED BY <1>1, <1>4, <1>5, <1>6, <1>7, <1>8, <1>9, <1>10, <1>11

LEMMA TakesBounds ==
  ASSUME StreamTypeOK, NEW op, NEW size \in Nat, op.off \in Nat, op.off <= size
  PROVE  LET k == Takes(op, size) IN
           /\ k \in Nat /\ Len(wire) + k <= Room /\ op.off + k <= size
           /\ Len(wire) < Room /\ op.off < size => k > 0
<1> DEFINE a == Room - Len(wire)
           b == Transfer
           c == size - op.off
           k == Min({a, b, c})
<1>1. /\ Room \in Nat /\ Len(wire) \in Nat /\ Len(wire) <= Room
      /\ Transfer \in Nat /\ Transfer > 0
  BY TypeFacts
<1>2. a \in Nat /\ b \in Nat /\ c \in Nat /\ b > 0
  BY <1>1
<1>3. k \in {a, b, c} /\ k <= a /\ k <= b /\ k <= c
  <2> HIDE DEF a, b, c, k
  <2>1. a \in Int /\ b \in Int /\ c \in Int
    BY <1>2
  <2> QED BY ONLY <2>1, MinOfThree DEF k
<1>4. Takes(op, size) = k
  BY DEF Takes
<1> HIDE DEF k
<1>5. k \in Nat
  BY <1>2, <1>3
<1>6. Len(wire) + k <= Room /\ op.off + k <= size
  BY <1>1, <1>3, <1>5
<1>7. Len(wire) < Room /\ op.off < size => k > 0
  BY <1>1, <1>2, <1>3, <1>5
<1> QED BY <1>4, <1>5, <1>6, <1>7

LEMMA ChunkTyped ==
  ASSUME NEW n \in Nat, NEW op, op.msg \in 1..n, op.off \in Nat, NEW k \in Nat,
         NEW units \in Freed(op, k)
  PROVE  units \in Seq(UnitsOf(n)) /\ Len(units) = k
<1>1. CASE units = Chunk(op, k)
  <2>1. units = [i \in 1..k |-> Unit(op.msg, op.off + i - 1)]
    BY <1>1 DEF Chunk
  <2>2. \A i \in 1..k : Unit(op.msg, op.off + i - 1) \in UnitsOf(n)
    BY DEF Unit, UnitsOf
  <2> QED BY <2>1, <2>2, FcnIsSeq
<1>2. CASE units = [i \in 1..k |-> Junk]
  <2>1. \A i \in 1..k : units[i] \in UnitsOf(n)
    BY <1>2 DEF UnitsOf
  <2> QED BY <1>2, <2>1, FcnIsSeq
<1> QED BY <1>1, <1>2 DEF Freed

\* What one write_some does to the wire, with or without the buffer still there.
LEMMA PutTyped ==
  ASSUME StreamTypeOK, NEW n \in Nat, Len(sent) <= n,
         NEW op, op.msg \in 1..n, op.off \in Nat, NEW k \in Nat, Len(wire) + k <= Room,
         NEW units \in Freed(op, k), wire' = wire \o units
  PROVE  wire' \in Seq(UnitsOf(n)) /\ Len(wire') <= Room
<1>1. UnitsOf(Len(sent)) \subseteq UnitsOf(n)
  BY TypeFacts DEF UnitsOf
<1>2. wire \in Seq(UnitsOf(n)) /\ Len(wire) \in Nat
  BY <1>1, TypeFacts, SeqMonotonic
<1>3. units \in Seq(UnitsOf(n)) /\ Len(units) = k
  BY ChunkTyped
<1>4. wire \o units \in Seq(UnitsOf(n)) /\ Len(wire \o units) = Len(wire) + Len(units)
  BY <1>2, <1>3, ConcatProperties
<1> QED BY <1>2, <1>3, <1>4

\* Issue, with contents that may be those of a freed buffer.
Issued(others, op, size) ==
  LET k == Takes(op, size) IN
    IF Waiting(others) = {} /\ k > 0
    THEN /\ \E units \in Freed(op, k) : wire' = wire \o units
         /\ ops' = Append(others, [op EXCEPT !.off = @ + k, !.at = "handler"])
    ELSE /\ ops' = Append(others, [op EXCEPT !.at = "reactor"])
         /\ UNCHANGED wire

LEMMA IssuedTyped ==
  ASSUME StreamTypeOK, NEW lengths \in Seq(Lengths), Len(sent) <= Len(lengths),
         NEW others \in Seq(OpsOf(Len(lengths))),
         \A i \in 1..Len(others) : others[i].off <= 1 + lengths[others[i].msg],
         NEW op \in OpsOf(Len(lengths)), op.off <= 1 + lengths[op.msg],
         Issued(others, op, 1 + lengths[op.msg])
  PROVE  /\ ops' \in Seq(OpsOf(Len(lengths)))
         /\ \A i \in 1..Len(ops') : ops'[i].off <= 1 + lengths[ops'[i].msg]
         /\ wire' \in Seq(UnitsOf(Len(lengths))) /\ Len(wire') <= Room
<1> DEFINE n == Len(lengths)
           size == 1 + lengths[op.msg]
           k == Takes(op, size)
<1>1. /\ n \in Nat /\ op.msg \in 1..n /\ op.off \in Nat /\ size \in Nat
      /\ op.off <= size /\ op.at \in {"reactor", "handler"}
  <2>1. n \in Nat /\ op.msg \in 1..n /\ op.off \in Nat /\ op.at \in {"reactor", "handler"}
    BY DEF OpsOf
  <2>2. lengths[op.msg] \in Nat
    BY <2>1, StreamAssumption, ElementOfSeq
  <2> QED BY <2>1, <2>2
<1>2. k \in Nat /\ Len(wire) + k <= Room /\ op.off + k <= size
  <2> HIDE DEF size
  <2> QED BY <1>1, TakesBounds
<1>3. ASSUME NEW last \in OpsOf(n), last.off <= 1 + lengths[last.msg], ops' = Append(others, last)
      PROVE  /\ ops' \in Seq(OpsOf(n))
             /\ \A i \in 1..Len(ops') : ops'[i].off <= 1 + lengths[ops'[i].msg]
  <2>1. /\ ops' \in Seq(OpsOf(n)) /\ Len(ops') = Len(others) + 1
        /\ \A i \in 1..Len(others) : ops'[i] = others[i]
        /\ ops'[Len(others) + 1] = last
    BY <1>3, AppendProperties
  <2>2. Len(others) \in Nat
    OBVIOUS
  <2>3. ASSUME NEW i \in 1..Len(ops')
        PROVE  ops'[i].off <= 1 + lengths[ops'[i].msg]
    <3>1. CASE i \in 1..Len(others)
      BY <2>1, <3>1
    <3>2. CASE i = Len(others) + 1
      BY <1>3, <2>1, <3>2
    <3> QED BY <2>1, <2>2, <3>1, <3>2
  <2> QED BY <2>1, <2>3
<1>4. CASE Waiting(others) = {} /\ k > 0
  <2> DEFINE last == [op EXCEPT !.off = @ + k, !.at = "handler"]
  <2>1. ops' = Append(others, last)
    BY <1>4 DEF Issued
  <2>2. PICK units \in Freed(op, k) : wire' = wire \o units
    BY <1>4 DEF Issued
  <2>3. wire' \in Seq(UnitsOf(n)) /\ Len(wire') <= Room
    <3> HIDE DEF k, n
    <3> QED BY <1>1, <1>2, <2>2, PutTyped DEF n
  <2>4. last \in OpsOf(n) /\ last.off <= 1 + lengths[last.msg]
    <3> DEFINE sum == op.off + k
               moved == [op EXCEPT !.off = sum, !.at = "handler"]
    <3>1. sum \in Nat /\ sum <= size
      BY <1>1, <1>2
    <3> HIDE DEF sum
    <3>2. moved \in OpsOf(n) /\ moved.off = sum /\ moved.msg = op.msg
      BY <3>1 DEF OpsOf
    <3>3. last = moved
      BY DEF sum
    <3> QED BY <3>1, <3>2, <3>3
  <2> HIDE DEF last
  <2> QED BY <1>3, <2>1, <2>3, <2>4
<1>5. CASE ~(Waiting(others) = {} /\ k > 0)
  <2> DEFINE last == [op EXCEPT !.at = "reactor"]
  <2>1. ops' = Append(others, last) /\ wire' = wire
    BY <1>5 DEF Issued
  <2>2. last \in OpsOf(n) /\ last.off <= 1 + lengths[last.msg]
    BY DEF OpsOf
  <2>3. UnitsOf(Len(sent)) \subseteq UnitsOf(n)
    BY <1>1, TypeFacts DEF UnitsOf
  <2>4. wire \in Seq(UnitsOf(n)) /\ Len(wire) <= Room
    BY <2>3, TypeFacts, SeqMonotonic
  <2> HIDE DEF last
  <2> QED BY <1>3, <2>1, <2>2, <2>4
<1> QED BY <1>4, <1>5

LEMMA MoreTypes ==
  ASSUME NEW m \in Nat, NEW n \in Nat, m <= n
  PROVE  /\ UnitsOf(m) \subseteq UnitsOf(n) /\ Seq(UnitsOf(m)) \subseteq Seq(UnitsOf(n))
         /\ OpsOf(m) \subseteq OpsOf(n) /\ Seq(OpsOf(m)) \subseteq Seq(OpsOf(n))
         /\ Seq(0..m) \subseteq Seq(0..n)
<1>1. UnitsOf(m) \subseteq UnitsOf(n) /\ OpsOf(m) \subseteq OpsOf(n) /\ 0..m \subseteq 0..n
  BY DEF UnitsOf, OpsOf
<1> QED BY <1>1, SeqMonotonic

Frames(n) == [pc : {"header", "body", "ended"}, header : UnitsOf(n), need : Nat,
              body : Seq(UnitsOf(n))]

\* The types after a step, from those of the variables.
LEMMA TypedStep ==
  ASSUME StreamTypeOK, NEW lengths \in Seq(Lengths), sent' = lengths,
         Len(lengths) <= MaxMessages, kind' = kind, split' \in BOOLEAN, up' \in BOOLEAN,
         ops' \in Seq(OpsOf(Len(lengths))),
         \A i \in 1..Len(ops') : ops'[i].off <= 1 + lengths[ops'[i].msg],
         wire' \in Seq(UnitsOf(Len(lengths))), Len(wire') <= Room,
         frame' \in Frames(Len(lengths)),
         frame'.pc = "body" => Len(frame'.body) < frame'.need,
         delivered' \in Seq(0..Len(lengths))
  PROVE  StreamTypeOK'
<1>1. Units' = UnitsOf(Len(lengths))
  BY DEF Units, UnitsOf
<1>2. kind' \in Kinds
  BY DEF StreamTypeOK
<1>3. ops' \in Seq([msg : 1..Len(sent'), off : Nat, at : {"reactor", "handler"}])
  BY DEF OpsOf
<1>4. \A i \in DOMAIN ops' : ops'[i].off <= 1 + sent'[ops'[i].msg]
  <2>1. DOMAIN ops' = 1..Len(ops')
    BY <1>3
  <2> QED BY <2>1
<1>5. wire' \in Seq(Units') /\ frame' \in [pc : {"header", "body", "ended"}, header : Units',
                                            need : Nat, body : Seq(Units')]
  BY <1>1 DEF Frames
<1> QED BY <1>2, <1>3, <1>4, <1>5 DEF StreamTypeOK, Size

\* What a step that leaves a variable alone keeps of its type, when messages are sent.
LEMMA SameTypes ==
  ASSUME StreamTypeOK, NEW n \in Nat, Len(sent) <= n
  PROVE  /\ ops \in Seq(OpsOf(n)) /\ wire \in Seq(UnitsOf(n)) /\ Len(wire) <= Room
         /\ frame \in Frames(n) /\ (frame.pc = "body" => Len(frame.body) < frame.need)
         /\ delivered \in Seq(0..n) /\ up \in BOOLEAN /\ split \in BOOLEAN
<1>1. /\ Len(sent) \in Nat /\ ops \in Seq(OpsOf(Len(sent)))
      /\ wire \in Seq(UnitsOf(Len(sent))) /\ Len(wire) <= Room
      /\ frame \in Frames(Len(sent)) /\ delivered \in Seq(0..Len(sent))
  BY TypeFacts DEF Frames
<1>2. /\ UnitsOf(Len(sent)) \subseteq UnitsOf(n)
      /\ Seq(UnitsOf(Len(sent))) \subseteq Seq(UnitsOf(n))
      /\ Seq(OpsOf(Len(sent))) \subseteq Seq(OpsOf(n)) /\ Seq(0..Len(sent)) \subseteq Seq(0..n)
  BY <1>1, MoreTypes
<1>3. frame \in Frames(n)
  BY <1>1, <1>2 DEF Frames
<1> QED BY <1>1, <1>2, <1>3 DEF StreamTypeOK

\* The lengths after a message of another length.
LEMMA LongerSent ==
  ASSUME StreamTypeOK, NEW length \in Lengths
  PROVE  LET longer == Append(sent, length) IN
           /\ longer \in Seq(Lengths) /\ Len(longer) = Len(sent) + 1
           /\ \A n \in 1..Len(sent) : longer[n] = sent[n]
           /\ longer[Len(sent) + 1] = length
           /\ \A i \in 1..Len(ops) : ops[i].off <= 1 + longer[ops[i].msg]
<1> DEFINE longer == Append(sent, length)
<1>1. /\ longer \in Seq(Lengths) /\ Len(longer) = Len(sent) + 1
      /\ \A n \in 1..Len(sent) : longer[n] = sent[n]
      /\ longer[Len(sent) + 1] = length
  BY TypeFacts, AppendProperties
<1> HIDE DEF longer
<1>2. \A i \in 1..Len(ops) : ops[i].msg \in 1..Len(sent) /\ ops[i].off <= 1 + sent[ops[i].msg]
  BY TypeFacts DEF OpsOf
<1> QED BY <1>1, <1>2 DEF longer

LEMMA SendMessageTyped ==
  ASSUME StreamTypeOK, NEW length \in Lengths, SendMessage(length)
  PROVE  StreamTypeOK'
<1> DEFINE longer == Append(sent, length)
           n == Len(longer)
<1>1. /\ longer \in Seq(Lengths) /\ n = Len(sent) + 1
      /\ longer[Len(sent) + 1] = length
      /\ \A i \in 1..Len(ops) : ops[i].off <= 1 + longer[ops[i].msg]
  BY LongerSent
<1>2. sent' = longer /\ n <= MaxMessages /\ Len(sent) \in Nat /\ n \in Nat
  <2>1. sent' = longer /\ Len(sent) < MaxMessages
    BY DEF SendMessage
  <2> HIDE DEF longer
  <2> QED BY <1>1, <2>1, TypeFacts, StreamAssumption
<1>3. UNCHANGED <<kind, up, frame, delivered>> /\ split' \in BOOLEAN
  BY DEF SendMessage, StreamTypeOK
<1>4. Issued(ops, NewWrite, 1 + length)
  <2>1. Issue(ops, NewWrite, 1 + length, LAMBDA op, k : {Chunk(op, k)})
    BY DEF SendMessage
  <2>2. {Chunk(NewWrite, Takes(NewWrite, 1 + length))}
          \subseteq Freed(NewWrite, Takes(NewWrite, 1 + length))
    BY DEF Freed
  <2> QED BY <2>1, <2>2 DEF Issue, Issued
<1>5. NewWrite = [msg |-> n, off |-> 0, at |-> "reactor"]
  BY <1>1 DEF NewWrite
<1> HIDE DEF longer
<1>6. NewWrite \in OpsOf(n) /\ NewWrite.off = 0 /\ NewWrite.msg = n
  BY <1>1, <1>2, <1>5 DEF OpsOf
<1>7. longer[NewWrite.msg] = length /\ length \in Nat
  BY <1>1, <1>6, StreamAssumption
<1>8. /\ ops \in Seq(OpsOf(n)) /\ frame \in Frames(n) /\ delivered \in Seq(0..n)
      /\ up \in BOOLEAN /\ (frame.pc = "body" => Len(frame.body) < frame.need)
  BY <1>1, <1>2, SameTypes
<1>9. /\ ops' \in Seq(OpsOf(n))
      /\ \A i \in 1..Len(ops') : ops'[i].off <= 1 + longer[ops'[i].msg]
      /\ wire' \in Seq(UnitsOf(n)) /\ Len(wire') <= Room
  <2>1. Issued(ops, NewWrite, 1 + longer[NewWrite.msg])
    BY <1>4, <1>7
  <2>2. Len(sent) <= n /\ NewWrite.off <= 1 + longer[NewWrite.msg]
    BY <1>1, <1>2, <1>6, <1>7
  <2> QED BY <1>1, <1>6, <1>8, <2>1, <2>2, IssuedTyped
<1> QED BY <1>1, <1>2, <1>3, <1>8, <1>9, TypedStep

LEMMA BeginWriteTyped ==
  ASSUME StreamTypeOK, NEW length \in Lengths, BeginWrite(length)
  PROVE  StreamTypeOK'
<1> DEFINE longer == Append(sent, length)
           n == Len(longer)
<1>1. /\ longer \in Seq(Lengths) /\ n = Len(sent) + 1
      /\ longer[Len(sent) + 1] = length
      /\ \A i \in 1..Len(ops) : ops[i].off <= 1 + longer[ops[i].msg]
  BY LongerSent
<1>2. sent' = longer /\ n <= MaxMessages /\ Len(sent) \in Nat /\ n \in Nat
  BY <1>1, TypeFacts, StreamAssumption DEF BeginWrite
<1>3. UNCHANGED <<kind, split, wire, up, frame, delivered>> /\ ops' = Append(ops, NewWrite)
  BY DEF BeginWrite
<1>5. NewWrite = [msg |-> n, off |-> 0, at |-> "reactor"]
  BY <1>1 DEF NewWrite
<1> HIDE DEF longer
<1>6. NewWrite \in OpsOf(n) /\ NewWrite.off = 0 /\ NewWrite.msg = n
  BY <1>1, <1>2, <1>5 DEF OpsOf
<1>7. longer[NewWrite.msg] = length /\ length \in Nat
  BY <1>1, <1>6, StreamAssumption
<1>8. /\ ops \in Seq(OpsOf(n)) /\ frame \in Frames(n) /\ delivered \in Seq(0..n)
      /\ up \in BOOLEAN /\ (frame.pc = "body" => Len(frame.body) < frame.need)
      /\ wire \in Seq(UnitsOf(n)) /\ Len(wire) <= Room /\ split \in BOOLEAN
  BY <1>1, <1>2, SameTypes
<1>9. /\ ops' \in Seq(OpsOf(n))
      /\ \A i \in 1..Len(ops') : ops'[i].off <= 1 + longer[ops'[i].msg]
  <2>1. /\ ops' \in Seq(OpsOf(n)) /\ Len(ops') = Len(ops) + 1
        /\ \A i \in 1..Len(ops) : ops'[i] = ops[i]
        /\ ops'[Len(ops) + 1] = NewWrite
    BY <1>3, <1>6, <1>8, AppendProperties
  <2>2. Len(ops) \in Nat
    BY <1>8
  <2>3. \A i \in 1..Len(ops) : ops'[i].off <= 1 + longer[ops'[i].msg]
    BY <1>1, <2>1
  <2>4. ops'[Len(ops) + 1].off <= 1 + longer[ops'[Len(ops) + 1].msg]
    BY <1>6, <1>7, <2>1
  <2> QED BY <2>1, <2>2, <2>3, <2>4
<1> QED BY <1>1, <1>2, <1>3, <1>8, <1>9, TypedStep

\* Without an operation, its others keep their types.
LEMMA RemovedTyped ==
  ASSUME StreamTypeOK, NEW i \in 1..Len(ops)
  PROVE  /\ RemoveAt(ops, i) \in Seq(OpsOf(Len(sent)))
         /\ \A j \in 1..Len(RemoveAt(ops, i)) :
              RemoveAt(ops, i)[j].off <= 1 + sent[RemoveAt(ops, i)[j].msg]
<1>1. /\ RemoveAt(ops, i) \in Seq(OpsOf(Len(sent)))
      /\ Len(RemoveAt(ops, i)) = Len(ops) - 1
      /\ \A j \in 1..(Len(ops) - 1) : RemoveAt(ops, i)[j] = IF j < i THEN ops[j] ELSE ops[j + 1]
  BY TypeFacts, RemoveAtProperties
<1>2. Len(ops) \in Nat /\ \A j \in 1..Len(ops) : ops[j].off <= 1 + sent[ops[j].msg]
  BY TypeFacts
<1>3. ASSUME NEW j \in 1..(Len(ops) - 1)
      PROVE  RemoveAt(ops, i)[j].off <= 1 + sent[RemoveAt(ops, i)[j].msg]
  <2>1. j \in 1..Len(ops) /\ j + 1 \in 1..Len(ops)
    BY <1>2
  <2> QED BY <1>1, <1>2, <2>1
<1> QED BY <1>1, <1>3

LEMMA WriteHandlerTyped ==
  ASSUME StreamTypeOK, WriteHandler
  PROVE  StreamTypeOK'
<1>1. PICK i \in DOMAIN ops :
        IF ops[i].off = Size(ops[i].msg)
        THEN ops' = RemoveAt(ops, i) /\ UNCHANGED wire
        ELSE Issue(RemoveAt(ops, i), ops[i], Size(ops[i].msg), Freed)
  BY DEF WriteHandler
<1>2. UNCHANGED <<kind, split, sent, up, frame, delivered>>
  BY DEF WriteHandler
<1>3. /\ sent \in Seq(Lengths) /\ Len(sent) \in Nat /\ Len(sent) <= MaxMessages
      /\ DOMAIN ops = 1..Len(ops)
  BY TypeFacts
<1>4. /\ frame \in Frames(Len(sent)) /\ delivered \in Seq(0..Len(sent))
      /\ up \in BOOLEAN /\ (frame.pc = "body" => Len(frame.body) < frame.need)
      /\ wire \in Seq(UnitsOf(Len(sent))) /\ Len(wire) <= Room /\ split \in BOOLEAN
  BY <1>3, SameTypes
<1>5. /\ RemoveAt(ops, i) \in Seq(OpsOf(Len(sent)))
      /\ \A j \in 1..Len(RemoveAt(ops, i)) :
           RemoveAt(ops, i)[j].off <= 1 + sent[RemoveAt(ops, i)[j].msg]
  BY <1>3, RemovedTyped
<1>6. /\ ops' \in Seq(OpsOf(Len(sent)))
      /\ \A j \in 1..Len(ops') : ops'[j].off <= 1 + sent[ops'[j].msg]
      /\ wire' \in Seq(UnitsOf(Len(sent))) /\ Len(wire') <= Room
  <2>1. CASE ops[i].off = Size(ops[i].msg)
    BY <1>1, <1>4, <1>5, <2>1
  <2>2. CASE ops[i].off # Size(ops[i].msg)
    <3>1. Issued(RemoveAt(ops, i), ops[i], 1 + sent[ops[i].msg])
      BY <1>1, <2>2 DEF Issue, Issued, Size
    <3>2. ops[i] \in OpsOf(Len(sent)) /\ ops[i].off <= 1 + sent[ops[i].msg]
      BY <1>3, TypeFacts
    <3>3. Len(sent) <= Len(sent)
      BY <1>3
    <3> QED BY <1>3, <1>5, <3>1, <3>2, <3>3, IssuedTyped
  <2> QED BY <2>1, <2>2
<1> QED BY <1>2, <1>3, <1>4, <1>6, TypedStep

\* An operation that has written k units more, or that has written all and is gone.
LEMMA AdvancedTyped ==
  ASSUME StreamTypeOK, NEW i \in 1..Len(ops), NEW k \in Nat,
         ops[i].off + k <= 1 + sent[ops[i].msg],
         NEW at \in {"reactor", "handler"}, NEW moved,
         moved = [ops[i] EXCEPT !.off = ops[i].off + k, !.at = at],
         ops' = [ops EXCEPT ![i] = moved]
  PROVE  /\ ops' \in Seq(OpsOf(Len(sent)))
         /\ \A j \in 1..Len(ops') : ops'[j].off <= 1 + sent[ops'[j].msg]
<1>1. /\ ops \in Seq(OpsOf(Len(sent))) /\ ops[i] \in OpsOf(Len(sent))
      /\ \A j \in 1..Len(ops) : ops[j].off <= 1 + sent[ops[j].msg]
  BY TypeFacts
<1>2. moved \in OpsOf(Len(sent)) /\ moved.off <= 1 + sent[moved.msg]
  <2> DEFINE sum == ops[i].off + k
             op == ops[i]
  <2>1. op \in OpsOf(Len(sent)) /\ sum \in Nat /\ sum <= 1 + sent[op.msg]
    BY <1>1 DEF OpsOf
  <2>2. moved = [op EXCEPT !.off = sum, !.at = at]
    OBVIOUS
  <2> HIDE DEF sum, op
  <2>3. moved \in OpsOf(Len(sent)) /\ moved.off = sum /\ moved.msg = op.msg
    BY <2>1, <2>2 DEF OpsOf
  <2> QED BY <2>1, <2>3
<1>3. /\ ops' \in Seq(OpsOf(Len(sent))) /\ Len(ops') = Len(ops)
      /\ \A j \in 1..Len(ops) : ops'[j] = IF j = i THEN moved ELSE ops[j]
  BY <1>1, <1>2, ExceptSeq
<1> QED BY <1>1, <1>2, <1>3

LEMMA ReactorWritesTyped ==
  ASSUME StreamTypeOK, ReactorWrites
  PROVE  StreamTypeOK'
<1>1. PICK i \in Waiting(ops) :
        LET k == Takes(ops[i], Size(ops[i].msg)) IN
          /\ \E units \in Freed(ops[i], k) : wire' = wire \o units
          /\ ops' = [ops EXCEPT ![i].off = @ + k, ![i].at = "handler"]
  BY DEF ReactorWrites
<1>2. UNCHANGED <<kind, split, sent, up, frame, delivered>>
  BY DEF ReactorWrites
<1>3. /\ sent \in Seq(Lengths) /\ Len(sent) \in Nat /\ Len(sent) <= MaxMessages
      /\ i \in 1..Len(ops) /\ ops[i] \in OpsOf(Len(sent)) /\ ops[i].off <= 1 + sent[ops[i].msg]
      /\ ops \in Seq(OpsOf(Len(sent)))
  BY TypeFacts DEF Waiting
<1>4. /\ frame \in Frames(Len(sent)) /\ delivered \in Seq(0..Len(sent))
      /\ up \in BOOLEAN /\ (frame.pc = "body" => Len(frame.body) < frame.need)
      /\ split \in BOOLEAN
  BY <1>3, SameTypes
<1> DEFINE size == 1 + sent[ops[i].msg]
           k == Takes(ops[i], size)
<1>5. /\ ops[i].msg \in 1..Len(sent) /\ ops[i].off \in Nat /\ size \in Nat
      /\ ops[i].off <= size
  BY <1>3, TypeFacts DEF OpsOf
<1>6. k \in Nat /\ Len(wire) + k <= Room /\ ops[i].off + k <= size
  <2> HIDE DEF size
  <2> QED BY <1>5, TakesBounds
<1>7. Size(ops[i].msg) = size
  BY DEF Size
<1>8. wire' \in Seq(UnitsOf(Len(sent))) /\ Len(wire') <= Room
  <2>1. PICK units \in Freed(ops[i], k) : wire' = wire \o units
    BY <1>1, <1>7
  <2>2. Len(sent) <= Len(sent)
    BY <1>3
  <2> HIDE DEF k
  <2> QED BY <1>3, <1>5, <1>6, <2>1, <2>2, PutTyped
<1>9. ops' = [ops EXCEPT ![i] = [ops[i] EXCEPT !.off = ops[i].off + k, !.at = "handler"]]
  <2> HIDE DEF k
  <2>1. ops' = [ops EXCEPT ![i].off = @ + k, ![i].at = "handler"]
    BY <1>1, <1>7 DEF k
  <2> QED BY <1>3, <2>1
<1>10. /\ ops' \in Seq(OpsOf(Len(sent)))
       /\ \A j \in 1..Len(ops') : ops'[j].off <= 1 + sent[ops'[j].msg]
  <2> HIDE DEF k
  <2> QED BY <1>3, <1>6, <1>9, AdvancedTyped
<1> QED BY <1>2, <1>3, <1>4, <1>8, <1>10, TypedStep

LEMMA WriteSomeTyped ==
  ASSUME StreamTypeOK, WriteSome
  PROVE  StreamTypeOK'
<1>1. PICK i \in DOMAIN ops :
        LET k == Takes(ops[i], Size(ops[i].msg)) IN
          /\ wire' = wire \o Chunk(ops[i], k)
          /\ ops' = IF ops[i].off + k = Size(ops[i].msg) THEN RemoveAt(ops, i)
                    ELSE [ops EXCEPT ![i].off = @ + k]
  BY DEF WriteSome
<1>2. UNCHANGED <<kind, split, sent, up, frame, delivered>>
  BY DEF WriteSome
<1>3. /\ sent \in Seq(Lengths) /\ Len(sent) \in Nat /\ Len(sent) <= MaxMessages
      /\ i \in 1..Len(ops) /\ ops[i] \in OpsOf(Len(sent)) /\ ops[i].off <= 1 + sent[ops[i].msg]
      /\ ops \in Seq(OpsOf(Len(sent)))
  BY TypeFacts
<1>4. /\ frame \in Frames(Len(sent)) /\ delivered \in Seq(0..Len(sent))
      /\ up \in BOOLEAN /\ (frame.pc = "body" => Len(frame.body) < frame.need)
      /\ split \in BOOLEAN
  BY <1>3, SameTypes
<1> DEFINE size == 1 + sent[ops[i].msg]
           k == Takes(ops[i], size)
<1>5. /\ ops[i].msg \in 1..Len(sent) /\ ops[i].off \in Nat /\ size \in Nat
      /\ ops[i].off <= size /\ ops[i].at \in {"reactor", "handler"}
  BY <1>3, TypeFacts DEF OpsOf
<1>6. k \in Nat /\ Len(wire) + k <= Room /\ ops[i].off + k <= size
  <2> HIDE DEF size
  <2> QED BY <1>5, TakesBounds
<1>7. Size(ops[i].msg) = size
  BY DEF Size
<1>8. wire' \in Seq(UnitsOf(Len(sent))) /\ Len(wire') <= Room
  <2>1. wire' = wire \o Chunk(ops[i], k) /\ Chunk(ops[i], k) \in Freed(ops[i], k)
    BY <1>1, <1>7 DEF Freed
  <2>2. Len(sent) <= Len(sent)
    BY <1>3
  <2> HIDE DEF k
  <2> QED BY <1>3, <1>5, <1>6, <2>1, <2>2, PutTyped
<1>9. CASE ops[i].off + k = size
  <2>1. ops' = RemoveAt(ops, i)
    BY <1>1, <1>7, <1>9
  <2>2. /\ ops' \in Seq(OpsOf(Len(sent)))
        /\ \A j \in 1..Len(ops') : ops'[j].off <= 1 + sent[ops'[j].msg]
    BY <1>3, <2>1, RemovedTyped
  <2> QED BY <1>2, <1>3, <1>4, <1>8, <2>2, TypedStep
<1>10. CASE ops[i].off + k # size
  <2>1. ops' = [ops EXCEPT ![i].off = @ + k]
    BY <1>1, <1>7, <1>10
  <2> HIDE DEF k
  <2>2. ops' = [ops EXCEPT ![i] = [ops[i] EXCEPT !.off = ops[i].off + k, !.at = ops[i].at]]
    <3>1. [ops[i] EXCEPT !.off = ops[i].off + k] =
            [ops[i] EXCEPT !.off = ops[i].off + k, !.at = ops[i].at]
      <4> DEFINE op == ops[i]
                 sum == op.off + k
      <4>1. op \in OpsOf(Len(sent))
        BY <1>3
      <4> HIDE DEF op, sum
      <4>2. [op EXCEPT !.off = sum] = [op EXCEPT !.off = sum, !.at = op.at]
        BY <4>1 DEF OpsOf
      <4> QED BY <4>2 DEF op, sum
    <3>2. ops' = [ops EXCEPT ![i] = [ops[i] EXCEPT !.off = ops[i].off + k]]
      BY <1>3, <2>1
    <3> QED BY <3>1, <3>2
  <2>3. /\ ops' \in Seq(OpsOf(Len(sent)))
        /\ \A j \in 1..Len(ops') : ops'[j].off <= 1 + sent[ops'[j].msg]
    BY <1>3, <1>5, <1>6, <2>2, AdvancedTyped
  <2> QED BY <1>2, <1>3, <1>4, <1>8, <2>3, TypedStep
<1> QED BY <1>9, <1>10

LEMMA ConnectionLostTyped ==
  ASSUME StreamTypeOK, ConnectionLost
  PROVE  StreamTypeOK'
<1>1. PICK k \in 0..Len(wire) : wire' = SubSeq(wire, 1, k)
  BY DEF ConnectionLost
<1>2. UNCHANGED <<kind, split, sent, frame, delivered>> /\ up' = FALSE /\ ops' = <<>>
  BY DEF ConnectionLost
<1>3. sent \in Seq(Lengths) /\ Len(sent) \in Nat /\ Len(sent) <= MaxMessages
  BY TypeFacts
<1>4. /\ frame \in Frames(Len(sent)) /\ delivered \in Seq(0..Len(sent))
      /\ (frame.pc = "body" => Len(frame.body) < frame.need) /\ split \in BOOLEAN
      /\ wire \in Seq(UnitsOf(Len(sent))) /\ Len(wire) <= Room
  BY <1>3, SameTypes
<1>5. wire' \in Seq(UnitsOf(Len(sent))) /\ Len(wire') = k
  <2> DEFINE U == UnitsOf(Len(sent))
  <2>1. \A i \in 1..k : wire[i] \in U
    BY <1>4, ElementOfSeq
  <2>2. 1 \in Int /\ k \in Int
    BY <1>4
  <2> HIDE DEF U
  <2>3. /\ SubSeq(wire, 1, k) \in Seq(U)
        /\ Len(SubSeq(wire, 1, k)) = IF 1 <= k THEN k - 1 + 1 ELSE 0
    BY ONLY <2>1, <2>2, SubSeqProperties
  <2> QED BY <1>1, <2>2, <2>3 DEF U
<1>6. Len(wire') <= Room
  BY <1>4, <1>5, TypeFacts
<1>7. ops' \in Seq(OpsOf(Len(sent))) /\ Len(ops') = 0
  BY <1>2
<1>8. \A i \in 1..Len(ops') : ops'[i].off <= 1 + sent[ops'[i].msg]
  BY <1>7
<1>9. up' \in BOOLEAN /\ split' \in BOOLEAN /\ frame' \in Frames(Len(sent))
      /\ delivered' \in Seq(0..Len(sent)) /\ (frame'.pc = "body" => Len(frame'.body) < frame'.need)
  BY <1>2, <1>4
<1>10. sent' = sent /\ kind' = kind
  BY <1>2
<1> QED BY <1>3, <1>5, <1>6, <1>7, <1>8, <1>9, <1>10, TypedStep

-----------------------------------------------------------------------------
(* The receiver's steps.                                                   *)

LEMMA HeadOfWire ==
  ASSUME StreamTypeOK, wire # <<>>
  PROVE  /\ Head(wire) = wire[1] /\ Head(wire) \in UnitsOf(Len(sent))
         /\ Tail(wire) \in Seq(UnitsOf(Len(sent))) /\ Len(Tail(wire)) = Len(wire) - 1
         /\ \A i \in 1..(Len(wire) - 1) : Tail(wire)[i] = wire[i + 1]
         /\ Len(wire) > 0
<1>1. wire \in Seq(UnitsOf(Len(sent)))
  BY TypeFacts
<1>2. Head(wire) = wire[1] /\ Len(wire) > 0
  BY <1>1
<1> QED BY <1>1, <1>2, HeadTailProperties

LEMMA HandledTyped ==
  ASSUME StreamTypeOK, NEW header \in UnitsOf(Len(sent)), NEW body, HandleMessage(header, body)
  PROVE  /\ delivered' \in Seq(0..Len(sent)) /\ frame' \in Frames(Len(sent))
         /\ frame'.pc = "header"
<1>1. delivered \in Seq(0..Len(sent)) /\ Len(sent) \in Nat
  BY TypeFacts
<1>2. Parsed(header, body) \in 0..Len(sent)
  BY <1>1 DEF Parsed, IsHeader, UnitsOf
<1>3. delivered' = Append(delivered, Parsed(header, body)) \/ delivered' = delivered
  BY DEF HandleMessage
<1>4. frame' = NoFrame
  BY DEF HandleMessage
<1>5. NoFrame \in Frames(Len(sent)) /\ NoFrame.pc = "header"
  BY DEF NoFrame, Frames, UnitsOf
<1> QED BY <1>1, <1>2, <1>3, <1>4, <1>5, AppendProperties

LEMMA ReadHeaderTyped ==
  ASSUME StreamTypeOK, ReadHeader
  PROVE  StreamTypeOK'
<1>1. PICK length \in BodyLength(Head(wire)) :
        IF length = 0
        THEN HandleMessage(Head(wire), <<>>)
        ELSE /\ frame' = [pc |-> "body", header |-> Head(wire),
                          need |-> BodyNeeded(length), body |-> <<>>]
             /\ UNCHANGED delivered
  BY DEF ReadHeader
<1>2. wire # <<>> /\ wire' = Tail(wire) /\ UNCHANGED <<kind, split, sent, ops, up>>
  BY DEF ReadHeader
<1>3. sent \in Seq(Lengths) /\ Len(sent) \in Nat /\ Len(sent) <= MaxMessages
  BY TypeFacts
<1>4. /\ delivered \in Seq(0..Len(sent)) /\ ops \in Seq(OpsOf(Len(sent)))
      /\ \A i \in 1..Len(ops) : ops[i].off <= 1 + sent[ops[i].msg]
      /\ up \in BOOLEAN /\ split \in BOOLEAN
  BY <1>3, SameTypes, TypeFacts
<1>5. wire' \in Seq(UnitsOf(Len(sent))) /\ Len(wire') <= Room
  BY <1>2, HeadOfWire, TypeFacts
<1>6. Head(wire) \in UnitsOf(Len(sent))
  BY <1>2, HeadOfWire
<1>7. length \in Nat
  <2>1. CASE IsHeader(Head(wire))
    <3>1. length = sent[Head(wire).msg]
      BY <2>1 DEF BodyLength
    <3>2. Head(wire).msg \in 1..Len(sent)
      BY <1>6, <2>1 DEF UnitsOf, IsHeader
    <3> QED BY <3>1, <3>2, TypeFacts
  <2>2. CASE ~IsHeader(Head(wire))
    <3>1. length \in Lengths \cup {0}
      BY <2>2 DEF BodyLength
    <3>2. Lengths \subseteq Nat
      BY StreamAssumption
    <3> QED BY <3>1, <3>2
  <2> QED BY <2>1, <2>2
<1>8. /\ delivered' \in Seq(0..Len(sent)) /\ frame' \in Frames(Len(sent))
      /\ frame'.pc = "body" => Len(frame'.body) < frame'.need
  <2>1. CASE length = 0
    BY <1>1, <1>6, <2>1, HandledTyped
  <2>2. CASE length # 0
    <3>1. /\ frame' = [pc |-> "body", header |-> Head(wire), need |-> length, body |-> <<>>]
          /\ delivered' = delivered
      BY <1>1, <2>2 DEF BodyNeeded
    <3>2. <<>> \in Seq(UnitsOf(Len(sent))) /\ Len(<<>>) = 0
      OBVIOUS
    <3>3. frame' \in Frames(Len(sent))
      BY <1>6, <1>7, <3>1, <3>2 DEF Frames
    <3>4. frame'.body = <<>> /\ frame'.need = length
      BY <3>1
    <3> QED BY <1>4, <1>7, <2>2, <3>1, <3>2, <3>3, <3>4
  <2> QED BY <2>1, <2>2
<1> QED BY <1>2, <1>3, <1>4, <1>5, <1>8, TypedStep

LEMMA ReadBodyTyped ==
  ASSUME StreamTypeOK, ReadBody
  PROVE  StreamTypeOK'
<1> DEFINE body == Append(frame.body, Head(wire))
           U == UnitsOf(Len(sent))
<1>1. IF Len(body) = frame.need
      THEN HandleMessage(frame.header, body)
      ELSE frame' = [frame EXCEPT !.body = body] /\ UNCHANGED delivered
  BY DEF ReadBody
<1>2. /\ wire # <<>> /\ wire' = Tail(wire) /\ frame.pc = "body"
      /\ UNCHANGED <<kind, split, sent, ops, up>>
  BY DEF ReadBody
<1>3. sent \in Seq(Lengths) /\ Len(sent) \in Nat /\ Len(sent) <= MaxMessages
  BY TypeFacts
<1>4. /\ delivered \in Seq(0..Len(sent)) /\ ops \in Seq(OpsOf(Len(sent)))
      /\ \A i \in 1..Len(ops) : ops[i].off <= 1 + sent[ops[i].msg]
      /\ up \in BOOLEAN /\ split \in BOOLEAN
      /\ frame \in Frames(Len(sent)) /\ Len(frame.body) < frame.need
  BY <1>2, <1>3, SameTypes, TypeFacts
<1>5. wire' \in Seq(UnitsOf(Len(sent))) /\ Len(wire') <= Room
  BY <1>2, HeadOfWire, TypeFacts
<1>6. frame.header \in U /\ frame.body \in Seq(U) /\ frame.need \in Nat /\ Head(wire) \in U
  BY <1>2, <1>4, HeadOfWire DEF Frames
<1>7. body \in Seq(U) /\ Len(body) = Len(frame.body) + 1
  <2> HIDE DEF U
  <2> QED BY <1>6, AppendProperties
<1>8. /\ delivered' \in Seq(0..Len(sent)) /\ frame' \in Frames(Len(sent))
      /\ frame'.pc = "body" => Len(frame'.body) < frame'.need
  <2>1. CASE Len(body) = frame.need
    BY <1>1, <1>6, <2>1, HandledTyped
  <2>2. CASE Len(body) # frame.need
    <3> HIDE DEF body
    <3>1. frame' = [frame EXCEPT !.body = body] /\ delivered' = delivered
      BY <1>1, <2>2
    <3>2. frame' \in Frames(Len(sent)) /\ frame'.body = body /\ frame'.need = frame.need
      BY <1>4, <1>7, <3>1 DEF Frames
    <3>3. Len(frame.body) \in Nat
      BY <1>6
    <3>4. Len(body) < frame.need
      BY <1>4, <1>6, <1>7, <2>2, <3>3
    <3> QED BY <1>4, <3>1, <3>2, <3>4
  <2> QED BY <2>1, <2>2
<1> QED BY <1>2, <1>3, <1>4, <1>5, <1>8, TypedStep

LEMMA ReadFailsTyped ==
  ASSUME StreamTypeOK, ReadFails
  PROVE  StreamTypeOK'
<1>1. /\ frame' = [NoFrame EXCEPT !.pc = "ended"]
      /\ UNCHANGED <<kind, split, sent, ops, wire, up, delivered>>
  BY DEF ReadFails
<1>2. sent \in Seq(Lengths) /\ Len(sent) \in Nat /\ Len(sent) <= MaxMessages
  BY TypeFacts
<1>3. /\ delivered \in Seq(0..Len(sent)) /\ ops \in Seq(OpsOf(Len(sent)))
      /\ \A i \in 1..Len(ops) : ops[i].off <= 1 + sent[ops[i].msg]
      /\ up \in BOOLEAN /\ split \in BOOLEAN
      /\ wire \in Seq(UnitsOf(Len(sent))) /\ Len(wire) <= Room
  BY <1>2, SameTypes, TypeFacts
<1>4. frame' \in Frames(Len(sent)) /\ frame'.pc = "ended"
  <2>1. frame' = [pc |-> "ended", header |-> Junk, need |-> 0, body |-> <<>>]
    BY <1>1 DEF NoFrame
  <2>2. Junk \in UnitsOf(Len(sent)) /\ <<>> \in Seq(UnitsOf(Len(sent)))
    BY DEF UnitsOf
  <2> QED BY <2>1, <2>2 DEF Frames
<1>5. frame'.pc # "body"
  BY <1>4
<1> QED BY <1>1, <1>2, <1>3, <1>4, <1>5, TypedStep

-----------------------------------------------------------------------------
(* Type correctness.                                                       *)

LEMMA StreamInitTyped == StreamInit => StreamTypeOK
<1> SUFFICES ASSUME StreamInit PROVE StreamTypeOK
  OBVIOUS
<1>1. NoFrame \in [pc : {"header", "body", "ended"}, header : Units, need : Nat, body : Seq(Units)]
      /\ NoFrame.pc = "header"
  BY DEF NoFrame, Units
<1>2. Len(<<>>) = 0 /\ DOMAIN <<>> = {}
  OBVIOUS
<1>3. kind \in Kinds /\ split \in BOOLEAN /\ up \in BOOLEAN
  BY DEF StreamInit
<1>4. sent = <<>> /\ ops = <<>> /\ wire = <<>> /\ frame = NoFrame /\ delivered = <<>>
  BY DEF StreamInit
<1>5. /\ sent \in Seq(Lengths) /\ ops \in Seq([msg : 1..Len(sent), off : Nat,
                                              at : {"reactor", "handler"}])
      /\ wire \in Seq(Units) /\ delivered \in Seq(0..Len(sent))
  BY <1>4
<1>6. /\ Len(sent) <= MaxMessages /\ Len(wire) <= Room
      /\ \A i \in DOMAIN ops : ops[i].off <= Size(ops[i].msg)
  BY <1>2, <1>4, StreamAssumption
<1> QED BY <1>1, <1>3, <1>4, <1>5, <1>6 DEF StreamTypeOK

LEMMA StreamTypedStep == StreamTypeOK /\ [StreamNext]_svars => StreamTypeOK'
<1> SUFFICES ASSUME StreamTypeOK, [StreamNext]_svars
             PROVE  StreamTypeOK'
  OBVIOUS
<1>1. ASSUME NEW length \in Lengths, SendMessage(length) PROVE StreamTypeOK'
  BY <1>1, SendMessageTyped
<1>2. ASSUME NEW length \in Lengths, BeginWrite(length) PROVE StreamTypeOK'
  BY <1>2, BeginWriteTyped
<1>3. CASE WriteHandler
  BY <1>3, WriteHandlerTyped
<1>4. CASE ReactorWrites
  BY <1>4, ReactorWritesTyped
<1>5. CASE WriteSome
  BY <1>5, WriteSomeTyped
<1>6. CASE ReadHeader
  BY <1>6, ReadHeaderTyped
<1>7. CASE ReadBody
  BY <1>7, ReadBodyTyped
<1>8. CASE ReadFails
  BY <1>8, ReadFailsTyped
<1>9. CASE ConnectionLost
  BY <1>9, ConnectionLostTyped
<1>10. CASE UNCHANGED svars
  BY <1>10 DEF svars, StreamTypeOK, Units, Size
<1> QED BY <1>1, <1>2, <1>3, <1>4, <1>5, <1>6, <1>7, <1>8, <1>9, <1>10 DEF StreamNext, Write, Read

\* Every variable of a connection has its type, and the kernel's buffer never holds more
\* than its size.
THEOREM StreamTyping == StreamSpec => []StreamTypeOK
<1> QED BY StreamInitTyped, StreamTypedStep, PTL DEF StreamSpec

-----------------------------------------------------------------------------
(* Runs of units: what is on the wire when nothing breaks the order.       *)

\* The unit that follows a unit, when messages of these lengths are written in turn.
After(lengths, u) ==
  IF u.at < lengths[u.msg] THEN Unit(u.msg, u.at + 1) ELSE Unit(u.msg + 1, 0)

\* The units from the first one up to the one before the next.
Run(lengths, units, first, next) ==
  /\ \A i \in 1..Len(units) :
       units[i].msg \in 1..Len(lengths) /\ units[i].at \in 0..lengths[units[i].msg]
  /\ Len(units) > 0 => units[1] = first
  /\ \A i \in 1..(Len(units) - 1) : units[i + 1] = After(lengths, units[i])
  /\ next = IF Len(units) = 0 THEN first ELSE After(lengths, units[Len(units)])

LEMMA RunConcat ==
  ASSUME NEW S, NEW u \in Seq(S), NEW v \in Seq(S), NEW lengths,
         NEW first, NEW middle, NEW next,
         Run(lengths, u, first, middle), Run(lengths, v, middle, next)
  PROVE  Run(lengths, u \o v, first, next)
<1> DEFINE w == u \o v
           m == Len(u)
           n == Len(v)
           Good(x) == x.msg \in 1..Len(lengths) /\ x.at \in 0..lengths[x.msg]
<1>1. /\ m \in Nat /\ n \in Nat /\ Len(w) = m + n
      /\ \A i \in 1..(m + n) : w[i] = IF i <= m THEN u[i] ELSE v[i - m]
  BY ConcatProperties
<1>2. /\ \A i \in 1..m : Good(u[i])
      /\ m > 0 => u[1] = first
      /\ \A i \in 1..(m - 1) : u[i + 1] = After(lengths, u[i])
      /\ middle = IF m = 0 THEN first ELSE After(lengths, u[m])
  BY DEF Run
<1>3. /\ \A i \in 1..n : Good(v[i])
      /\ n > 0 => v[1] = middle
      /\ \A i \in 1..(n - 1) : v[i + 1] = After(lengths, v[i])
      /\ next = IF n = 0 THEN middle ELSE After(lengths, v[n])
  BY DEF Run
<1> HIDE DEF w, m, n, Good
<1>4. \A i \in 1..(m + n) : Good(w[i])
  <2> SUFFICES ASSUME NEW i \in 1..(m + n) PROVE Good(w[i])
    OBVIOUS
  <2>1. CASE i <= m
    BY <1>1, <1>2, <2>1
  <2>2. CASE ~(i <= m)
    <3>1. i - m \in 1..n /\ w[i] = v[i - m]
      BY <1>1, <2>2
    <3> QED BY <1>3, <3>1
  <2> QED BY <2>1, <2>2
<1>5. m + n > 0 => w[1] = first
  <2>1. CASE m = 0
    <3>1. m + n > 0 => n > 0 /\ 1 \in 1..(m + n) /\ w[1] = v[1 - m] /\ 1 - m = 1
      BY <1>1, <2>1
    <3> QED BY <1>2, <1>3, <2>1, <3>1
  <2>2. CASE m > 0
    BY <1>1, <1>2, <2>2
  <2> QED BY <1>1, <2>1, <2>2
<1>6. \A i \in 1..(m + n - 1) : w[i + 1] = After(lengths, w[i])
  <2> SUFFICES ASSUME NEW i \in 1..(m + n - 1) PROVE w[i + 1] = After(lengths, w[i])
    OBVIOUS
  <2>1. CASE i < m
    <3>1. w[i] = u[i] /\ w[i + 1] = u[i + 1] /\ i \in 1..(m - 1)
      BY <1>1, <2>1
    <3> QED BY <1>2, <3>1
  <2>2. CASE i = m
    <3>1. w[i] = u[m] /\ w[i + 1] = v[i + 1 - m] /\ i + 1 - m = 1 /\ n > 0 /\ m # 0
      BY <1>1, <2>2
    <3> QED BY <1>2, <1>3, <3>1
  <2>3. CASE i > m
    <3>1. w[i] = v[i - m] /\ w[i + 1] = v[i + 1 - m] /\ i - m \in 1..(n - 1)
          /\ i + 1 - m = (i - m) + 1
      BY <1>1, <2>3
    <3> QED BY <1>3, <3>1
  <2> QED BY <1>1, <2>1, <2>2, <2>3
<1>7. next = IF m + n = 0 THEN first ELSE After(lengths, w[m + n])
  <2>1. CASE n = 0
    <3>1. m + n = m /\ (m > 0 => w[m + n] = u[m])
      BY <1>1, <2>1
    <3> QED BY <1>1, <1>2, <1>3, <2>1, <3>1
  <2>2. CASE n > 0
    <3>1. m + n # 0 /\ w[m + n] = v[m + n - m] /\ m + n - m = n
      BY <1>1, <2>2
    <3> QED BY <1>1, <1>3, <2>2, <3>1
  <2> QED BY <1>1, <2>1, <2>2
<1>8. Len(w) = m + n
  BY <1>1
<1>9. Run(lengths, w, first, next)
  <2>1. \A i \in 1..(m + n) : w[i].msg \in 1..Len(lengths) /\ w[i].at \in 0..lengths[w[i].msg]
    BY <1>4 DEF Good
  <2> DEFINE l == Len(w)
  <2>2. l = m + n
    BY <1>8
  <2> HIDE DEF l
  <2>3. \A i \in 1..l : w[i].msg \in 1..Len(lengths) /\ w[i].at \in 0..lengths[w[i].msg]
    BY <2>1, <2>2
  <2>4. /\ l > 0 => w[1] = first
        /\ \A i \in 1..(l - 1) : w[i + 1] = After(lengths, w[i])
        /\ next = IF l = 0 THEN first ELSE After(lengths, w[l])
    BY <1>1, <1>5, <1>6, <1>7, <2>2
  <2> QED BY <2>3, <2>4 DEF Run, l
<1> QED BY <1>9 DEF w

\* What one write_some writes of a message is a run.
LEMMA ChunkRun ==
  ASSUME NEW lengths \in Seq(Nat), NEW op, op.msg \in 1..Len(lengths), op.off \in Nat,
         NEW k \in Nat, k > 0, op.off + k <= 1 + lengths[op.msg]
  PROVE  Run(lengths, Chunk(op, k), Unit(op.msg, op.off),
             IF op.off + k <= lengths[op.msg] THEN Unit(op.msg, op.off + k)
             ELSE Unit(op.msg + 1, 0))
<1> DEFINE n == op.msg
           o == op.off
           c == Chunk(op, k)
<1>1. n \in 1..Len(lengths) /\ o \in Nat /\ lengths[n] \in Nat /\ o + k <= 1 + lengths[n]
  BY ElementOfSeq
<1>2. c = [i \in 1..k |-> Unit(n, o + i - 1)]
  BY DEF Chunk
<1> HIDE DEF n, o, c
<1>3. Len(c) = k /\ \A i \in 1..k : c[i] = Unit(n, o + i - 1)
  <2> DEFINE S == {Unit(n, o + i - 1) : i \in 1..k}
  <2>1. c \in [1..k -> S]
    BY <1>2
  <2> HIDE DEF S
  <2>2. Len(c) = k
    BY <2>1, FcnIsSeq
  <2>3. \A i \in 1..k : c[i] = Unit(n, o + i - 1)
    BY <1>2, Zenon
  <2> QED BY <2>2, <2>3, Zenon
<1>4. \A i \in 1..k : c[i].msg = n /\ c[i].at = o + i - 1 /\ c[i].at \in 0..lengths[n]
  <2> SUFFICES ASSUME NEW i \in 1..k
               PROVE  c[i].msg = n /\ c[i].at = o + i - 1 /\ c[i].at \in 0..lengths[n]
    OBVIOUS
  <2> DEFINE at == o + i - 1
  <2>1. at \in 0..lengths[n] /\ c[i] = Unit(n, at)
    BY <1>1, <1>3
  <2> HIDE DEF at
  <2>2. c[i].msg = n /\ c[i].at = at
    BY <2>1 DEF Unit
  <2> QED BY <2>1, <2>2 DEF at
<1>5. c[1] = Unit(n, o)
  <2>1. 1 \in 1..k /\ o + 1 - 1 = o
    BY <1>1
  <2> QED BY <1>3, <2>1
<1>6. ASSUME NEW i \in 1..(k - 1) PROVE c[i + 1] = After(lengths, c[i])
  <2>1. i \in 1..k /\ i + 1 \in 1..k /\ o + (i + 1) - 1 = (o + i - 1) + 1 /\ o + i - 1 < lengths[n]
    BY <1>1
  <2>2. c[i + 1] = Unit(n, (o + i - 1) + 1)
    BY <1>3, <2>1
  <2>3. After(lengths, c[i]) = Unit(n, c[i].at + 1)
    BY <1>4, <2>1 DEF After
  <2> QED BY <1>4, <2>1, <2>2, <2>3
<1>7. After(lengths, c[k]) = IF o + k <= lengths[n] THEN Unit(n, o + k) ELSE Unit(n + 1, 0)
  <2>1. k \in 1..k /\ c[k].msg = n /\ c[k].at = o + k - 1
    BY <1>4
  <2>2. (o + k - 1 < lengths[n]) <=> (o + k <= lengths[n])
    BY <1>1
  <2>3. o + k - 1 + 1 = o + k
    BY <1>1
  <2> QED BY <2>1, <2>2, <2>3 DEF After
<1>8. Run(lengths, c, Unit(n, o), IF o + k <= lengths[n] THEN Unit(n, o + k) ELSE Unit(n + 1, 0))
  <2>1. \A i \in 1..k : c[i].msg \in 1..Len(lengths) /\ c[i].at \in 0..lengths[c[i].msg]
    BY <1>1, <1>4
  <2> QED BY <1>3, <1>5, <1>6, <1>7, <2>1 DEF Run
<1> QED BY <1>8 DEF n, o, c

\* Reading takes the first unit of a run.
LEMMA RunTail ==
  ASSUME NEW S, NEW u \in Seq(S), u # <<>>, NEW lengths, NEW first, NEW next,
         Run(lengths, u, first, next)
  PROVE  /\ Head(u) = first
         /\ first.msg \in 1..Len(lengths) /\ first.at \in 0..lengths[first.msg]
         /\ Run(lengths, Tail(u), After(lengths, first), next)
<1> DEFINE t == Tail(u)
           n == Len(u)
           Good(x) == x.msg \in 1..Len(lengths) /\ x.at \in 0..lengths[x.msg]
<1>1. /\ n \in Nat /\ n > 0 /\ Head(u) = u[1] /\ Len(t) = n - 1
      /\ \A i \in 1..(n - 1) : t[i] = u[i + 1]
  BY HeadTailProperties
<1>2. /\ \A i \in 1..n : Good(u[i])
      /\ u[1] = first
      /\ \A i \in 1..(n - 1) : u[i + 1] = After(lengths, u[i])
      /\ next = After(lengths, u[n])
  BY <1>1 DEF Run
<1> HIDE DEF t, n, Good
<1>3. \A i \in 1..(n - 1) : Good(t[i])
  BY <1>1, <1>2
<1>4. n - 1 > 0 => t[1] = After(lengths, first)
  <2>1. n - 1 > 0 => 1 \in 1..(n - 1) /\ t[1] = u[1 + 1]
    BY <1>1
  <2> QED BY <1>2, <2>1
<1>5. ASSUME NEW i \in 1..(n - 1 - 1) PROVE t[i + 1] = After(lengths, t[i])
  <2>1. i \in 1..(n - 1) /\ i + 1 \in 1..(n - 1)
    BY <1>1
  <2> QED BY <1>1, <1>2, <2>1
<1>6. next = IF n - 1 = 0 THEN After(lengths, first) ELSE After(lengths, t[n - 1])
  <2>1. CASE n = 1
    BY <1>2, <2>1
  <2>2. CASE n > 1
    <3>1. n - 1 # 0 /\ t[n - 1] = u[n - 1 + 1] /\ n - 1 + 1 = n
      BY <1>1, <2>2
    <3> QED BY <1>2, <3>1
  <2> QED BY <1>1, <2>1, <2>2
<1>7. Good(first)
  BY <1>1, <1>2
<1> QED BY <1>1, <1>2, <1>3, <1>4, <1>5, <1>6, <1>7 DEF Run, Good, t

\* A connection that breaks leaves the beginning of a run.
LEMMA RunCut ==
  ASSUME NEW S, NEW u \in Seq(S), NEW k \in 0..Len(u), NEW lengths, NEW first, NEW next,
         Run(lengths, u, first, next)
  PROVE  \E other : Run(lengths, SubSeq(u, 1, k), first, other)
<1> DEFINE t == SubSeq(u, 1, k)
           Good(x) == x.msg \in 1..Len(lengths) /\ x.at \in 0..lengths[x.msg]
<1>1. Len(u) \in Nat /\ k \in Nat /\ k <= Len(u)
  OBVIOUS
<1>2. Len(t) = k /\ \A i \in 1..k : t[i] = u[i]
  <2>1. \A i \in 1..k : u[i] \in S
    BY <1>1, ElementOfSeq
  <2>2. 1 \in Int /\ k \in Int
    BY <1>1
  <2> HIDE DEF t
  <2>3. /\ Len(SubSeq(u, 1, k)) = IF 1 <= k THEN k - 1 + 1 ELSE 0
        /\ \A i \in 1..(k - 1 + 1) : SubSeq(u, 1, k)[i] = u[1 + i - 1]
    BY ONLY <2>1, <2>2, SubSeqProperties
  <2> QED BY <1>1, <2>3 DEF t
<1>3. /\ \A i \in 1..Len(u) : Good(u[i])
      /\ Len(u) > 0 => u[1] = first
      /\ \A i \in 1..(Len(u) - 1) : u[i + 1] = After(lengths, u[i])
  BY DEF Run
<1> HIDE DEF t, Good
<1>4. \A i \in 1..k : Good(t[i])
  BY <1>1, <1>2, <1>3
<1>5. k > 0 => t[1] = first
  BY <1>1, <1>2, <1>3
<1>6. ASSUME NEW i \in 1..(k - 1) PROVE t[i + 1] = After(lengths, t[i])
  <2>1. i \in 1..k /\ i + 1 \in 1..k /\ i \in 1..(Len(u) - 1)
    BY <1>1
  <2> QED BY <1>2, <1>3, <2>1
<1> DEFINE other == IF k = 0 THEN first ELSE After(lengths, t[k])
<1>7. Run(lengths, t, first, other)
  BY <1>2, <1>4, <1>5, <1>6 DEF Run, Good
<1> HIDE DEF other
<1> QED BY <1>7 DEF t

\* A run stays one when more messages are sent.
LEMMA RunLonger ==
  ASSUME NEW S, NEW u \in Seq(S), NEW lengths \in Seq(Nat), NEW longer \in Seq(Nat),
         Len(lengths) <= Len(longer), \A n \in 1..Len(lengths) : longer[n] = lengths[n],
         NEW first, NEW next, Run(lengths, u, first, next)
  PROVE  Run(longer, u, first, next)
<1>1. Len(u) \in Nat /\ Len(lengths) \in Nat /\ Len(longer) \in Nat
  OBVIOUS
<1>0. \A i \in 1..Len(u) :
        /\ u[i].msg \in 1..Len(lengths) /\ u[i].msg \in 1..Len(longer)
        /\ longer[u[i].msg] = lengths[u[i].msg] /\ u[i].at \in 0..lengths[u[i].msg]
  <2> SUFFICES ASSUME NEW i \in 1..Len(u)
               PROVE  /\ u[i].msg \in 1..Len(lengths) /\ u[i].msg \in 1..Len(longer)
                      /\ longer[u[i].msg] = lengths[u[i].msg] /\ u[i].at \in 0..lengths[u[i].msg]
    OBVIOUS
  <2>1. u[i].msg \in 1..Len(lengths) /\ u[i].at \in 0..lengths[u[i].msg]
    BY DEF Run
  <2>2. u[i].msg \in 1..Len(longer)
    BY <1>1, <2>1
  <2>3. longer[u[i].msg] = lengths[u[i].msg]
    BY <2>1
  <2> QED BY <2>1, <2>2, <2>3
<1>2. \A i \in 1..Len(u) : After(longer, u[i]) = After(lengths, u[i])
  BY <1>0 DEF After
<1>3. /\ \A i \in 1..Len(u) : u[i].msg \in 1..Len(longer) /\ u[i].at \in 0..longer[u[i].msg]
  BY <1>0
<1>4. \A i \in 1..(Len(u) - 1) : i \in 1..Len(u)
  BY <1>1
<1>5. Len(u) # 0 => Len(u) \in 1..Len(u)
  BY <1>1
<1> QED BY <1>2, <1>3, <1>4, <1>5 DEF Run

-----------------------------------------------------------------------------
(* The inductive invariant: as long as no text has been split, the wire    *)
(* holds a run from what the receiver expects to what is written next.     *)

Expected == Unit(Len(delivered) + 1, IF frame.pc = "body" THEN Len(frame.body) + 1 ELSE 0)
Written ==
  IF kind = "file" /\ ops # <<>> THEN Unit(ops[1].msg, ops[1].off) ELSE Unit(Len(sent) + 1, 0)

Ordered == kind = "file" \/ ~split

WritesOK ==
  /\ kind = "file" => /\ Len(ops) <= 1
                      /\ \A i \in 1..Len(ops) :
                           /\ ops[i].msg = Len(sent) /\ ops[i].at = "reactor"
                           /\ ops[i].off <= sent[Len(sent)]
  /\ kind # "file" => \A i \in 1..Len(ops) :
                        ops[i].at = "handler" /\ ops[i].off = 1 + sent[ops[i].msg]

WireOK == \E next : Run(sent, wire, Expected, next) /\ (up => next = Written)

FrameOK ==
  /\ \A i \in 1..Len(delivered) : delivered[i] = i
  /\ frame.pc = "body" =>
       /\ Len(delivered) < Len(sent)
       /\ frame.header = Unit(Len(delivered) + 1, 0)
       /\ frame.need = sent[Len(delivered) + 1]
       /\ \A i \in 1..Len(frame.body) : frame.body[i] = Unit(Len(delivered) + 1, i)
  /\ frame.pc = "ended" => ~up /\ wire = <<>>

InOrder == WritesOK /\ WireOK /\ FrameOK

LEMMA WireStep ==
  ASSUME NEW lengths, sent' = lengths, NEW units, wire' = units, NEW first, Expected' = first,
         NEW next, Run(lengths, units, first, next), up' => Written' = next
  PROVE  WireOK'
<1>1. Run(sent, wire, Expected, next)' /\ (up' => next = Written')
  BY DEF Run, After
<1> QED BY <1>1 DEF WireOK

\* A step of the writer leaves what has been read alone.
LEMMA FrameKept ==
  ASSUME StreamTypeOK, FrameOK, NEW lengths \in Seq(Nat), sent' = lengths,
         Len(sent) <= Len(lengths), \A n \in 1..Len(sent) : lengths[n] = sent[n],
         delivered' = delivered, frame' = frame, frame.pc = "ended" => ~up' /\ wire' = <<>>
  PROVE  FrameOK' /\ Expected' = Expected
<1>1. Len(delivered) \in Nat /\ Len(sent) \in Nat /\ Len(lengths) \in Nat
  BY TypeFacts
<1>2. ASSUME frame.pc = "body"
      PROVE  /\ Len(delivered) < Len(lengths) /\ frame.need = lengths[Len(delivered) + 1]
             /\ frame.header = Unit(Len(delivered) + 1, 0)
             /\ \A i \in 1..Len(frame.body) : frame.body[i] = Unit(Len(delivered) + 1, i)
  BY <1>1, <1>2 DEF FrameOK
<1>3. \A i \in 1..Len(delivered) : delivered[i] = i
  BY DEF FrameOK
<1>4. FrameOK'
  BY <1>2, <1>3 DEF FrameOK, Unit
<1> QED BY <1>4 DEF Expected, Unit

LEMMA ReadHeaderInOrder ==
  ASSUME StreamTypeOK, InOrder, ReadHeader
  PROVE  InOrder'
<1> DEFINE d == Len(delivered) + 1
<1>1. PICK length \in BodyLength(Head(wire)) :
        IF length = 0
        THEN HandleMessage(Head(wire), <<>>)
        ELSE /\ frame' = [pc |-> "body", header |-> Head(wire),
                          need |-> BodyNeeded(length), body |-> <<>>]
             /\ UNCHANGED delivered
  BY DEF ReadHeader
<1>2. /\ frame.pc = "header" /\ wire # <<>> /\ wire' = Tail(wire)
      /\ UNCHANGED <<kind, split, sent, ops, up>>
  BY DEF ReadHeader
<1>3. PICK next : Run(sent, wire, Expected, next) /\ (up => next = Written)
  BY DEF InOrder, WireOK
<1>4. /\ wire \in Seq(UnitsOf(Len(sent))) /\ Len(delivered) \in Nat /\ Len(sent) \in Nat
      /\ \A n \in 1..Len(sent) : sent[n] \in Nat /\ sent[n] > 0
  BY TypeFacts
<1>5. Expected = Unit(d, 0)
  BY <1>2 DEF Expected
<1>6. /\ Head(wire) = Unit(d, 0) /\ d \in 1..Len(sent)
      /\ Run(sent, Tail(wire), After(sent, Unit(d, 0)), next)
  <2> HIDE DEF d
  <2>1. /\ Head(wire) = Expected /\ Expected.msg \in 1..Len(sent)
        /\ Run(sent, Tail(wire), After(sent, Expected), next)
    BY <1>2, <1>3, <1>4, RunTail
  <2> QED BY <1>5, <2>1 DEF Unit
<1>7. IsHeader(Head(wire)) /\ Head(wire).msg = d
  <2>1. d # 0
    BY <1>4
  <2> HIDE DEF d
  <2> QED BY <1>6, <2>1 DEF IsHeader, Unit, Junk
<1>8. length = sent[d] /\ sent[d] \in Nat /\ sent[d] > 0
  <2> HIDE DEF d
  <2> QED BY <1>4, <1>6, <1>7 DEF BodyLength
<1>9. /\ frame' = [pc |-> "body", header |-> Unit(d, 0), need |-> sent[d], body |-> <<>>]
      /\ delivered' = delivered
  <2> HIDE DEF d
  <2> QED BY <1>1, <1>6, <1>8 DEF BodyNeeded
<1>10. After(sent, Unit(d, 0)) = Unit(d, 1)
  <2> HIDE DEF d
  <2>1. Unit(d, 0).msg = d /\ Unit(d, 0).at = 0
    BY DEF Unit
  <2> QED BY <1>8, <2>1 DEF After
<1>11. Expected' = Unit(d, 1)
  <2>1. frame'.pc = "body" /\ Len(frame'.body) = 0
    BY <1>9
  <2>2. Expected' = Unit(Len(delivered') + 1, Len(frame'.body) + 1)
    BY <2>1 DEF Expected, Unit
  <2> QED BY <1>9, <2>1, <2>2
<1>12. WireOK'
  <2>1. up' => Written' = next
    BY <1>2, <1>3 DEF Written, Unit
  <2> HIDE DEF d
  <2> QED BY <1>2, <1>6, <1>10, <1>11, <2>1, WireStep
<1>13. WritesOK'
  BY <1>2 DEF WritesOK, InOrder
<1>14. FrameOK'
  <2>1. \A i \in 1..Len(delivered) : delivered[i] = i
    BY DEF InOrder, FrameOK
  <2>2. /\ frame'.pc = "body" /\ frame'.header = Unit(d, 0) /\ frame'.need = sent[d]
        /\ frame'.body = <<>> /\ Len(frame'.body) = 0
    BY <1>9
  <2>3. Len(delivered) < Len(sent)
    BY <1>4, <1>6
  <2> QED BY <1>2, <1>9, <2>1, <2>2, <2>3 DEF FrameOK, Unit
<1> QED BY <1>12, <1>13, <1>14 DEF InOrder

LEMMA ReadFailsInOrder ==
  ASSUME StreamTypeOK, InOrder, ReadFails
  PROVE  InOrder'
<1>1. /\ ~up /\ wire = <<>> /\ frame' = [NoFrame EXCEPT !.pc = "ended"]
      /\ UNCHANGED <<kind, split, sent, ops, wire, up, delivered>>
  BY DEF ReadFails
<1>2. frame'.pc = "ended"
  BY <1>1 DEF NoFrame
<1>3. WritesOK'
  BY <1>1 DEF WritesOK, InOrder
<1>4. FrameOK'
  <2>1. \A i \in 1..Len(delivered) : delivered[i] = i
    BY DEF InOrder, FrameOK
  <2> QED BY <1>1, <1>2, <2>1 DEF FrameOK
<1>5. WireOK'
  <2> DEFINE first == Expected'
  <2>1. Run(sent, <<>>, first, first)
    BY DEF Run
  <2> HIDE DEF first
  <2> QED BY <1>1, <2>1, WireStep DEF first
<1> QED BY <1>3, <1>4, <1>5 DEF InOrder

LEMMA ReadBodyInOrder ==
  ASSUME StreamTypeOK, InOrder, ReadBody
  PROVE  InOrder'
<1> DEFINE d == Len(delivered) + 1
           b == Len(frame.body)
           U == UnitsOf(Len(sent))
           body == Append(frame.body, Head(wire))
<1>1. IF Len(body) = frame.need
      THEN HandleMessage(frame.header, body)
      ELSE frame' = [frame EXCEPT !.body = body] /\ UNCHANGED delivered
  BY DEF ReadBody
<1>2. /\ frame.pc = "body" /\ wire # <<>> /\ wire' = Tail(wire)
      /\ UNCHANGED <<kind, split, sent, ops, up>>
  BY DEF ReadBody
<1>3. PICK next : Run(sent, wire, Expected, next) /\ (up => next = Written)
  BY DEF InOrder, WireOK
<1>4. /\ wire \in Seq(U) /\ Len(delivered) \in Nat /\ Len(sent) \in Nat
      /\ delivered \in Seq(0..Len(sent)) /\ frame \in Frames(Len(sent))
      /\ \A n \in 1..Len(sent) : sent[n] \in Nat /\ sent[n] > 0
  BY TypeFacts DEF Frames
<1>5. /\ d \in 1..Len(sent) /\ frame.header = Unit(d, 0) /\ frame.need = sent[d]
      /\ \A i \in 1..b : frame.body[i] = Unit(d, i)
      /\ \A i \in 1..Len(delivered) : delivered[i] = i
  BY <1>2, <1>4 DEF InOrder, FrameOK
<1>6. frame.body \in Seq(U) /\ b \in Nat /\ b < sent[d] /\ sent[d] \in Nat
  <2>1. frame.body \in Seq(U)
    BY <1>4 DEF Frames
  <2>2. b < frame.need
    BY <1>2 DEF StreamTypeOK
  <2> HIDE DEF d, U
  <2> QED BY <1>4, <1>5, <2>1, <2>2
<1>7. Expected = Unit(d, b + 1)
  BY <1>2 DEF Expected
<1>8. /\ Head(wire) = Unit(d, b + 1) /\ Head(wire) \in U
      /\ Run(sent, Tail(wire), After(sent, Unit(d, b + 1)), next)
  <2> HIDE DEF d, b
  <2>1. Head(wire) = Expected /\ Run(sent, Tail(wire), After(sent, Expected), next)
    BY <1>2, <1>3, <1>4, RunTail
  <2>2. Head(wire) \in U
    BY <1>2, HeadOfWire
  <2> QED BY <1>7, <2>1, <2>2
<1> HIDE DEF U
<1>9. /\ body \in Seq(U) /\ Len(body) = b + 1
      /\ \A i \in 1..(b + 1) : body[i] = Unit(d, i)
  <2>1. /\ body \in Seq(U) /\ Len(body) = Len(frame.body) + 1
        /\ \A i \in 1..Len(frame.body) : body[i] = frame.body[i]
        /\ body[Len(frame.body) + 1] = Head(wire)
    BY <1>6, <1>8, AppendProperties
  <2> HIDE DEF d, body
  <2>2. ASSUME NEW i \in 1..(b + 1) PROVE body[i] = Unit(d, i)
    <3>1. CASE i \in 1..b
      BY <1>5, <2>1, <3>1
    <3>2. CASE i = b + 1
      BY <1>8, <2>1, <3>2
    <3> QED BY <1>6, <3>1, <3>2
  <2> QED BY <2>1, <2>2
<1> HIDE DEF body, d
<1>10. Unit(d, b + 1).msg = d /\ Unit(d, b + 1).at = b + 1
  BY DEF Unit
<1>11. WritesOK' /\ (up' => Written' = next)
  BY <1>2, <1>3 DEF WritesOK, InOrder, Written, Unit
<1>12. CASE b + 1 = sent[d]
  <2>1. HandleMessage(frame.header, body)
    BY <1>1, <1>5, <1>9, <1>12
  <2>2. IsHeader(frame.header) /\ frame.header.msg = d
    BY <1>5 DEF IsHeader, Unit, Junk
  <2>3. body = [i \in 1..sent[d] |-> Unit(d, i)]
    <3>1. body = [i \in 1..Len(body) |-> body[i]]
      BY <1>9
    <3>2. Len(body) = sent[d]
      BY <1>9, <1>12
    <3>3. \A i \in 1..sent[d] : body[i] = Unit(d, i)
      BY <1>9, <1>12
    <3> HIDE DEF b
    <3> QED BY <3>1, <3>2, <3>3, Zenon
  <2>4. Parsed(frame.header, body) = d
    BY <2>2, <2>3, Zenon DEF Parsed
  <2>5. delivered' = Append(delivered, d) /\ frame' = NoFrame
    BY <2>1, <2>2, <2>4 DEF HandleMessage
  <2>6. /\ Len(delivered') = d /\ d = Len(delivered) + 1
        /\ \A i \in 1..Len(delivered) : delivered'[i] = delivered[i]
        /\ delivered'[d] = d
    <3>1. d \in 0..Len(sent)
      BY <1>5
    <3>2. /\ Len(delivered') = Len(delivered) + 1
          /\ \A i \in 1..Len(delivered) : delivered'[i] = delivered[i]
          /\ delivered'[Len(delivered) + 1] = d
      BY <1>4, <2>5, <3>1, AppendProperties
    <3> QED BY <3>2 DEF d
  <2>7. frame'.pc = "header"
    BY <2>5 DEF NoFrame
  <2>8. FrameOK'
    <3>1. \A i \in 1..Len(delivered') : delivered'[i] = i
      <4>1. \A i \in 1..Len(delivered) : delivered'[i] = i
        BY <1>5, <2>6
      <4>2. \A i \in 1..d : i \in 1..Len(delivered) \/ i = d
        BY <1>4, <2>6
      <4> QED BY <2>6, <4>1, <4>2
    <3> QED BY <2>7, <3>1 DEF FrameOK
  <2>9. Expected' = Unit(d + 1, 0)
    BY <2>6, <2>7 DEF Expected, Unit
  <2>10. After(sent, Unit(d, b + 1)) = Unit(d + 1, 0)
    <3>1. ~(b + 1 < sent[d])
      BY <1>6, <1>12
    <3> QED BY <1>10, <3>1 DEF After
  <2>11. WireOK'
    BY <1>2, <1>8, <1>11, <2>9, <2>10, WireStep
  <2> QED BY <1>11, <2>8, <2>11 DEF InOrder
<1>13. CASE b + 1 # sent[d]
  <2>1. frame' = [frame EXCEPT !.body = body] /\ delivered' = delivered
    BY <1>1, <1>5, <1>9, <1>13
  <2>2. /\ frame'.pc = "body" /\ frame'.header = Unit(d, 0) /\ frame'.need = sent[d]
        /\ frame'.body = body
    BY <1>2, <1>4, <1>5, <2>1 DEF Frames
  <2>3. Len(delivered) < Len(sent)
    BY <1>4, <1>5 DEF d
  <2>4. FrameOK'
    <3>1. \A i \in 1..Len(frame'.body) : frame'.body[i] = Unit(d, i)
      BY <1>9, <2>2
    <3> QED BY <1>2, <1>5, <2>1, <2>2, <2>3, <3>1 DEF FrameOK, d, Unit
  <2>5. Expected' = Unit(d, b + 2)
    <3>1. Expected' = Unit(d, Len(frame'.body) + 1)
      BY <2>1, <2>2 DEF Expected, Unit, d
    <3>2. Len(frame'.body) + 1 = b + 2
      BY <1>6, <1>9, <2>2
    <3> QED BY <3>1, <3>2
  <2>6. After(sent, Unit(d, b + 1)) = Unit(d, b + 2)
    <3>1. b + 1 < sent[d] /\ (b + 1) + 1 = b + 2
      BY <1>6, <1>13
    <3> QED BY <1>10, <3>1 DEF After
  <2>7. WireOK'
    BY <1>2, <1>8, <1>11, <2>5, <2>6, WireStep
  <2> QED BY <1>11, <2>4, <2>7 DEF InOrder
<1> QED BY <1>12, <1>13

LEMMA ConnectionLostInOrder ==
  ASSUME StreamTypeOK, InOrder, ConnectionLost
  PROVE  InOrder'
<1>1. PICK k \in 0..Len(wire) : wire' = SubSeq(wire, 1, k)
  BY DEF ConnectionLost
<1>2. up /\ ~up' /\ ops' = <<>> /\ UNCHANGED <<kind, split, sent, frame, delivered>>
  BY DEF ConnectionLost
<1>3. PICK next : Run(sent, wire, Expected, next)
  BY DEF InOrder, WireOK
<1>4. /\ wire \in Seq(UnitsOf(Len(sent))) /\ sent \in Seq(Nat)
      /\ Len(sent) \in Nat
  BY TypeFacts, StreamAssumption, SeqMonotonic
<1>5. PICK other : Run(sent, wire', Expected, other)
  BY <1>1, <1>3, <1>4, RunCut
<1>6. FrameOK' /\ Expected' = Expected
  <2>1. FrameOK /\ (frame.pc = "ended" => ~up' /\ wire' = <<>>)
    BY <1>2 DEF InOrder, FrameOK
  <2>2. Len(sent) <= Len(sent)
    BY <1>4
  <2> QED BY <1>2, <1>4, <2>1, <2>2, FrameKept
<1>7. WireOK'
  <2> DEFINE units == wire'
  <2>1. Run(sent, units, Expected, other) /\ wire' = units
    BY <1>5
  <2> HIDE DEF units
  <2> QED BY <1>2, <1>6, <2>1, WireStep
<1>8. WritesOK'
  <2>1. Len(ops') = 0 /\ kind' = kind
    BY <1>2
  <2> QED BY <2>1 DEF WritesOK
<1> QED BY <1>6, <1>7, <1>8 DEF InOrder

-----------------------------------------------------------------------------
(* The writers' steps.                                                     *)

LEMMA KindIsOne ==
  ASSUME StreamTypeOK
  PROVE  kind \in {"text", "file"} /\ sent \in Seq(Nat)
BY StreamAssumption, TypeFacts, SeqMonotonic DEF StreamTypeOK

\* In order, every text is with the kernel: no handler starts another write, and none waits.
LEMMA WriteHandlerInOrder ==
  ASSUME StreamTypeOK, InOrder, WriteHandler
  PROVE  InOrder'
<1>1. PICK i \in DOMAIN ops :
        /\ ops[i].at = "handler"
        /\ IF ops[i].off = Size(ops[i].msg)
           THEN ops' = RemoveAt(ops, i) /\ UNCHANGED wire
           ELSE Issue(RemoveAt(ops, i), ops[i], Size(ops[i].msg), Freed)
  BY DEF WriteHandler
<1>2. UNCHANGED <<kind, split, sent, up, frame, delivered>>
  BY DEF WriteHandler
<1>3. /\ i \in 1..Len(ops) /\ ops \in Seq(OpsOf(Len(sent))) /\ Len(ops) \in Nat
      /\ Len(sent) \in Nat
  BY TypeFacts
<1>4. kind # "file" /\ \A j \in 1..Len(ops) :
                         ops[j].at = "handler" /\ ops[j].off = 1 + sent[ops[j].msg]
  BY <1>1, <1>3 DEF InOrder, WritesOK
<1>5. ops' = RemoveAt(ops, i) /\ wire' = wire
  BY <1>1, <1>3, <1>4 DEF Size
<1>6. /\ Len(RemoveAt(ops, i)) = Len(ops) - 1
      /\ \A j \in 1..(Len(ops) - 1) : RemoveAt(ops, i)[j] = IF j < i THEN ops[j] ELSE ops[j + 1]
  BY <1>3, RemoveAtProperties
<1>7. ASSUME NEW j \in 1..(Len(ops) - 1)
      PROVE  ops'[j].at = "handler" /\ ops'[j].off = 1 + sent[ops'[j].msg]
  <2>1. j \in 1..Len(ops) /\ j + 1 \in 1..Len(ops)
    BY <1>3
  <2> QED BY <1>4, <1>5, <1>6, <2>1
<1>8. WritesOK'
  BY <1>2, <1>4, <1>5, <1>6, <1>7 DEF WritesOK
<1>9. FrameOK' /\ Expected' = Expected
  BY <1>2, <1>5 DEF InOrder, FrameOK, Expected, Unit
<1>10. WireOK'
  <2>1. PICK next : Run(sent, wire, Expected, next) /\ (up => next = Written)
    BY DEF InOrder, WireOK
  <2>2. up' => Written' = next
    BY <1>2, <1>4, <2>1 DEF Written, Unit
  <2> QED BY <1>2, <1>5, <1>9, <2>1, <2>2, WireStep
<1> QED BY <1>8, <1>9, <1>10 DEF InOrder

LEMMA ReactorWritesInOrder ==
  ASSUME StreamTypeOK, InOrder, ReactorWrites
  PROVE  FALSE
<1>1. PICK i \in Waiting(ops) : TRUE
  BY DEF ReactorWrites
<1>2. i \in 1..Len(ops) /\ ops[i].at = "reactor"
  BY <1>1, TypeFacts DEF Waiting
<1>3. kind # "file"
  BY DEF ReactorWrites
<1> QED BY <1>2, <1>3 DEF InOrder, WritesOK

LEMMA BeginWriteInOrder ==
  ASSUME StreamTypeOK, InOrder, NEW length \in Lengths, BeginWrite(length)
  PROVE  InOrder'
<1> DEFINE longer == Append(sent, length)
           n == Len(sent) + 1
<1>1. /\ longer \in Seq(Lengths) /\ Len(longer) = n /\ longer[n] = length
      /\ \A i \in 1..Len(sent) : longer[i] = sent[i]
  BY LongerSent
<1>2. /\ kind = "file" /\ up /\ ops = <<>> /\ sent' = longer /\ ops' = Append(ops, NewWrite)
      /\ UNCHANGED <<kind, split, wire, up, frame, delivered>>
  BY DEF BeginWrite, WorkerFree
<1>3. /\ Len(sent) \in Nat /\ sent \in Seq(Nat) /\ longer \in Seq(Nat) /\ length \in Nat
      /\ Lengths \subseteq Nat
  BY <1>1, TypeFacts, KindIsOne, StreamAssumption, SeqMonotonic
<1> HIDE DEF longer
<1>4. FrameOK' /\ Expected' = Expected
  <2>1. FrameOK /\ (frame.pc = "ended" => ~up' /\ wire' = <<>>)
    BY <1>2 DEF InOrder, FrameOK
  <2>2. Len(sent) <= Len(longer)
    BY <1>1, <1>3
  <2> QED BY <1>1, <1>2, <1>3, <2>1, <2>2, FrameKept
<1>5. /\ Len(ops') = 1 /\ ops'[1] = NewWrite /\ ops' # <<>>
      /\ NewWrite.msg = n /\ NewWrite.off = 0 /\ NewWrite.at = "reactor"
  BY <1>2 DEF NewWrite
<1>6. PICK next : Run(sent, wire, Expected, next) /\ next = Written
  BY <1>2 DEF InOrder, WireOK
<1>7. next = Unit(n, 0)
  BY <1>2, <1>6 DEF Written
<1>8. Run(longer, wire, Expected, next)
  <2>1. wire \in Seq(UnitsOf(Len(sent))) /\ Len(sent) <= Len(longer)
    BY <1>1, <1>3, TypeFacts
  <2> QED BY <1>1, <1>3, <1>6, <2>1, RunLonger
<1>9. WireOK'
  <2>1. Written' = Unit(n, 0)
    BY <1>2, <1>5 DEF Written, Unit
  <2> QED BY <1>2, <1>4, <1>7, <1>8, <2>1, WireStep
<1>10. WritesOK'
  <2>1. Len(sent') = n /\ sent'[n] = length
    BY <1>1, <1>2
  <2>2. \A i \in 1..Len(ops') : ops'[i] = NewWrite
    BY <1>5
  <2> QED BY <1>2, <1>3, <1>5, <2>1, <2>2 DEF WritesOK
<1> QED BY <1>4, <1>9, <1>10 DEF InOrder

\* A chunk that is put on the wire goes on where the wire ends.
LEMMA PutInOrder ==
  ASSUME StreamTypeOK, NEW lengths \in Seq(Nat), Len(sent) <= Len(lengths),
         \A n \in 1..Len(sent) : lengths[n] = sent[n],
         NEW op, op.msg \in 1..Len(lengths), op.off \in Nat,
         NEW k \in Nat, k > 0, op.off + k <= 1 + lengths[op.msg],
         Run(sent, wire, Expected, Unit(op.msg, op.off)), wire' = wire \o Chunk(op, k)
  PROVE  Run(lengths, wire', Expected,
             IF op.off + k <= lengths[op.msg] THEN Unit(op.msg, op.off + k)
             ELSE Unit(op.msg + 1, 0))
<1> DEFINE n == Len(lengths)
           last == IF op.off + k <= lengths[op.msg] THEN Unit(op.msg, op.off + k)
                   ELSE Unit(op.msg + 1, 0)
<1>1. Len(sent) \in Nat /\ n \in Nat /\ sent \in Seq(Nat) /\ wire \in Seq(UnitsOf(Len(sent)))
  BY TypeFacts, KindIsOne
<1>2. wire \in Seq(UnitsOf(n))
  BY <1>1, MoreTypes
<1>3. Chunk(op, k) \in Seq(UnitsOf(n))
  <2>1. Chunk(op, k) \in Freed(op, k)
    BY DEF Freed
  <2> QED BY <1>1, <2>1, ChunkTyped
<1>4. Run(lengths, wire, Expected, Unit(op.msg, op.off))
  BY <1>1, RunLonger
<1>5. Run(lengths, Chunk(op, k), Unit(op.msg, op.off), last)
  BY ChunkRun
<1> HIDE DEF last
<1>6. Run(lengths, wire \o Chunk(op, k), Expected, last)
  BY <1>2, <1>3, <1>4, <1>5, RunConcat
<1> QED BY <1>6 DEF last

LEMMA WriteSomeInOrder ==
  ASSUME StreamTypeOK, InOrder, WriteSome
  PROVE  InOrder'
<1>1. PICK i \in DOMAIN ops :
        LET k == Takes(ops[i], Size(ops[i].msg)) IN
          /\ wire' = wire \o Chunk(ops[i], k)
          /\ ops' = IF ops[i].off + k = Size(ops[i].msg) THEN RemoveAt(ops, i)
                    ELSE [ops EXCEPT ![i].off = @ + k]
  BY DEF WriteSome
<1>2. /\ kind = "file" /\ up /\ Len(wire) < Room
      /\ UNCHANGED <<kind, split, sent, up, frame, delivered>>
  BY DEF WriteSome
<1> DEFINE op == ops[i]
           n == Len(sent)
           size == 1 + sent[n]
           k == Takes(op, size)
<1>3. /\ i = 1 /\ Len(ops) = 1 /\ op.msg = n /\ op.at = "reactor" /\ op.off <= sent[n]
  <2>1. i \in 1..Len(ops) /\ Len(ops) \in Nat
    BY TypeFacts
  <2>2. Len(ops) <= 1
    BY <1>2 DEF InOrder, WritesOK
  <2>3. i = 1 /\ Len(ops) = 1
    <3> DEFINE l == Len(ops)
    <3>1. i \in 1..l /\ l \in Nat /\ l <= 1
      BY <2>1, <2>2
    <3> HIDE DEF l
    <3>2. i = 1 /\ l = 1
      BY <3>1
    <3> QED BY <3>2 DEF l
  <2>4. ops[i].msg = Len(sent) /\ ops[i].at = "reactor" /\ ops[i].off <= sent[Len(sent)]
    BY <1>2, <2>1 DEF InOrder, WritesOK
  <2> QED BY <2>3, <2>4
<1>4. /\ ops \in Seq(OpsOf(n)) /\ op \in OpsOf(n) /\ n \in Nat /\ n \in 1..n /\ op.off \in Nat
      /\ sent[n] \in Nat /\ size \in Nat /\ sent \in Seq(Nat) /\ op.off < size
  <2>1. ops \in Seq(OpsOf(n)) /\ op \in OpsOf(n) /\ n \in Nat /\ sent \in Seq(Nat)
    BY <1>3, TypeFacts, KindIsOne
  <2>2. op.msg \in 1..n /\ op.off \in Nat
    BY <2>1 DEF OpsOf
  <2>3. n \in 1..n
    BY <1>3, <2>2
  <2>4. sent[n] \in Nat
    BY <2>3, TypeFacts
  <2> HIDE DEF op
  <2> QED BY <1>3, <2>1, <2>2, <2>3, <2>4
<1>5. /\ k \in Nat /\ k > 0 /\ op.off + k <= size
  <2> HIDE DEF op, size
  <2> QED BY <1>2, <1>4, TakesBounds DEF size
<1>6. /\ wire' = wire \o Chunk(op, k)
      /\ ops' = IF op.off + k = size THEN RemoveAt(ops, i) ELSE [ops EXCEPT ![i].off = @ + k]
  BY <1>1, <1>3 DEF Size
<1> HIDE DEF k
<1>7. PICK next : Run(sent, wire, Expected, next) /\ next = Written
  BY <1>2 DEF InOrder, WireOK
<1>8. Written = Unit(op.msg, op.off)
  <2>1. Len(<<>>) = 0 /\ Len(ops) # 0
    BY <1>3
  <2>2. ops # <<>>
    BY <2>1, Zenon
  <2>3. ops[1] = op
    BY <1>3
  <2> HIDE DEF op
  <2> QED BY <1>2, <2>2, <2>3 DEF Written
<1> DEFINE last == IF op.off + k <= sent[op.msg] THEN Unit(op.msg, op.off + k)
                   ELSE Unit(op.msg + 1, 0)
<1>9. Run(sent, wire', Expected, last)
  <2>1. Len(sent) <= Len(sent) /\ op.off + k <= 1 + sent[op.msg] /\ op.msg \in 1..Len(sent)
    BY <1>3, <1>4, <1>5
  <2>2. Run(sent, wire, Expected, Unit(op.msg, op.off))
    BY <1>7, <1>8
  <2> HIDE DEF op
  <2> QED BY <1>4, <1>5, <1>6, <2>1, <2>2, PutInOrder
<1>10. FrameOK' /\ Expected' = Expected
  BY <1>2 DEF InOrder, FrameOK, Expected, Unit
<1>11. Written' = last /\ WritesOK'
  <2>1. CASE op.off + k = size
    <3>1. Len(ops') = 0 /\ ops' = <<>>
      <4>1. RemoveAt(ops, i) \in Seq(OpsOf(n)) /\ Len(RemoveAt(ops, i)) = Len(ops) - 1
        <5>1. i \in 1..Len(ops)
          BY <1>3
        <5> HIDE DEF n
        <5> QED BY <1>4, <5>1, RemoveAtProperties
      <4>2. ops' = RemoveAt(ops, i)
        BY <1>6, <2>1
      <4>3. ops' \in Seq(OpsOf(n)) /\ Len(ops') = 0
        BY <1>3, <4>1, <4>2
      <4> QED BY <4>3
    <3>2. last = Unit(n + 1, 0)
      BY <1>3, <1>4, <1>5, <2>1
    <3>3. Written' = Unit(n + 1, 0)
      BY <1>2, <3>1 DEF Written, Unit
    <3>4. WritesOK'
      BY <1>2, <3>1 DEF WritesOK
    <3> QED BY <3>2, <3>3, <3>4
  <2>2. CASE op.off + k # size
    <3> DEFINE sum == op.off + k
               moved == [op EXCEPT !.off = sum]
    <3>1. ops' = [ops EXCEPT ![i] = moved]
      BY <1>6, <2>2
    <3>2. sum \in Nat /\ sum <= sent[n]
      BY <1>4, <1>5, <2>2
    <3>3. last = Unit(n, sum)
      BY <1>3, <3>2
    <3> HIDE DEF sum, op
    <3>4. moved \in OpsOf(n) /\ moved.msg = n /\ moved.off = sum /\ moved.at = "reactor"
      BY <1>3, <1>4, <3>2 DEF OpsOf
    <3> HIDE DEF moved
    <3>5. ops' \in Seq(OpsOf(n)) /\ Len(ops') = 1 /\ ops'[1] = moved /\ ops' # <<>>
      <4>1. /\ ops' \in Seq(OpsOf(n)) /\ Len(ops') = Len(ops)
            /\ \A j \in 1..Len(ops) : ops'[j] = IF j = i THEN moved ELSE ops[j]
        <5>1. i \in 1..Len(ops)
          BY <1>3
        <5> HIDE DEF n
        <5> QED BY <1>4, <3>1, <3>4, <5>1, ExceptSeq
      <4>2. Len(ops') = 1 /\ ops'[1] = moved
        <5>1. 1 \in 1..Len(ops) /\ Len(ops) = 1 /\ i = 1
          BY <1>3
        <5> QED BY <4>1, <5>1
      <4>3. Len(<<>>) = 0 /\ Len(ops') # 0
        BY <4>2
      <4>4. ops' # <<>>
        BY <4>3, Zenon
      <4> QED BY <4>1, <4>2, <4>4, Zenon
    <3>6. Written' = Unit(n, sum)
      BY <1>2, <3>4, <3>5 DEF Written, Unit
    <3>7. WritesOK'
      <4>1. \A j \in 1..Len(ops') : ops'[j] = moved
        BY <3>5
      <4> QED BY <1>2, <3>2, <3>4, <3>5, <4>1 DEF WritesOK
    <3> QED BY <3>3, <3>6, <3>7
  <2> QED BY <2>1, <2>2
<1>12. WireOK'
  <2> DEFINE units == wire'
  <2>1. Run(sent, units, Expected, last) /\ wire' = units
    BY <1>9
  <2> HIDE DEF units, last
  <2> QED BY <1>2, <1>10, <1>11, <2>1, WireStep
<1> QED BY <1>10, <1>11, <1>12 DEF InOrder

LEMMA SendMessageInOrder ==
  ASSUME StreamTypeOK, Ordered => InOrder, NEW length \in Lengths, SendMessage(length), ~split'
  PROVE  InOrder'
<1> DEFINE longer == Append(sent, length)
           n == Len(sent) + 1
           size == 1 + length
           k == Takes(NewWrite, size)
<1>1. /\ longer \in Seq(Lengths) /\ Len(longer) = n /\ longer[n] = length
      /\ \A i \in 1..Len(sent) : longer[i] = sent[i]
      /\ \A i \in 1..Len(ops) : ops[i].off <= 1 + longer[ops[i].msg]
  BY LongerSent
<1>2. /\ kind = "text" /\ up /\ sent' = longer /\ UNCHANGED <<kind, up, frame, delivered>>
      /\ ~split /\ ~(Len(wire') - Len(wire) < size)
  BY DEF SendMessage
<1>3. /\ Len(sent) \in Nat /\ sent \in Seq(Nat) /\ longer \in Seq(Nat) /\ length \in Nat
      /\ Lengths \subseteq Nat /\ wire \in Seq(UnitsOf(Len(sent))) /\ Len(wire) \in Nat
      /\ ops \in Seq(OpsOf(Len(sent))) /\ Len(ops) \in Nat
  BY <1>1, TypeFacts, KindIsOne, StreamAssumption, SeqMonotonic
<1> HIDE DEF longer
<1>4. InOrder
  BY <1>2 DEF Ordered
<1>5. \A i \in 1..Len(ops) : ops[i].at = "handler" /\ ops[i].off = 1 + sent[ops[i].msg]
  BY <1>2, <1>4 DEF InOrder, WritesOK
<1>6. IF Waiting(ops) = {} /\ k > 0
      THEN /\ wire' = wire \o Chunk(NewWrite, k)
           /\ ops' = Append(ops, [NewWrite EXCEPT !.off = @ + k, !.at = "handler"])
      ELSE UNCHANGED wire
  <2>1. Issue(ops, NewWrite, 1 + length, LAMBDA op, j : {Chunk(op, j)})
    BY DEF SendMessage
  <2> QED BY <2>1 DEF Issue
<1>7. NewWrite = [msg |-> n, off |-> 0, at |-> "reactor"]
  BY DEF NewWrite
<1>8. k \in Nat /\ k <= size /\ size \in Nat
  <2>1. NewWrite.off = 0
    BY <1>7
  <2>2. size \in Nat
    BY <1>3
  <2> HIDE DEF size
  <2>3. NewWrite.off \in Nat /\ NewWrite.off <= size
    BY <2>1, <2>2
  <2>4. k \in Nat /\ NewWrite.off + k <= size
    BY <2>2, <2>3, TakesBounds
  <2> QED BY <2>1, <2>2, <2>4
<1> HIDE DEF k
<1>9. wire' = wire \o Chunk(NewWrite, k)
      /\ ops' = Append(ops, [NewWrite EXCEPT !.off = @ + k, !.at = "handler"])
  <2>1. wire' # wire
    BY <1>2, <1>3, <1>8
  <2> QED BY <1>6, <2>1
<1>10. NewWrite.msg = n /\ NewWrite.off = 0 /\ NewWrite.msg \in 1..n
  BY <1>3, <1>7
<1>11. Len(wire') = Len(wire) + k
  <2>1. Chunk(NewWrite, k) \in Freed(NewWrite, k)
    BY DEF Freed
  <2>2. /\ Chunk(NewWrite, k) \in Seq(UnitsOf(n)) /\ Len(Chunk(NewWrite, k)) = k
    <3>1. n \in Nat /\ NewWrite.off \in Nat
      BY <1>3, <1>10
    <3> HIDE DEF n
    <3> QED BY <1>8, <1>10, <2>1, <3>1, ChunkTyped
  <2>3. wire \in Seq(UnitsOf(n))
    BY <1>3, MoreTypes
  <2> QED BY <1>9, <2>2, <2>3, ConcatProperties
<1>12. k = size
  BY <1>2, <1>3, <1>8, <1>11
<1>13. PICK next : Run(sent, wire, Expected, next) /\ next = Written
  BY <1>2, <1>4 DEF InOrder, WireOK
<1>14. next = Unit(n, 0)
  BY <1>2, <1>13 DEF Written
<1>15. Run(longer, wire', Expected, Unit(n + 1, 0))
  <2>1. /\ Len(sent) <= Len(longer) /\ NewWrite.msg \in 1..Len(longer) /\ NewWrite.off \in Nat
        /\ k > 0 /\ NewWrite.off + k <= 1 + longer[NewWrite.msg]
        /\ ~(NewWrite.off + k <= longer[NewWrite.msg])
    BY <1>1, <1>3, <1>8, <1>10, <1>12
  <2>2. Run(sent, wire, Expected, Unit(NewWrite.msg, NewWrite.off))
    BY <1>10, <1>13, <1>14
  <2>3. Run(longer, wire', Expected,
            IF NewWrite.off + k <= longer[NewWrite.msg] THEN Unit(NewWrite.msg, NewWrite.off + k)
            ELSE Unit(NewWrite.msg + 1, 0))
    BY <1>1, <1>3, <1>8, <1>9, <2>1, <2>2, PutInOrder
  <2> QED BY <1>10, <2>1, <2>3
<1>16. FrameOK' /\ Expected' = Expected
  <2>1. FrameOK /\ (frame.pc = "ended" => ~up' /\ wire' = <<>>)
    BY <1>2, <1>4 DEF InOrder, FrameOK
  <2>2. Len(sent) <= Len(longer)
    BY <1>1, <1>3
  <2> QED BY <1>1, <1>2, <1>3, <2>1, <2>2, FrameKept
<1>17. WireOK'
  <2> DEFINE units == wire'
  <2>1. Run(longer, units, Expected, Unit(n + 1, 0)) /\ wire' = units
    BY <1>15
  <2>2. Written' = Unit(n + 1, 0)
    <3>1. kind' # "file" /\ Len(sent') = n
      BY <1>1, <1>2
    <3> QED BY <3>1 DEF Written, Unit
  <2> HIDE DEF units
  <2> QED BY <1>2, <1>16, <2>1, <2>2, WireStep
<1>18. WritesOK'
  <2> DEFINE moved == [NewWrite EXCEPT !.off = @ + k, !.at = "handler"]
  <2>1. moved = [msg |-> n, off |-> size, at |-> "handler"]
    <3>1. NewWrite.off + k = size
      BY <1>8, <1>10, <1>12
    <3>2. moved = [NewWrite EXCEPT !.off = size, !.at = "handler"]
      <4> HIDE DEF size
      <4> QED BY <3>1
    <3> HIDE DEF size, n, moved
    <3> QED BY <1>7, <3>2
  <2>2. moved.msg = n /\ moved.off = size /\ moved.at = "handler" /\ moved \in OpsOf(n)
    <3>1. n \in 1..n /\ size \in Nat
      BY <1>3, <1>8
    <3> HIDE DEF size, n, moved
    <3> QED BY <2>1, <3>1 DEF OpsOf
  <2>3. ops' = Append(ops, moved)
    BY <1>9
  <2> HIDE DEF moved
  <2>4. /\ Len(ops') = Len(ops) + 1 /\ ops'[Len(ops) + 1] = moved
        /\ \A i \in 1..Len(ops) : ops'[i] = ops[i]
    <3>1. ops \in Seq(OpsOf(n))
      BY <1>3, MoreTypes
    <3> QED BY <2>2, <2>3, <3>1, AppendProperties
  <2>5. ASSUME NEW i \in 1..Len(ops')
        PROVE  ops'[i].at = "handler" /\ ops'[i].off = 1 + longer[ops'[i].msg]
    <3>1. CASE i \in 1..Len(ops)
      <4>1. ops[i].msg \in 1..Len(sent)
        <5>1. ops[i] \in OpsOf(Len(sent))
          BY <1>3, <3>1
        <5> QED BY <5>1 DEF OpsOf
      <4> QED BY <1>1, <1>5, <2>4, <3>1, <4>1
    <3>2. CASE i = Len(ops) + 1
      BY <1>1, <2>2, <2>4, <3>2
    <3> QED BY <1>3, <2>4, <3>1, <3>2
  <2> QED BY <1>2, <2>5 DEF WritesOK
<1> QED BY <1>16, <1>17, <1>18 DEF InOrder

-----------------------------------------------------------------------------
(* The invariant, and the order in which texts arrive.                     *)

LEMMA InOrderInit == StreamInit => InOrder
<1> SUFFICES ASSUME StreamInit PROVE InOrder
  OBVIOUS
<1>1. sent = <<>> /\ ops = <<>> /\ wire = <<>> /\ frame = NoFrame /\ delivered = <<>>
  BY DEF StreamInit
<1>2. frame.pc = "header"
  BY <1>1 DEF NoFrame
<1>3. Len(sent) = 0 /\ Len(ops) = 0 /\ Len(wire) = 0 /\ Len(delivered) = 0
  BY <1>1
<1>4. WritesOK
  BY <1>3 DEF WritesOK
<1>5. FrameOK
  BY <1>2, <1>3 DEF FrameOK
<1>6. Expected = Unit(1, 0) /\ Written = Unit(1, 0)
  BY <1>1, <1>2, <1>3 DEF Expected, Written, Unit
<1>7. WireOK
  BY <1>3, <1>6 DEF WireOK, Run
<1> QED BY <1>4, <1>5, <1>7 DEF InOrder

LEMMA InOrderStep ==
  StreamTypeOK /\ (Ordered => InOrder) /\ [StreamNext]_svars => (Ordered' => InOrder')
<1> SUFFICES ASSUME StreamTypeOK, Ordered => InOrder, [StreamNext]_svars, Ordered'
             PROVE  InOrder'
  OBVIOUS
<1>1. ASSUME NEW length \in Lengths, SendMessage(length) PROVE InOrder'
  <2>1. ~split'
    BY <1>1 DEF SendMessage, Ordered
  <2> QED BY <1>1, <2>1, SendMessageInOrder
<1>2. ASSUME NEW length \in Lengths, BeginWrite(length) PROVE InOrder'
  <2>1. Ordered
    BY <1>2 DEF BeginWrite, Ordered
  <2> QED BY <1>2, <2>1, BeginWriteInOrder
<1>3. CASE WriteHandler
  <2>1. Ordered
    BY <1>3 DEF WriteHandler, Ordered
  <2> QED BY <1>3, <2>1, WriteHandlerInOrder
<1>4. CASE ReactorWrites
  <2>1. Ordered
    BY <1>4 DEF ReactorWrites, Ordered
  <2> QED BY <1>4, <2>1, ReactorWritesInOrder
<1>5. CASE WriteSome
  <2>1. Ordered
    BY <1>5 DEF WriteSome, Ordered
  <2> QED BY <1>5, <2>1, WriteSomeInOrder
<1>6. CASE ReadHeader
  <2>1. Ordered
    BY <1>6 DEF ReadHeader, Ordered
  <2> QED BY <1>6, <2>1, ReadHeaderInOrder
<1>7. CASE ReadBody
  <2>1. Ordered
    BY <1>7 DEF ReadBody, Ordered
  <2> QED BY <1>7, <2>1, ReadBodyInOrder
<1>8. CASE ReadFails
  <2>1. Ordered
    BY <1>8 DEF ReadFails, Ordered
  <2> QED BY <1>8, <2>1, ReadFailsInOrder
<1>9. CASE ConnectionLost
  <2>1. Ordered
    BY <1>9 DEF ConnectionLost, Ordered
  <2> QED BY <1>9, <2>1, ConnectionLostInOrder
<1>10. CASE UNCHANGED svars
  <2>1. UNCHANGED <<kind, split, sent, ops, wire, up, frame, delivered>>
    BY <1>10 DEF svars
  <2>2. InOrder
    BY <2>1 DEF Ordered
  <2>3. WritesOK' /\ FrameOK'
    BY <2>1, <2>2 DEF InOrder, WritesOK, FrameOK, Unit
  <2>4. Expected' = Expected /\ Written' = Written
    BY <2>1 DEF Expected, Written, Unit
  <2>5. WireOK'
    <3>1. PICK next : Run(sent, wire, Expected, next) /\ (up => next = Written)
      BY <2>2 DEF InOrder, WireOK
    <3> QED BY <2>1, <2>4, <3>1, WireStep
  <2> QED BY <2>3, <2>5 DEF InOrder
<1> QED BY <1>1, <1>2, <1>3, <1>4, <1>5, <1>6, <1>7, <1>8, <1>9, <1>10 DEF StreamNext, Write, Read

\* What the wire and the writers hold at every moment of a connection that keeps the order.
THEOREM WireKeepsOrder == StreamSpec => [](Ordered => InOrder)
<1>1. StreamInit => StreamTypeOK /\ (Ordered => InOrder)
  BY StreamInitTyped, InOrderInit
<1>2. StreamTypeOK /\ (Ordered => InOrder) /\ [StreamNext]_svars
        => StreamTypeOK' /\ (Ordered => InOrder)'
  BY StreamTypedStep, InOrderStep
<1> QED BY <1>1, <1>2, PTL DEF StreamSpec

\* SendMessage, called by any number of threads while earlier messages are under way:
\* what each receiver reads is the first messages, whole and in the order of the calls,
\* as long as the kernel took each message during its call.
THEOREM TextsArriveInOrder == StreamSpec => []FittingTextsArrive
<1>1. StreamTypeOK /\ (Ordered => InOrder) => FittingTextsArrive
  <2> SUFFICES ASSUME StreamTypeOK, Ordered => InOrder, kind = "text", ~split
               PROVE  delivered = [i \in 1..Len(delivered) |-> i]
    BY DEF FittingTextsArrive
  <2>1. \A i \in 1..Len(delivered) : delivered[i] = i
    BY DEF Ordered, InOrder, FrameOK
  <2>2. delivered = [i \in 1..Len(delivered) |-> delivered[i]]
    BY TypeFacts
  <2> QED BY <2>1, <2>2, Zenon
<1> QED BY <1>1, StreamTyping, WireKeepsOrder, PTL

-----------------------------------------------------------------------------
(* The worker and the receiver of a file socket are a channel.             *)

LEMMA ChannelStart == StreamInit => Channel!Start
<1> SUFFICES ASSUME StreamInit PROVE Channel!Start
  OBVIOUS
<1>1. sent = <<>> /\ delivered = <<>> /\ up = TRUE
  BY DEF StreamInit
<1>2. [n \in DOMAIN sent |-> n] = <<>>
  BY <1>1
<1> QED BY <1>1, <1>2 DEF Channel!Start

LEMMA ChannelPost ==
  ASSUME StreamTypeOK, NEW length \in Lengths, sent' = Append(sent, length), up,
         Len(sent) < MaxMessages, UNCHANGED <<kind, up, delivered>>
  PROVE  Channel!Post
<1> DEFINE out == [n \in DOMAIN sent |-> n]
           longer == Append(sent, length)
           more == [n \in DOMAIN longer |-> n]
           k == Len(sent)
<1>1. /\ longer \in Seq(Lengths) /\ Len(longer) = k + 1 /\ k \in Nat
      /\ DOMAIN longer = 1..(k + 1) /\ DOMAIN sent = 1..k
  <2>1. sent \in Seq(Lengths) /\ k \in Nat
    BY TypeFacts
  <2>2. longer \in Seq(Lengths) /\ Len(longer) = k + 1
    BY <2>1, AppendProperties
  <2> HIDE DEF longer
  <2> QED BY <2>1, <2>2
<1> HIDE DEF longer, k
<1>2. /\ out \in Seq(Nat) /\ Len(out) = k /\ \A n \in 1..k : out[n] = n
  <2>1. out \in [1..k -> Nat]
    BY <1>1
  <2>2. \A n \in 1..k : out[n] = n
    BY <1>1
  <2> HIDE DEF out
  <2> QED BY <1>1, <2>1, <2>2, FcnIsSeq
<1>3. /\ more \in Seq(Nat) /\ Len(more) = k + 1 /\ \A n \in 1..(k + 1) : more[n] = n
  <2>1. more \in [1..(k + 1) -> Nat] /\ k + 1 \in Nat
    BY <1>1
  <2>2. \A n \in 1..(k + 1) : more[n] = n
    BY <1>1
  <2> HIDE DEF more
  <2> QED BY <2>1, <2>2, FcnIsSeq
<1> HIDE DEF out, more
<1>4. more = Append(out, k + 1)
  <2>1. /\ Append(out, k + 1) \in Seq(Nat) /\ Len(Append(out, k + 1)) = k + 1
        /\ \A n \in 1..k : Append(out, k + 1)[n] = out[n]
        /\ Append(out, k + 1)[k + 1] = k + 1
    BY <1>1, <1>2, AppendProperties
  <2>2. \A n \in 1..(k + 1) : more[n] = Append(out, k + 1)[n]
    BY <1>1, <1>2, <1>3, <2>1
  <2> QED BY <1>3, <2>1, <2>2, SeqEqual
<1>5. [n \in DOMAIN sent' |-> n] = more
  BY DEF more, longer
<1>6. k + 1 \in 1..MaxMessages
  BY <1>1, StreamAssumption DEF k
<1> QED BY <1>2, <1>4, <1>5, <1>6 DEF Channel!Post, out

\* A handled frame of a file socket is the next file.
LEMMA ChannelDeliver ==
  ASSUME StreamTypeOK, StreamTypeOK', InOrder, InOrder', kind = "file",
         UNCHANGED <<kind, sent, up>>, NEW n, delivered' = Append(delivered, n)
  PROVE  Channel!Deliver
<1> DEFINE d == Len(delivered) + 1
           out == [i \in DOMAIN sent |-> i]
<1>1. /\ delivered \in Seq(0..Len(sent)) /\ Len(delivered) \in Nat /\ Len(sent) \in Nat
      /\ sent \in Seq(Lengths) /\ DOMAIN sent = 1..Len(sent)
  BY TypeFacts
<1>2. delivered' \in Seq(0..Len(sent))
  BY DEF StreamTypeOK
<1>3. delivered \in Seq({n} \cup 0..Len(sent)) /\ n \in {n} \cup 0..Len(sent)
  BY <1>1, SeqMonotonic
<1>4. Len(delivered') = d /\ delivered'[d] = n
  BY <1>3, AppendProperties
<1>5. \A i \in 1..Len(delivered') : delivered'[i] = i /\ delivered'[i] \in 0..Len(sent)
  BY <1>2, ElementOfSeq DEF InOrder, FrameOK
<1>6. d \in 1..Len(delivered') /\ d \in Nat /\ d > 0
  BY <1>1, <1>4
<1> HIDE DEF d
<1>7. n = d /\ d \in 1..Len(sent)
  BY <1>1, <1>4, <1>5, <1>6
<1>8. out[d] = n
  BY <1>1, <1>7
<1>9. Len(out) = Len(sent)
  <2>1. out \in [1..Len(sent) -> Nat]
    BY <1>1
  <2> HIDE DEF out
  <2> QED BY <1>1, <2>1, FcnIsSeq
<1>10. Len(delivered) < Len(out)
  BY <1>1, <1>7, <1>9 DEF d
<1>11. delivered' = Append(delivered, out[Len(delivered) + 1])
  BY <1>8 DEF d
<1> HIDE DEF out
<1>12. UNCHANGED <<[i \in DOMAIN sent |-> i], up>>
  OBVIOUS
<1> QED BY <1>10, <1>11, <1>12 DEF Channel!Deliver, out

LEMMA HandledOrNot ==
  ASSUME NEW header, NEW body, HandleMessage(header, body)
  PROVE  delivered' = delivered \/ \E n : delivered' = Append(delivered, n)
BY DEF HandleMessage

LEMMA ReadStepDelivers ==
  ASSUME Read
  PROVE  /\ UNCHANGED <<kind, sent, up>>
         /\ delivered' = delivered \/ \E n : delivered' = Append(delivered, n)
<1>1. CASE ReadHeader
  <2>1. UNCHANGED <<kind, sent, up>>
    BY <1>1 DEF ReadHeader
  <2>2. PICK length \in BodyLength(Head(wire)) :
          IF length = 0
          THEN HandleMessage(Head(wire), <<>>)
          ELSE UNCHANGED delivered
    BY <1>1 DEF ReadHeader
  <2> QED BY <2>1, <2>2, HandledOrNot
<1>2. CASE ReadBody
  <2> DEFINE body == Append(frame.body, Head(wire))
  <2>1. UNCHANGED <<kind, sent, up>>
    BY <1>2 DEF ReadBody
  <2>2. IF Len(body) = frame.need
        THEN HandleMessage(frame.header, body)
        ELSE UNCHANGED delivered
    BY <1>2 DEF ReadBody
  <2> HIDE DEF body
  <2> QED BY <2>1, <2>2, HandledOrNot
<1>3. CASE ReadFails
  BY <1>3 DEF ReadFails
<1> QED BY <1>1, <1>2, <1>3 DEF Read

LEMMA ChannelStutters ==
  ASSUME UNCHANGED <<kind, sent, up>>, kind # "file" \/ delivered' = delivered
  PROVE  UNCHANGED Channel!chvars
BY DEF Channel!chvars

LEMMA ChannelStep ==
  /\ StreamTypeOK /\ StreamTypeOK' /\ (Ordered => InOrder) /\ (Ordered => InOrder)'
  /\ [StreamNext]_svars
  => [Channel!Post \/ Channel!Deliver \/ Channel!Break]_(Channel!chvars)
<1> SUFFICES ASSUME StreamTypeOK, StreamTypeOK', Ordered => InOrder, Ordered' => InOrder',
                    [StreamNext]_svars
             PROVE  Channel!Post \/ Channel!Deliver \/ Channel!Break \/ UNCHANGED Channel!chvars
  OBVIOUS
<1>1. ASSUME NEW length \in Lengths, SendMessage(length) PROVE Channel!Post
  <2>1. /\ up /\ sent' = Append(sent, length) /\ Len(sent) < MaxMessages
        /\ UNCHANGED <<kind, up, delivered>>
    BY <1>1 DEF SendMessage
  <2> QED BY <2>1, ChannelPost
<1>2. ASSUME NEW length \in Lengths, BeginWrite(length) PROVE Channel!Post
  <2>1. /\ up /\ sent' = Append(sent, length) /\ Len(sent) < MaxMessages
        /\ UNCHANGED <<kind, up, delivered>>
    BY <1>2 DEF BeginWrite
  <2> QED BY <2>1, ChannelPost
<1>3. CASE WriteHandler \/ ReactorWrites \/ WriteSome \/ UNCHANGED svars
  <2>1. UNCHANGED <<kind, sent, up, delivered>>
    <3>1. WriteHandler => UNCHANGED <<kind, sent, up, delivered>>
      BY DEF WriteHandler
    <3>2. ReactorWrites => UNCHANGED <<kind, sent, up, delivered>>
      BY DEF ReactorWrites
    <3>3. WriteSome => UNCHANGED <<kind, sent, up, delivered>>
      BY DEF WriteSome
    <3>4. UNCHANGED svars => UNCHANGED <<kind, sent, up, delivered>>
      BY DEF svars
    <3> QED BY <1>3, <3>1, <3>2, <3>3, <3>4
  <2> QED BY <2>1, ChannelStutters
<1>4. CASE Read
  <2>1. /\ UNCHANGED <<kind, sent, up>>
        /\ delivered' = delivered \/ \E n : delivered' = Append(delivered, n)
    BY <1>4, ReadStepDelivers
  <2>2. CASE kind # "file" \/ delivered' = delivered
    BY <2>1, <2>2, ChannelStutters
  <2>3. CASE kind = "file" /\ delivered' # delivered
    <3>1. InOrder /\ InOrder'
      BY <2>1, <2>3 DEF Ordered
    <3>2. PICK n : delivered' = Append(delivered, n)
      BY <2>1, <2>3
    <3> QED BY <2>1, <2>3, <3>1, <3>2, ChannelDeliver
  <2> QED BY <2>2, <2>3
<1>5. CASE ConnectionLost
  <2>1. up' = FALSE /\ UNCHANGED <<kind, sent, delivered>>
    BY <1>5 DEF ConnectionLost
  <2> QED BY <2>1 DEF Channel!Break
<1> QED BY <1>1, <1>2, <1>3, <1>4, <1>5 DEF StreamNext, Write

\* A queue's worker, the socket and a receiver implement the channel: every file that is
\* handed over is the next one written, whole, whatever the sizes of the pieces in which
\* it travelled, and a connection that breaks loses only the last ones.
THEOREM StreamIsChannel == StreamSpec => ImplementsChannel
<1>1. StreamInit => Channel!Start
  BY ChannelStart
<1>2. /\ StreamTypeOK /\ StreamTypeOK' /\ (Ordered => InOrder) /\ (Ordered => InOrder)'
      /\ [StreamNext]_svars
      => [Channel!Post \/ Channel!Deliver \/ Channel!Break]_(Channel!chvars)
  BY ChannelStep
<1>3. StreamSpec => Channel!Spec
  BY <1>1, <1>2, StreamTyping, WireKeepsOrder, PTL DEF StreamSpec, Channel!Spec
<1> QED BY <1>3 DEF ImplementsChannel
=============================================================================
