------------------------- MODULE FrameReaderProofs -------------------------
(* FrameReader reads what was sent, for any number of frames, any messages *)
(* and any number of values of a byte.                                     *)
EXTENDS FrameReader, CodecProofs

Frame(i) == serialize(sent[i])
End(i) == starts[i] + Len(Frame(i))

\* Where all that was ever sent ends, and where the n-th frame starts or would start.
SentEnd == IF sent = <<>> THEN 0 ELSE End(Len(sent))
StartOf(n) == IF n <= Len(sent) THEN starts[n] ELSE SentEnd
Next == Len(received) + 1

FrameTypeOK ==
  /\ sent \in Seq(Messages) /\ starts \in Seq(Nat) /\ Len(starts) = Len(sent)
  /\ stream \in Seq(Bytes) /\ up \in BOOLEAN /\ taken \in Nat
  /\ reading \in {"header", "body", "ended"}
  /\ header \in Seq(Bytes) /\ received \in Seq(Messages)

\* Each frame starts where the one before it ends.
Contiguous ==
  /\ \A i \in 1..(Len(sent) - 1) : starts[i + 1] = End(i)
  /\ \A i \in 1..Len(sent) : End(i) <= SentEnd

\* The stream holds the bytes of each frame, as far as it reaches.
Laid ==
  \A i \in 1..Len(sent) : \A k \in 1..Len(Frame(i)) :
    starts[i] + k <= Len(stream) => stream[starts[i] + k] = Frame(i)[k]

\* A broken connection holds a part of what was sent.
Reach == Len(stream) <= SentEnd /\ (up => Len(stream) = SentEnd)

\* Where the reader stands, and what it has of the frame under way.
Position ==
  /\ reading = "header" => taken = StartOf(Next)
  /\ reading = "body" =>
       /\ Next <= Len(sent) /\ taken = starts[Next] + 12
       /\ header = SubSeq(Frame(Next), 1, 12)

FrameInv ==
  FrameTypeOK /\ Contiguous /\ Laid /\ Reach /\ Position /\ ReadAsSent

-----------------------------------------------------------------------------
(* Facts of sequences and frames.                                          *)

LEMMA FrameFacts ==
  ASSUME FrameTypeOK, NEW i \in 1..Len(sent)
  PROVE  /\ sent[i] \in Messages /\ starts[i] \in Nat
         /\ Frame(i) \in Seq(Bytes) /\ Len(Frame(i)) \in Nat /\ FrameSize(sent[i]) \in Nat
         /\ Len(Frame(i)) = 12 + FrameSize(sent[i])
         /\ End(i) \in Nat
<1>1. sent[i] \in Messages /\ starts[i] \in Nat
  BY DEF FrameTypeOK
<1>2. /\ serialize(sent[i]) \in Seq(Bytes) /\ FrameSize(sent[i]) \in Nat
      /\ Len(serialize(sent[i])) = 12 + FrameSize(sent[i])
  BY <1>1, FrameLayout
<1> QED BY <1>1, <1>2 DEF Frame, End

LEMMA SentEndNat == FrameTypeOK => SentEnd \in Nat
<1>1. ASSUME FrameTypeOK, sent # <<>> PROVE End(Len(sent)) \in Nat
  <2>1. Len(sent) \in 1..Len(sent)
    BY <1>1 DEF FrameTypeOK
  <2> QED BY <1>1, <2>1, FrameFacts
<1> QED BY <1>1 DEF SentEnd

\* A piece of a buffer, byte by byte.
LEMMA PieceBytes ==
  ASSUME NEW s \in Seq(Bytes), NEW from \in Nat, NEW n \in Nat, from + n <= Len(s)
  PROVE  /\ Piece(s, from, n) \in Seq(Bytes) /\ Len(Piece(s, from, n)) = n
         /\ \A k \in 1..n : Piece(s, from, n)[k] = s[from + k]
<1> DEFINE first == from + 1
           last == from + n
<1>1. first \in Int /\ last \in Int /\ Len(s) \in Nat
  OBVIOUS
<1>2. \A i \in first .. last : s[i] \in Bytes
  BY ElementOfSeq
<1>3. /\ first = from + 1 /\ last = from + n
      /\ Piece(s, from, n) = SubSeq(s, first, last)
  BY DEF Piece
<1> HIDE DEF first, last
<1>4. /\ SubSeq(s, first, last) \in Seq(Bytes)
      /\ Len(SubSeq(s, first, last)) = IF first <= last THEN last - first + 1 ELSE 0
      /\ \A i \in 1 .. last - first + 1 : SubSeq(s, first, last)[i] = s[first + i - 1]
  BY ONLY <1>1, <1>2, SubSeqProperties
<1>5. last - first + 1 = n /\ (first <= last <=> n > 0)
  BY <1>3
<1>6. \A i \in 1..n : first + i - 1 = from + i
  BY <1>3
<1> QED BY <1>3, <1>4, <1>5, <1>6

\* The first bytes of a frame that lies in a buffer.
LEMMA PieceIsCut ==
  ASSUME NEW s \in Seq(Bytes), NEW f \in Seq(Bytes), NEW at \in Nat,
         \A k \in 1..Len(f) : at + k <= Len(s) => s[at + k] = f[k],
         NEW n \in Nat, n <= Len(f), at + n <= Len(s)
  PROVE  Piece(s, at, n) = SubSeq(f, 1, n)
<1> DEFINE p == Piece(s, at, n)
           c == SubSeq(f, 1, n)
<1>1. p \in Seq(Bytes) /\ Len(p) = n /\ \A k \in 1..n : p[k] = s[at + k]
  BY PieceBytes
<1>2. Starts(f, c) /\ Len(c) = n
  BY CutStarts
<1>3. c \in Seq(Bytes) /\ \A k \in 1..n : c[k] = f[k]
  BY <1>2 DEF Starts
<1>4. \A k \in 1..n : s[at + k] = f[k]
  OBVIOUS
<1> HIDE DEF p, c
<1>5. p = c
  BY <1>1, <1>2, <1>3, <1>4, SeqEqual
<1> QED BY <1>5 DEF p, c

\* A header and the body behind it make the frame.
LEMMA HeaderAndBody ==
  ASSUME NEW s \in Seq(Bytes), NEW f \in Seq(Bytes), NEW at \in Nat,
         \A k \in 1..Len(f) : at + k <= Len(s) => s[at + k] = f[k],
         NEW n \in Nat, Len(f) = 12 + n, at + 12 + n <= Len(s)
  PROVE  SubSeq(f, 1, 12) \o Piece(s, at + 12, n) = f
<1> DEFINE h == SubSeq(f, 1, 12)
           b == Piece(s, at + 12, n)
<1>1. Starts(f, h) /\ Len(h) = 12
  BY CutStarts
<1>2. h \in Seq(Bytes) /\ \A k \in 1..12 : h[k] = f[k]
  BY <1>1 DEF Starts
<1>3. b \in Seq(Bytes) /\ Len(b) = n /\ \A k \in 1..n : b[k] = f[12 + k]
  <2>1. at + 12 \in Nat /\ at + 12 + n <= Len(s)
    OBVIOUS
  <2>2. b \in Seq(Bytes) /\ Len(b) = n /\ \A k \in 1..n : b[k] = s[at + 12 + k]
    BY <2>1, PieceBytes
  <2>3. ASSUME NEW k \in 1..n PROVE s[at + 12 + k] = f[12 + k]
    <3>1. 12 + k \in 1..Len(f) /\ at + (12 + k) <= Len(s) /\ at + (12 + k) = at + 12 + k
      OBVIOUS
    <3> QED BY <3>1
  <2> QED BY <2>2, <2>3
<1> HIDE DEF h, b
<1>4. /\ Starts(h \o b, h) /\ Len(h \o b) = Len(h) + Len(b)
      /\ \A k \in 1..Len(b) : (h \o b)[Len(h) + k] = b[k]
  BY <1>2, <1>3, ConcatStarts
<1>5. \A k \in 1..Len(f) : (h \o b)[k] = f[k]
  <2>1. ASSUME NEW k \in 1..12 PROVE (h \o b)[k] = f[k]
    BY <1>1, <1>2, <1>4 DEF Starts
  <2>2. ASSUME NEW k \in 1..n PROVE (h \o b)[12 + k] = f[12 + k]
    BY <1>1, <1>3, <1>4
  <2>3. ASSUME NEW k \in 1..Len(f), k > 12 PROVE k - 12 \in 1..n /\ 12 + (k - 12) = k
    BY <2>3
  <2>4. ASSUME NEW k \in 1..Len(f), k > 12 PROVE (h \o b)[k] = f[k]
    BY <2>2, <2>3, <2>4
  <2>5. ASSUME NEW k \in 1..Len(f), k <= 12 PROVE (h \o b)[k] = f[k]
    <3>1. k \in 1..12
      BY <2>5
    <3> QED BY <2>1, <3>1
  <2>6. ASSUME NEW k \in 1..Len(f) PROVE k <= 12 \/ k > 12
    OBVIOUS
  <2> QED BY <2>4, <2>5, <2>6
<1>6. h \o b \in Seq(Bytes) /\ Len(h \o b) = Len(f)
  BY <1>1, <1>3, <1>4 DEF Starts
<1>7. h \o b = f
  BY <1>5, <1>6, SeqEqual
<1> QED BY <1>7 DEF h, b

-----------------------------------------------------------------------------
(* The invariant.                                                          *)

LEMMA Initially == FrameInit => FrameInv
<1> SUFFICES ASSUME FrameInit PROVE FrameInv
  OBVIOUS
<1>1. FrameTypeOK
  BY DEF FrameInit, FrameTypeOK
<1>2. Contiguous /\ Laid /\ Reach /\ Position /\ ReadAsSent
  BY DEF FrameInit, Contiguous, Laid, Reach, Position, ReadAsSent, SentEnd, StartOf, Next
<1> QED BY <1>1, <1>2 DEF FrameInv

LEMMA WriteKeeps ==
  ASSUME FrameInv, NEW m \in Messages, WriteFrame(m)
  PROVE  FrameInv'
<1> DEFINE f == serialize(m)
<1>1. FrameTypeOK /\ Contiguous /\ Laid /\ Reach /\ Position /\ ReadAsSent
  BY DEF FrameInv
<1>2. /\ sent \in Seq(Messages) /\ starts \in Seq(Nat) /\ Len(starts) = Len(sent)
      /\ stream \in Seq(Bytes) /\ Len(stream) \in Nat /\ Len(sent) \in Nat
  BY <1>1 DEF FrameTypeOK
<1>3. f \in Seq(Bytes) /\ Len(f) \in Nat
  BY FrameLayout
<1>4. /\ up /\ sent' = Append(sent, m) /\ starts' = Append(starts, Len(stream))
      /\ stream' = stream \o f
      /\ up' = up /\ taken' = taken /\ reading' = reading /\ header' = header
      /\ received' = received
  BY DEF WriteFrame
<1> HIDE DEF f
<1>5. /\ sent' \in Seq(Messages) /\ Len(sent') = Len(sent) + 1
      /\ \A i \in 1..Len(sent) : sent'[i] = sent[i]
      /\ sent'[Len(sent) + 1] = m
  BY <1>2, <1>4, AppendProperties
<1>6. /\ starts' \in Seq(Nat) /\ Len(starts') = Len(sent) + 1
      /\ \A i \in 1..Len(sent) : starts'[i] = starts[i]
      /\ starts'[Len(sent) + 1] = Len(stream)
  BY <1>2, <1>4, AppendProperties
<1>7. /\ stream' \in Seq(Bytes) /\ Len(stream') = Len(stream) + Len(f)
      /\ \A k \in 1..Len(stream) : stream'[k] = stream[k]
      /\ \A k \in 1..Len(f) : stream'[Len(stream) + k] = f[k]
  <2>1. /\ Starts(stream \o f, stream) /\ Len(stream \o f) = Len(stream) + Len(f)
        /\ \A k \in 1..Len(f) : (stream \o f)[Len(stream) + k] = f[k]
    BY <1>2, <1>3, ConcatStarts
  <2> QED BY <1>4, <2>1 DEF Starts
<1>8. Len(stream) = SentEnd
  BY <1>1, <1>4 DEF Reach
<1>9. PICK n \in Nat : n = Len(sent)
  BY <1>2
<1>10. /\ \A i \in 1..n : Frame(i)' = Frame(i) /\ End(i)' = End(i) /\ starts'[i] = starts[i]
       /\ Frame(n + 1)' = f /\ End(n + 1)' = Len(stream) + Len(f)
       /\ starts'[n + 1] = Len(stream) /\ Len(sent') = n + 1
  BY <1>5, <1>6, <1>9 DEF Frame, End, f
<1>11. FrameTypeOK'
  BY <1>1, <1>4, <1>5, <1>6, <1>7 DEF FrameTypeOK
<1>12. SentEnd' = Len(stream) + Len(f)
  <2>1. sent' # <<>>
    BY <1>2, <1>4, AppendProperties
  <2>2. \A i : i = n + 1 => End(i)' = Len(stream) + Len(f)
    BY <1>10
  <2>3. (End(Len(sent)))' = Len(stream) + Len(f)
    BY <1>10 DEF End, Frame
  <2> QED BY <2>1, <2>3 DEF SentEnd
<1>13. Contiguous'
  <2>3. ASSUME NEW i \in 1..n PROVE starts'[i + 1] = End(i)'
    <3>1. CASE i = n
      <4>1. sent # <<>>
        BY <1>2, <1>9, <3>1
      <4>2. Len(stream) = End(n)
        BY <1>8, <1>9, <4>1 DEF SentEnd
      <4> QED BY <1>10, <3>1, <4>2
    <3>2. CASE i # n
      <4>1. i \in 1..(n - 1) /\ i + 1 \in 1..n
        BY <3>2
      <4>2. starts[i + 1] = End(i)
        BY <1>1, <1>9, <4>1 DEF Contiguous
      <4> QED BY <1>10, <4>1, <4>2
    <3> QED BY <3>1, <3>2
  <2>4. n + 1 - 1 = n
    OBVIOUS
  <2>5. ASSUME NEW i \in 1..(n + 1) PROVE End(i)' <= SentEnd'
    <3>1. CASE i = n + 1
      BY <1>2, <1>3, <1>10, <1>12, <3>1
    <3>2. CASE i \in 1..n
      <4>1. End(i) \in Nat /\ End(i) <= Len(stream)
        BY <1>1, <1>8, <1>9, <3>2, FrameFacts DEF Contiguous
      <4> QED BY <1>2, <1>3, <1>10, <1>12, <3>2, <4>1
    <3> QED BY <3>1, <3>2
  <2> QED BY <1>10, <2>3, <2>4, <2>5 DEF Contiguous
<1>14. Laid'
  <2>1. ASSUME NEW i \in 1..n, NEW k \in 1..Len(Frame(i)), starts[i] + k <= Len(stream')
        PROVE  stream'[starts[i] + k] = Frame(i)[k]
    <3>1. End(i) <= Len(stream) /\ starts[i] \in Nat /\ Len(Frame(i)) \in Nat
      BY <1>1, <1>8, <1>9, FrameFacts DEF Contiguous
    <3>2. starts[i] + k \in 1..Len(stream)
      BY <1>2, <3>1 DEF End
    <3>3. stream[starts[i] + k] = Frame(i)[k]
      BY <1>1, <1>9, <3>2 DEF Laid
    <3> QED BY <1>7, <3>2, <3>3
  <2>2. ASSUME NEW k \in 1..Len(f) PROVE stream'[Len(stream) + k] = f[k]
    BY <1>7
  <2>3. ASSUME NEW i \in 1..(n + 1)
        PROVE  \A k \in 1..Len(Frame(i)') :
                 starts'[i] + k <= Len(stream') => stream'[starts'[i] + k] = Frame(i)'[k]
    <3>1. CASE i \in 1..n
      BY <1>10, <2>1, <3>1
    <3>2. CASE i = n + 1
      BY <1>10, <2>2, <3>2
    <3> QED BY <3>1, <3>2
  <2> QED BY <1>10, <2>3 DEF Laid
<1>15. Reach'
  BY <1>4, <1>7, <1>12, <1>2, <1>3 DEF Reach
<1>16. Position'
  <2>1. Len(received) \in Nat /\ Next' = Next /\ Next \in 1..(n + 1)
    BY <1>1, <1>4, <1>9 DEF FrameTypeOK, ReadAsSent, Next
  <2>2. PICK j \in 1..(n + 1) : j = Next
    BY <2>1
  <2>3. reading = "header" => taken = starts'[j]
    <3>1. CASE j <= n
      BY <1>1, <1>9, <1>10, <2>2, <3>1 DEF Position, StartOf
    <3>2. CASE j = n + 1
      BY <1>1, <1>8, <1>9, <1>10, <2>2, <3>2 DEF Position, StartOf
    <3> QED BY <3>1, <3>2
  <2>4. StartOf(j)' = starts'[j]
    BY <1>10 DEF StartOf
  <2>5. (StartOf(Next))' = StartOf(j)'
    BY <2>1, <2>2 DEF StartOf
  <2>6. reading = "body" => /\ j <= n /\ taken = starts[j] + 12
                            /\ header = SubSeq(Frame(j), 1, 12)
    BY <1>1, <1>9, <2>2 DEF Position
  <2>7. j <= n => Frame(j)' = Frame(j) /\ starts'[j] = starts[j]
    BY <1>10
  <2>8. (Frame(Next))' = Frame(j)'
    BY <2>1, <2>2 DEF Frame
  <2>9. reading' = "header" => taken' = (StartOf(Next))'
    BY <1>4, <2>3, <2>4, <2>5
  <2>10. reading' = "body" => /\ Next' <= Len(sent') /\ taken' = starts'[Next'] + 12
                              /\ header' = SubSeq((Frame(Next))', 1, 12)
    <3>1. Next' = j /\ (Frame(Next))' = Frame(j)'
      BY <2>1, <2>2, <2>8
    <3>2. reading' = "body" => /\ j <= n /\ taken' = starts[j] + 12
                               /\ header' = SubSeq(Frame(j), 1, 12)
      BY <1>4, <2>6
    <3>3. j <= n => j <= Len(sent')
      BY <1>10
    <3> QED BY <2>7, <3>1, <3>2, <3>3
  <2> QED BY <2>9, <2>10 DEF Position
<1>17. ReadAsSent'
  BY <1>1, <1>2, <1>4, <1>5 DEF ReadAsSent, FrameTypeOK
<1> QED BY <1>11, <1>13, <1>14, <1>15, <1>16, <1>17 DEF FrameInv

LEMMA BreakKeeps ==
  ASSUME FrameInv, ConnectionBreaks
  PROVE  FrameInv'
<1>1. FrameTypeOK /\ Contiguous /\ Laid /\ Reach /\ Position /\ ReadAsSent
  BY DEF FrameInv
<1>2. PICK n \in taken..Len(stream) : stream' = Piece(stream, 0, n)
  BY DEF ConnectionBreaks
<1>3. UNCHANGED <<sent, starts, taken, reading, header, received>> /\ up' = FALSE
  BY DEF ConnectionBreaks
<1>4. n \in Nat /\ n <= Len(stream) /\ Len(stream) \in Nat /\ stream \in Seq(Bytes)
  BY <1>1 DEF FrameTypeOK
<1>5. /\ stream' \in Seq(Bytes) /\ Len(stream') = n
      /\ \A k \in 1..n : stream'[k] = stream[k]
  <2>1. 0 + n <= Len(stream) /\ 0 \in Nat
    BY <1>4
  <2>2. /\ Piece(stream, 0, n) \in Seq(Bytes) /\ Len(Piece(stream, 0, n)) = n
        /\ \A k \in 1..n : Piece(stream, 0, n)[k] = stream[0 + k]
    BY <1>4, <2>1, PieceBytes
  <2>3. \A k \in 1..n : 0 + k = k
    OBVIOUS
  <2> QED BY <1>2, <2>2, <2>3
<1>6. FrameTypeOK'
  BY <1>1, <1>3, <1>5 DEF FrameTypeOK
<1>7. SentEnd' = SentEnd /\ \A i : Frame(i)' = Frame(i) /\ End(i)' = End(i)
  BY <1>3 DEF SentEnd, Frame, End
<1>8. Contiguous'
  BY <1>1, <1>3, <1>7 DEF Contiguous
<1>9. Laid'
  <2>1. ASSUME NEW i \in 1..Len(sent), NEW k \in 1..Len(Frame(i)), starts[i] + k <= n
        PROVE  stream'[starts[i] + k] = Frame(i)[k]
    <3>1. starts[i] \in Nat /\ Len(Frame(i)) \in Nat
      BY <1>1, FrameFacts
    <3>2. starts[i] + k \in 1..n /\ starts[i] + k <= Len(stream)
      BY <1>4, <2>1, <3>1
    <3> QED BY <1>1, <1>5, <3>2 DEF Laid
  <2> QED BY <1>3, <1>5, <1>7, <2>1 DEF Laid
<1>10. Reach'
  BY <1>1, <1>3, <1>4, <1>5, <1>7, SentEndNat DEF Reach
<1>11. Position'
  BY <1>1, <1>3, <1>7 DEF Position, StartOf, Next, SentEnd, Frame, End
<1>12. ReadAsSent'
  BY <1>1, <1>3 DEF ReadAsSent
<1> QED BY <1>6, <1>8, <1>9, <1>10, <1>11, <1>12 DEF FrameInv

\* What the actions of the reader leave alone.
LEMMA WritersUntouched ==
  ASSUME FrameInv, UNCHANGED <<sent, starts, stream, up>>
  PROVE  /\ Contiguous' /\ Laid' /\ Reach' /\ SentEnd' = SentEnd
         /\ \A i : Frame(i)' = Frame(i) /\ End(i)' = End(i) /\ StartOf(i)' = StartOf(i)
<1>1. SentEnd' = SentEnd /\ \A i : Frame(i)' = Frame(i) /\ End(i)' = End(i)
  BY DEF SentEnd, Frame, End
<1>2. \A i : StartOf(i)' = StartOf(i)
  BY <1>1 DEF StartOf
<1>3. Contiguous' /\ Laid' /\ Reach'
  BY <1>1 DEF FrameInv, Contiguous, Laid, Reach
<1> QED BY <1>1, <1>2, <1>3

\* A frame read from its start to its end.
LEMMA FrameDone ==
  ASSUME FrameInv, UNCHANGED <<sent, starts, stream, up>>, Next <= Len(sent),
         HandleFrame(Frame(Next)), taken' = End(Next)
  PROVE  FrameInv'
<1>1. FrameTypeOK /\ Contiguous /\ Position /\ ReadAsSent
  BY DEF FrameInv
<1>2. received \in Seq(Messages) /\ Len(received) \in Nat /\ Len(sent) \in Nat
  BY <1>1 DEF FrameTypeOK
<1>3. PICK j \in 1..Len(sent) : j = Next /\ j = Len(received) + 1
  BY <1>2 DEF Next
<1>4. sent[j] \in Messages /\ End(j) \in Nat
  BY <1>1, FrameFacts
<1>5. /\ received' = Append(received, sent[j])
      /\ reading' = "header" /\ header' = <<>>
  <2>1. ReadFrame(Frame(j)) = sent[j]
    BY <1>4, RoundTrip DEF Frame
  <2> QED BY <1>3, <2>1 DEF HandleFrame
<1>6. /\ received' \in Seq(Messages) /\ Len(received') = j
      /\ \A i \in 1..Len(received) : received'[i] = received[i]
      /\ received'[j] = sent[j]
  BY <1>2, <1>3, <1>4, <1>5, AppendProperties
<1>7. FrameTypeOK'
  BY <1>1, <1>3, <1>4, <1>5, <1>6 DEF FrameTypeOK
<1>8. ReadAsSent'
  <2>1. DOMAIN received' = 1..j /\ DOMAIN received = 1..(j - 1)
    BY <1>2, <1>3, <1>6
  <2>2. \A i \in 1..(j - 1) : received'[i] = sent[i]
    BY <1>1, <1>3, <1>6, <2>1 DEF ReadAsSent
  <2>3. \A i \in 1..j : received'[i] = sent[i]
    BY <1>6, <2>2
  <2> QED BY <1>2, <1>6, <2>1, <2>3 DEF ReadAsSent
<1>9. StartOf(j + 1) = End(j)
  <2>1. CASE j = Len(sent)
    <3>1. sent # <<>>
      BY <1>2, <2>1
    <3> QED BY <1>2, <2>1, <3>1 DEF StartOf, SentEnd
  <2>2. CASE j < Len(sent)
    <3>1. starts[j + 1] = End(j)
      BY <1>1, <1>2, <2>2 DEF Contiguous
    <3> QED BY <1>2, <2>2, <3>1 DEF StartOf
  <2> QED BY <1>2, <2>1, <2>2
<1>10. Position'
  <2>1. \A i : StartOf(i)' = StartOf(i)
    BY WritersUntouched
  <2>2. Next' = j + 1
    BY <1>6 DEF Next
  <2>3. (StartOf(Next))' = StartOf(j + 1)
    BY <2>1, <2>2 DEF StartOf
  <2>4. taken' = End(j)
    BY <1>3
  <2> QED BY <1>5, <1>9, <2>3, <2>4 DEF Position
<1> QED BY <1>7, <1>8, <1>10, WritersUntouched DEF FrameInv

LEMMA HeaderKeeps ==
  ASSUME FrameInv, start_read_header
  PROVE  FrameInv'
<1>1. FrameTypeOK /\ Laid /\ Reach /\ Position /\ ReadAsSent
  BY DEF FrameInv
<1>2. /\ reading = "header" /\ taken + 12 <= Len(stream) /\ taken' = taken + 12
      /\ UNCHANGED <<sent, starts, stream, up>>
  BY DEF start_read_header, Arrived, Take, HeaderSize
<1>3. /\ Len(stream) \in Nat /\ taken \in Nat /\ Len(sent) \in Nat
      /\ stream \in Seq(Bytes) /\ Len(received) \in Nat
  BY <1>1 DEF FrameTypeOK
<1>4. Next <= Len(sent) /\ Next \in 1..Len(sent)
  <2>1. ASSUME Next > Len(sent) PROVE FALSE
    <3>1. taken = SentEnd
      BY <1>1, <1>2, <1>3, <2>1 DEF Position, StartOf, Next
    <3>2. SentEnd \in Nat /\ Len(stream) <= SentEnd
      BY <1>1, SentEndNat DEF Reach
    <3> QED BY <1>2, <1>3, <3>1, <3>2
  <2> QED BY <1>3, <2>1 DEF Next
<1>5. PICK j \in 1..Len(sent) : j = Next
  BY <1>4
<1>6. taken = starts[j]
  BY <1>1, <1>2, <1>4, <1>5 DEF Position, StartOf
<1>7. /\ sent[j] \in Messages /\ starts[j] \in Nat /\ Frame(j) \in Seq(Bytes)
      /\ FrameSize(sent[j]) \in Nat /\ Len(Frame(j)) = 12 + FrameSize(sent[j])
  BY <1>1, FrameFacts
<1>8. Piece(stream, taken, 12) = SubSeq(Frame(j), 1, 12)
  <2>1. \A k \in 1..Len(Frame(j)) :
          starts[j] + k <= Len(stream) => stream[starts[j] + k] = Frame(j)[k]
    BY <1>1 DEF Laid
  <2>2. 12 \in Nat /\ 12 <= Len(Frame(j)) /\ starts[j] + 12 <= Len(stream)
    BY <1>2, <1>6, <1>7
  <2> QED BY <1>3, <1>6, <1>7, <2>1, <2>2, PieceIsCut
<1>9. read_u64(SubSeq(Frame(j), 1, 12), 4) = FrameSize(sent[j])
  <2>1. 12 \in 12..Len(serialize(sent[j]))
    BY <1>7 DEF Frame
  <2> QED BY <1>7, <2>1, CutReads DEF Frame
<1>10. CASE FrameSize(sent[j]) = 0
  <2>1. SubSeq(Frame(j), 1, 12) = Frame(j)
    BY <1>7, <1>10, SubSeqFull
  <2>2. HandleFrame(Frame(j))
    BY <1>8, <1>9, <1>10, <2>1 DEF start_read_header, HeaderSize
  <2>3. taken' = End(j)
    BY <1>2, <1>6, <1>7, <1>10 DEF End
  <2> QED BY <1>2, <1>4, <1>5, <2>2, <2>3, FrameDone
<1>11. CASE FrameSize(sent[j]) # 0
  <2>1. /\ reading' = "body" /\ header' = SubSeq(Frame(j), 1, 12)
        /\ received' = received
    BY <1>8, <1>9, <1>11 DEF start_read_header, HeaderSize
  <2>2. header' \in Seq(Bytes)
    <3>1. 12 \in 0..Len(Frame(j))
      BY <1>7
    <3>2. Starts(Frame(j), SubSeq(Frame(j), 1, 12))
      BY <1>7, <3>1, CutStarts
    <3> QED BY <2>1, <3>2 DEF Starts
  <2>3. FrameTypeOK'
    BY <1>1, <1>2, <1>3, <2>1, <2>2 DEF FrameTypeOK
  <2>4. Position'
    <3>1. Next' = j /\ (Frame(Next))' = Frame(j)
      BY <1>2, <1>5, <2>1 DEF Next, Frame
    <3>2. j <= Len(sent') /\ starts' = starts
      BY <1>2
    <3> QED BY <1>2, <1>6, <2>1, <3>1, <3>2 DEF Position
  <2>5. ReadAsSent'
    BY <1>1, <1>2, <2>1 DEF ReadAsSent
  <2> QED BY <1>2, <2>3, <2>4, <2>5, WritersUntouched DEF FrameInv
<1> QED BY <1>10, <1>11

LEMMA BodyKeeps ==
  ASSUME FrameInv, start_read_body
  PROVE  FrameInv'
<1> DEFINE length == read_u64(header, 4)
<1>1. FrameTypeOK /\ Laid /\ Position
  BY DEF FrameInv
<1>2. /\ reading = "body" /\ taken + length <= Len(stream) /\ taken' = taken + length
      /\ HandleFrame(header \o Piece(stream, taken, length))
      /\ UNCHANGED <<sent, starts, stream, up>>
  BY DEF start_read_body, Arrived, Take
<1>3. Next \in 1..Len(sent) /\ Next <= Len(sent)
  BY <1>1, <1>2 DEF Position, Next, FrameTypeOK
<1>4. PICK j \in 1..Len(sent) : j = Next
  BY <1>3
<1>5. taken = starts[j] + 12 /\ header = SubSeq(Frame(j), 1, 12)
  BY <1>1, <1>2, <1>4 DEF Position
<1>6. /\ sent[j] \in Messages /\ starts[j] \in Nat /\ Frame(j) \in Seq(Bytes)
      /\ FrameSize(sent[j]) \in Nat /\ Len(Frame(j)) = 12 + FrameSize(sent[j])
  BY <1>1, FrameFacts
<1>7. length = FrameSize(sent[j])
  <2>1. 12 \in 12..Len(serialize(sent[j]))
    BY <1>6 DEF Frame
  <2> QED BY <1>5, <1>6, <2>1, CutReads DEF Frame
<1> HIDE DEF length
<1>8. header \o Piece(stream, taken, length) = Frame(j)
  <2>1. \A k \in 1..Len(Frame(j)) :
          starts[j] + k <= Len(stream) => stream[starts[j] + k] = Frame(j)[k]
    BY <1>1 DEF Laid
  <2>2. /\ stream \in Seq(Bytes) /\ length \in Nat /\ Len(Frame(j)) = 12 + length
        /\ starts[j] + 12 + length <= Len(stream)
    BY <1>1, <1>2, <1>5, <1>6, <1>7 DEF FrameTypeOK
  <2> QED BY <1>5, <1>6, <2>1, <2>2, HeaderAndBody
<1>9. taken' = End(j)
  <2>1. taken' = taken + length /\ taken = starts[j] + 12
    BY <1>2, <1>5
  <2>2. taken' = starts[j] + Len(Frame(j))
    BY <1>6, <1>7, <2>1
  <2> QED BY <2>2 DEF End
<1> QED BY <1>2, <1>3, <1>4, <1>8, <1>9, FrameDone

LEMMA FailKeeps ==
  ASSUME FrameInv, ReadFails
  PROVE  FrameInv'
<1>1. /\ UNCHANGED <<sent, starts, stream, up, taken, received>>
      /\ reading' = "ended" /\ header' = <<>>
  BY DEF ReadFails
<1>2. FrameTypeOK' /\ Position' /\ ReadAsSent'
  BY <1>1 DEF FrameInv, FrameTypeOK, Position, ReadAsSent
<1> QED BY <1>1, <1>2, WritersUntouched DEF FrameInv

LEMMA FramesInvariant == FrameSpec => []FrameInv
<1>1. FrameInv /\ [FrameNext]_fvars => FrameInv'
  <2> SUFFICES ASSUME FrameInv, [FrameNext]_fvars PROVE FrameInv'
    OBVIOUS
  <2>1. CASE \E m \in Messages : WriteFrame(m)
    BY <2>1, WriteKeeps
  <2>2. CASE ConnectionBreaks
    BY <2>2, BreakKeeps
  <2>3. CASE start_read_header
    BY <2>3, HeaderKeeps
  <2>4. CASE start_read_body
    BY <2>4, BodyKeeps
  <2>5. CASE ReadFails
    BY <2>5, FailKeeps
  <2>6. CASE UNCHANGED fvars
    BY <2>6 DEF fvars, FrameInv, FrameTypeOK, Contiguous, Laid, Reach, Position, ReadAsSent,
                SentEnd, StartOf, Next, Frame, End
  <2> QED BY <2>1, <2>2, <2>3, <2>4, <2>5, <2>6 DEF FrameNext
<1> QED BY Initially, <1>1, PTL DEF FrameSpec

-----------------------------------------------------------------------------
(* The theorems.                                                           *)

\* The receiver reads the messages that were sent, one by one and in their order, whatever
\* their number, classes and sizes, and wherever the connection breaks.
THEOREM MessagesReadAsSent == FrameSpec => []ReadAsSent
<1>1. FrameInv => ReadAsSent
  BY DEF FrameInv
<1> QED BY <1>1, FramesInvariant, PTL

\* The receiver never loses the boundaries of frames.
THEOREM ReaderStaysInStep == FrameSpec => []InStep
<1>1. ASSUME FrameInv PROVE InStep
  <2>1. FrameTypeOK /\ Position
    BY <1>1 DEF FrameInv
  <2>2. Len(sent) \in Nat /\ Len(received) \in Nat
    BY <2>1 DEF FrameTypeOK
  <2>3. reading = "header" => taken = StartOf(Next)
    BY <2>1 DEF Position
  <2>4. ASSUME reading = "body"
        PROVE  /\ Next <= Len(sent)
               /\ taken + read_u64(header, 4) = starts[Next] + Len(Frame(Next))
    <3>1. /\ Next \in 1..Len(sent) /\ taken = starts[Next] + 12
          /\ header = SubSeq(Frame(Next), 1, 12)
      BY <2>1, <2>2, <2>4 DEF Position, Next
    <3>2. PICK j \in 1..Len(sent) : j = Next
      BY <3>1
    <3>3. /\ sent[j] \in Messages /\ starts[j] \in Nat
          /\ FrameSize(sent[j]) \in Nat /\ Len(Frame(j)) = 12 + FrameSize(sent[j])
      BY <2>1, FrameFacts
    <3>4. 12 \in 12..Len(serialize(sent[j]))
      BY <3>3 DEF Frame
    <3>5. read_u64(header, 4) = FrameSize(sent[j])
      BY <3>1, <3>2, <3>3, <3>4, CutReads DEF Frame
    <3>6. taken + read_u64(header, 4) = starts[j] + Len(Frame(j))
      <4>1. taken = starts[j] + 12
        BY <3>1, <3>2
      <4> QED BY <3>3, <3>5, <4>1
    <3> QED BY <2>2, <3>1, <3>2, <3>6
  <2> QED BY <2>3, <2>4 DEF InStep, StartOf, SentEnd, End, Frame, Next
<1> QED BY <1>1, FramesInvariant, PTL

-----------------------------------------------------------------------------
(* Frames that say other lengths than their own.                           *)

\* What a frame of m with other lengths is read as.
Obeyed(m, data) ==
  LET got == deserialize(m.kind, data) IN
    \/ got = Refused
    \/ EndNamed(m.kind, data) >= Limit
    \/ /\ EndNamed(m.kind, data) <= Len(data)
       /\ got.kind = m.kind
       /\ Len(Content(got)) = Len(Content(m)) - (Len(data) - EndNamed(m.kind, data))
       /\ Content(got) = SubSeq(Content(m), 1, Len(Content(got)))

LEMMA TextObeyed ==
  ASSUME NEW m \in TextMessages, NEW size \in Nat, size < Limit
  PROVE  Obeyed(m, Header("Text", size) \o m.text)
<1> DEFINE h == Header("Text", size)
           data == h \o m.text
           got == deserialize(m.kind, data)
<1>1. m.kind = "Text" /\ m.text \in Seq(Bytes) /\ Len(m.text) \in Nat
  BY TextLayout DEF TextMessages
<1>2. h \in Seq(Bytes) /\ Len(h) = 12
  BY HeaderLayout DEF TextTypes
<1> HIDE DEF h
<1>3. Starts(data, h) /\ Len(data) = 12 + Len(m.text)
  <2>1. Starts(h \o m.text, h) /\ Len(h \o m.text) = Len(h) + Len(m.text)
    BY <1>1, <1>2, ConcatStarts
  <2> QED BY <1>2, <2>1
<1>4. read_u64(data, 4) = size
  <2>1. "Text" \in DOMAIN TextTypes
    BY DEF TextTypes
  <2> HIDE DEF data
  <2> QED BY <1>3, <2>1, HeaderReads DEF h
<1>5. EndNamed(m.kind, data) = 12 + size /\ got = DeserializeText(data)
  BY <1>1, <1>4 DEF EndNamed, deserialize
<1>6. CASE 12 + size >= Limit
  BY <1>5, <1>6 DEF Obeyed, h
<1>7. CASE 12 + size < Limit /\ 12 + size > Len(data)
  <2>1. (12 + size) % Limit = 12 + size
    BY <1>7, Remainder
  <2> HIDE DEF data
  <2>2. DeserializeText(data) = Refused
    BY <1>4, <1>7, <2>1 DEF DeserializeText, HeaderSize
  <2> QED BY <1>5, <2>2 DEF Obeyed, data, h
<1>8. CASE 12 + size < Limit /\ 12 + size <= Len(data)
  <2>1. (12 + size) % Limit = 12 + size /\ size \in 0..Len(m.text)
    BY <1>1, <1>3, <1>8, Remainder
  <2>2. Piece(data, 12, size) = SubSeq(m.text, 1, size)
    BY <1>1, <1>2, <2>1, PieceBehind
  <2>3. Len(SubSeq(m.text, 1, size)) = size
    BY <1>1, <2>1, CutStarts
  <2>4. DeserializeText(data) = [kind |-> "Text", text |-> Piece(data, 12, size)]
    <3>1. ~(Len(data) < 12) /\ ~(Len(data) < 12 + size)
      BY <1>1, <1>3, <1>8
    <3> HIDE DEF data
    <3> QED BY <1>4, <2>1, <3>1 DEF DeserializeText, HeaderSize
  <2> HIDE DEF data
  <2>5. got.kind = "Text" /\ Content(got) = SubSeq(m.text, 1, size) /\ Content(m) = m.text
    <3>1. got = [kind |-> "Text", text |-> SubSeq(m.text, 1, size)]
      BY <1>5, <2>2, <2>4
    <3> HIDE DEF got
    <3> QED BY <1>1, <3>1 DEF Content
  <2>6. Len(Content(got)) = size
    BY <2>3, <2>5
  <2>7. size = Len(m.text) - (Len(data) - (12 + size))
    BY <1>1, <1>3
  <2> HIDE DEF got
  <2>8. /\ EndNamed(m.kind, data) <= Len(data)
        /\ got.kind = m.kind
        /\ Len(Content(got)) = Len(Content(m)) - (Len(data) - EndNamed(m.kind, data))
        /\ Content(got) = SubSeq(Content(m), 1, Len(Content(got)))
    BY <1>1, <1>5, <1>8, <2>5, <2>6, <2>7
  <2> QED BY <2>8 DEF Obeyed, got, data, h
<1> QED BY <1>1, <1>3, <1>6, <1>7, <1>8, Sizes

LEMMA FileObeyed ==
  ASSUME NEW m \in FileMessages, NEW size \in Nat, size < Limit,
         NEW first \in Nat, first < Limit, NEW second \in Nat, second < Limit
  PROVE  Obeyed(m, append_u64(append_u64(Header("File", size), first), second) \o m.name \o m.bytes)
<1> DEFINE h == Header("File", size)
           n == append_u64(h, first)
           g == append_u64(n, second)
           body == m.name \o m.bytes
           data == g \o body
           got == deserialize(m.kind, data)
           end == 28 + first + second
<1>1. /\ m.kind = "File" /\ m.name \in Seq(Bytes) /\ m.bytes \in Seq(Bytes)
      /\ body \in Seq(Bytes) /\ Len(body) \in Nat
  <2>1. m.kind = "File" /\ m.name \in Seq(Bytes) /\ m.bytes \in Seq(Bytes)
    BY CodecAssumption DEF FileMessages
  <2>2. m.name \o m.bytes \in Seq(Bytes)
    BY <2>1, ConcatProperties
  <2>3. Len(m.name \o m.bytes) \in Nat
    BY ONLY <2>2, LenProperties
  <2> QED BY <2>1, <2>2, <2>3
<1>2. h \in Seq(Bytes) /\ Len(h) = 12
  BY HeaderLayout DEF TextTypes
<1> HIDE DEF h
<1>3. Starts(n, h) /\ Len(n) = 20 /\ n \in Seq(Bytes) /\ read_u64(n, 12) = first
  <2>1. Starts(n, h) /\ Len(n) = Len(h) + 8 /\ read_u64(n, Len(h)) = first
    BY <1>2, Append64
  <2> HIDE DEF n
  <2> QED BY <1>2, <2>1 DEF Starts
<1> HIDE DEF n
<1>4. Starts(g, n) /\ Len(g) = 28 /\ g \in Seq(Bytes) /\ read_u64(g, 20) = second
  <2>1. Starts(g, n) /\ Len(g) = Len(n) + 8 /\ read_u64(g, Len(n)) = second
    BY <1>3, Append64
  <2> HIDE DEF g
  <2> QED BY <1>3, <2>1 DEF Starts
<1> HIDE DEF g, body
<1>5. Starts(data, g) /\ Len(data) = 28 + Len(body)
  <2>1. Starts(g \o body, g) /\ Len(g \o body) = Len(g) + Len(body)
    BY <1>1, <1>4, ConcatStarts
  <2> QED BY <1>4, <2>1
<1>6. read_u64(data, 4) = size /\ read_u64(data, 12) = first /\ read_u64(data, 20) = second
  <2> HIDE DEF data
  <2>1. Starts(data, n)
    BY <1>4, <1>5, StartsTransitive
  <2>2. Starts(data, h)
    BY <1>3, <2>1, StartsTransitive
  <2>3. "File" \in DOMAIN TextTypes
    BY DEF TextTypes
  <2>4. read_u64(data, 4) = size
    BY <2>2, <2>3, HeaderReads DEF h
  <2>5. /\ \A o \in 0..(Len(n) - 8) : read_u64(data, o) = read_u64(n, o)
        /\ \A o \in 0..(Len(g) - 8) : read_u64(data, o) = read_u64(g, o)
    BY <1>5, <2>1, StartsReads
  <2>6. 12 \in 0..(Len(n) - 8) /\ 20 \in 0..(Len(g) - 8)
    BY <1>3, <1>4
  <2> QED BY <1>3, <1>4, <2>4, <2>5, <2>6
<1>7. EndNamed(m.kind, data) = end /\ got = DeserializeFile(data)
  BY <1>1, <1>6 DEF EndNamed, deserialize
<1>8. ASSUME end >= Limit PROVE Obeyed(m, data)
  <2> HIDE DEF data, end
  <2> QED BY <1>7, <1>8 DEF Obeyed
<1>9. ASSUME end < Limit, end > Len(data) PROVE Obeyed(m, data)
  <2>1. end % Limit = end /\ 12 + 16 + first + second = end
    BY <1>9, Remainder
  <2> HIDE DEF data
  <2>2. ~FileFits(data, size, first, second)
    <3>1. (12 + 16 + first + second) % Limit = end
      BY <2>1
    <3> QED BY <1>9, <1>5, <1>1, <3>1 DEF FileFits, HeaderSize
  <2>3. DeserializeFile(data) = Refused
    BY <1>6, <2>2 DEF DeserializeFile
  <2>4. deserialize(m.kind, data) = Refused
    BY <1>7, <2>3
  <2> QED BY <2>4 DEF Obeyed
<1>10. ASSUME end < Limit, end <= Len(data) PROVE Obeyed(m, data)
  <2>1. first + second <= Len(body)
    BY <1>1, <1>5, <1>10
  <2>2. /\ Piece(data, 28, first) = SubSeq(body, 1, first)
        /\ Piece(data, 28 + first, second) = SubSeq(body, first + 1, first + second)
        /\ SubSeq(body, 1, first) \o SubSeq(body, first + 1, first + second)
             = SubSeq(body, 1, first + second)
        /\ Len(SubSeq(body, 1, first + second)) = first + second
    <3>1. /\ Piece(g \o body, Len(g), first) = SubSeq(body, 1, first)
          /\ Piece(g \o body, Len(g) + first, second) = SubSeq(body, first + 1, first + second)
          /\ SubSeq(body, 1, first) \o SubSeq(body, first + 1, first + second)
               = SubSeq(body, 1, first + second)
          /\ Len(SubSeq(body, 1, first + second)) = first + second
      <4> DEFINE Split(s, t, a, b) ==
                   /\ Piece(s \o t, Len(s), a) = SubSeq(t, 1, a)
                   /\ Piece(s \o t, Len(s) + a, b) = SubSeq(t, a + 1, a + b)
                   /\ SubSeq(t, 1, a) \o SubSeq(t, a + 1, a + b) = SubSeq(t, 1, a + b)
                   /\ Len(SubSeq(t, 1, a + b)) = a + b
      <4>1. \A s, t \in Seq(Bytes) : \A a, b \in Nat : a + b <= Len(t) => Split(s, t, a, b)
        BY TwoPieces
      <4> HIDE DEF Split
      <4>2. g \in Seq(Bytes) /\ body \in Seq(Bytes)
        BY <1>1, <1>4
      <4>3. Split(g, body, first, second)
        BY ONLY <2>1, <4>1, <4>2, first \in Nat, second \in Nat
      <4> QED BY <4>3 DEF Split
    <3> QED BY <1>4, <3>1
  <2> DEFINE whole == [kind |-> "File", name |-> Piece(data, 28, first),
                       bytes |-> Piece(data, 28 + first, second)]
  <2>3. ~(Len(data) < 12 + 16) /\ ~(Len(data) < 12 + 16 + first + second)
    BY <1>1, <1>5, <1>10
  <2> HIDE DEF data
  <2>4. DeserializeFile(data) = Refused \/ DeserializeFile(data) = whole
    BY <1>6, <2>3 DEF DeserializeFile, HeaderSize
  <2>5. ASSUME got = whole PROVE Obeyed(m, data)
    <3>1. got.kind = "File" /\ Content(got) = SubSeq(body, 1, first + second) /\ Content(m) = body
      <4>1. Content(got) = whole.name \o whole.bytes /\ got.kind = "File"
        <5> HIDE DEF got
        <5> QED BY <2>5 DEF Content
      <4>2. Content(m) = body
        BY <1>1 DEF Content, body
      <4> QED BY <2>2, <4>1, <4>2
    <3>2. Len(Content(got)) = first + second
      BY <2>2, <3>1
    <3>3. first + second = Len(body) - (Len(data) - end)
      BY <1>1, <1>5
    <3> HIDE DEF got, whole
    <3>4. /\ EndNamed(m.kind, data) <= Len(data)
          /\ got.kind = m.kind
          /\ Len(Content(got)) = Len(Content(m)) - (Len(data) - EndNamed(m.kind, data))
          /\ Content(got) = SubSeq(Content(m), 1, Len(Content(got)))
      BY <1>1, <1>7, <1>10, <3>1, <3>2, <3>3
    <3> QED BY <3>4 DEF Obeyed, got
  <2>6. ASSUME got = Refused PROVE Obeyed(m, data)
    BY <2>6 DEF Obeyed
  <2> QED BY <1>7, <2>4, <2>5, <2>6
<1>11. Obeyed(m, data)
  <2>1. end \in Nat /\ Len(data) \in Nat /\ Limit \in Nat
    BY <1>1, <1>5, Sizes
  <2> HIDE DEF end, data
  <2>2. end >= Limit \/ (end < Limit /\ end > Len(data)) \/ (end < Limit /\ end <= Len(data))
    BY <2>1
  <2> QED BY <1>8, <1>9, <1>10, <2>2
<1>12. g \o m.name \o m.bytes = data
  <2> DEFINE a == m.name
             b == m.bytes
  <2> HIDE DEF a, b
  <2>1. (g \o a) \o b = g \o (a \o b)
    <3>1. a \in Seq(Bytes) /\ b \in Seq(Bytes)
      BY <1>1 DEF a, b
    <3>2. \A s, t, u \in Seq(Bytes) : (s \o t) \o u = s \o (t \o u)
      BY ConcatAssociative
    <3> QED BY ONLY <1>4, <3>1, <3>2, Zenon
  <2> QED BY <2>1 DEF body, a, b
<1> QED BY <1>11, <1>12 DEF g, n, h

LEMMA HistoryObeyed ==
  ASSUME NEW m \in HistoryRequests, NEW size \in Nat, size < Limit
  PROVE  Obeyed(m, append_u32(Header("SendHistory", size), m.port))
<1> DEFINE h == Header("SendHistory", size)
           data == append_u32(h, m.port)
           got == deserialize(m.kind, data)
<1>1. /\ m.kind = "SendHistory" /\ m.port \in Nat /\ m.port < Half
      /\ m = [kind |-> "SendHistory", port |-> m.port]
  <2>1. m.kind = "SendHistory" /\ m.port \in Ports /\ m = [kind |-> "SendHistory", port |-> m.port]
    BY DEF HistoryRequests
  <2>2. m.port \in 0..(Half - 1)
    BY <2>1, CodecAssumption
  <2> QED BY <2>1, <2>2, Sizes
<1>2. h \in Seq(Bytes) /\ Len(h) = 12
  BY HeaderLayout DEF TextTypes
<1> HIDE DEF h
<1>3. m.port < Word
  <2>1. Half * Half > Half * 1
    BY Sizes
  <2> QED BY <1>1, <2>1, Sizes
<1>4. Len(data) = 16 /\ read_u32(data, 12) = m.port
  <2>1. Len(data) = Len(h) + 4 /\ read_u32(data, Len(h)) = m.port
    BY <1>1, <1>2, <1>3, Append32
  <2> HIDE DEF data
  <2> QED BY <1>2, <2>1
<1> HIDE DEF data
<1>5. m.port % Half = m.port
  BY <1>1, Sizes
<1>6. got = Refused \/ got = m
  BY <1>1, <1>4, <1>5 DEF deserialize, DeserializeHistory, HeaderSize
<1>7. EndNamed(m.kind, data) = 16 /\ Content(m) = <<m.port>>
  BY <1>1 DEF EndNamed, Content
<1> HIDE DEF got
<1>8. ASSUME got = m PROVE Obeyed(m, data)
  <2> DEFINE p == <<m.port>>
  <2>1. p \in Seq(Nat) /\ Len(p) = 1 /\ \A i \in 1..1 : p[i] \in Nat
    BY <1>1
  <2> HIDE DEF p
  <2>2. SubSeq(p, 1, 1) = p
    <3>1. /\ SubSeq(p, 1, 1) \in Seq(Nat)
          /\ Len(SubSeq(p, 1, 1)) = IF 1 <= 1 THEN 1 - 1 + 1 ELSE 0
          /\ \A i \in 1..1 - 1 + 1 : SubSeq(p, 1, 1)[i] = p[1 + i - 1]
      BY ONLY <2>1, SubSeqProperties, 1 \in Int
    <3>2. \A i \in 1..1 : SubSeq(p, 1, 1)[i] = p[i]
      BY <3>1
    <3> QED BY <2>1, <3>1, <3>2, SeqEqual
  <2>3. Content(m) = p /\ 1 = 1 - (16 - 16)
    BY <1>7 DEF p
  <2>4. /\ EndNamed(m.kind, data) <= Len(data)
        /\ got.kind = m.kind
        /\ Content(got) = SubSeq(Content(m), 1, Len(Content(got)))
    <3>1. EndNamed(m.kind, data) <= Len(data)
      BY <1>4, <1>7
    <3>2. Content(got) = p /\ Len(Content(got)) = 1
      BY <1>8, <2>1, <2>3
    <3> QED BY <1>8, <2>2, <2>3, <3>1, <3>2
  <2>5. Len(Content(got)) = Len(Content(m)) - (Len(data) - EndNamed(m.kind, data))
    BY <1>4, <1>7, <1>8, <2>1, <2>3
  <2> QED BY <2>4, <2>5 DEF Obeyed, got
<1>9. ASSUME got = Refused PROVE Obeyed(m, data)
  BY <1>9 DEF Obeyed, got
<1> QED BY <1>6, <1>8, <1>9 DEF data, h

LEMMA RelabelledObeyed ==
  ASSUME NEW m \in Messages, NEW data \in Relabelled(m)
  PROVE  Obeyed(m, data)
<1>1. \A size \in Lengths : size \in Nat /\ size < Limit
  BY FramesAssumption, Sizes
<1>2. CASE m \in TextMessages
  <2>1. m.kind = "Text"
    BY <1>2 DEF TextMessages
  <2>2. PICK size \in Lengths : data = Header("Text", size) \o m.text
    BY <2>1 DEF Relabelled
  <2> QED BY <1>1, <1>2, <2>2, TextObeyed
<1>3. CASE m \in FileMessages
  <2>1. m.kind = "File"
    BY <1>3 DEF FileMessages
  <2>2. PICK size \in Lengths, first \in Lengths, second \in Lengths :
          data = append_u64(append_u64(Header("File", size), first), second) \o m.name \o m.bytes
    <3> DEFINE Labelled(size, first, second) ==
                 append_u64(append_u64(Header("File", size), first), second) \o m.name \o m.bytes
    <3>1. Relabelled(m) = {Labelled(size, first, second) : size, first, second \in Lengths}
      BY <2>1 DEF Relabelled
    <3> HIDE DEF Labelled
    <3>2. PICK size \in Lengths, first \in Lengths, second \in Lengths :
            data = Labelled(size, first, second)
      BY <3>1
    <3> QED BY <3>2 DEF Labelled
  <2> QED BY <1>1, <1>3, <2>2, FileObeyed
<1>4. CASE m \in HistoryRequests
  <2>1. m.kind = "SendHistory"
    BY <1>4 DEF HistoryRequests
  <2>2. PICK size \in Lengths : data = append_u32(Header("SendHistory", size), m.port)
    BY <2>1 DEF Relabelled
  <2> QED BY <1>1, <1>4, <2>2, HistoryObeyed
<1> QED BY <1>2, <1>3, <1>4 DEF Messages

\* Whatever was sent: a frame that was cut is refused, and one that says other lengths is
\* refused or read as far as they say, unless their sum wraps.
THEOREM LengthsAreObeyed == FrameSpec => []LengthsObeyed
<1>1. ASSUME FrameInv PROVE LengthsObeyed
  <2>1. ASSUME NEW i \in 1..Len(sent), NEW data \in Cuts(sent[i])
        PROVE  deserialize(sent[i].kind, data) = Refused
    <3>1. sent[i] \in Messages
      BY <1>1 DEF FrameInv, FrameTypeOK
    <3>2. PICK n \in 0..(Len(serialize(sent[i])) - 1) : data = Piece(serialize(sent[i]), 0, n)
      BY DEF Cuts
    <3>3. data = SubSeq(serialize(sent[i]), 1, n)
      <4>1. 0 + 1 = 1 /\ 0 + n = n
        OBVIOUS
      <4> QED BY <3>2, <4>1 DEF Piece
    <3> QED BY <3>1, <3>3, CutsRefused
  <2>2. ASSUME NEW i \in 1..Len(sent), NEW data \in Relabelled(sent[i])
        PROVE  Obeyed(sent[i], data)
    <3>1. sent[i] \in Messages
      BY <1>1 DEF FrameInv, FrameTypeOK
    <3> QED BY <3>1, RelabelledObeyed
  <2>3. DOMAIN sent = 1..Len(sent)
    BY <1>1 DEF FrameInv, FrameTypeOK
  <2> QED BY <2>1, <2>2, <2>3 DEF LengthsObeyed, Obeyed
<1> QED BY <1>1, FramesInvariant, PTL

-----------------------------------------------------------------------------
(* The refinement of MessageChannel.                                       *)

\* A reader's step hands at most one frame to the callback; the invariant says which.
LEMMA ReaderStep ==
  ASSUME FrameInv, FrameInv', start_read_header \/ start_read_body
  PROVE  Channel!Deliver \/ UNCHANGED Channel!chvars
<1>1. /\ UNCHANGED <<sent, up>>
      /\ received' = received \/ \E m : received' = Append(received, m)
  BY DEF start_read_header, start_read_body, HandleFrame
<1>2. CASE received' = received
  BY <1>1, <1>2 DEF Channel!chvars
<1>3. ASSUME NEW m, received' = Append(received, m)
      PROVE  Channel!Deliver
  <2>1. PICK n \in Nat : n = Len(received)
    BY DEF FrameInv, FrameTypeOK
  <2>2. Len(received') = n + 1 /\ received'[n + 1] = m /\ n + 1 \in DOMAIN received'
    <3>1. received \in Seq(Messages)
      BY DEF FrameInv, FrameTypeOK
    <3> QED BY <1>3, <2>1, <3>1
  <2>3. n + 1 <= Len(sent) /\ m = sent[n + 1]
    BY <1>1, <2>2 DEF FrameInv, ReadAsSent
  <2>4. Len(received) < Len(sent)
    BY <2>1, <2>3 DEF FrameInv, FrameTypeOK
  <2> QED BY <1>1, <1>3, <2>1, <2>3, <2>4 DEF Channel!Deliver
<1> QED BY <1>1, <1>2, <1>3

LEMMA ChannelStep ==
  ASSUME FrameInv, FrameInv', [FrameNext]_fvars
  PROVE  [Channel!Post \/ Channel!Deliver \/ Channel!Break]_(Channel!chvars)
<1>1. ASSUME NEW m \in Messages, WriteFrame(m) PROVE Channel!Post
  BY <1>1 DEF WriteFrame, Channel!Post
<1>2. CASE ConnectionBreaks
  BY <1>2 DEF ConnectionBreaks, Channel!Break
<1>3. CASE start_read_header \/ start_read_body
  BY <1>3, ReaderStep
<1>4. CASE ReadFails \/ UNCHANGED fvars
  BY <1>4 DEF ReadFails, fvars, Channel!chvars
<1> QED BY <1>1, <1>2, <1>3, <1>4 DEF FrameNext

\* The bytes of a connection, cut into frames by their headers, are a channel of messages:
\* whole, once each and in order, for any messages and wherever the connection breaks.
THEOREM FramesImplementChannel == FrameSpec => FramesAreChannel
<1>1. FrameInit => Channel!Start
  BY DEF FrameInit, Channel!Start
<1>2. FrameInv /\ FrameInv' /\ [FrameNext]_fvars
      => [Channel!Post \/ Channel!Deliver \/ Channel!Break]_(Channel!chvars)
  BY ChannelStep
<1>3. FrameSpec => Channel!Spec
  BY <1>1, <1>2, FramesInvariant, PTL DEF FrameSpec, Channel!Spec
<1> QED BY <1>3 DEF FramesAreChannel
=============================================================================
