---------------------------- MODULE CodecProofs ----------------------------
(* What Codec.tla states of frames, for every number of values a byte may  *)
(* have and every set of messages whose frames fit the integers.           *)
EXTENDS Codec, SequenceTheorems, TLAPS

-----------------------------------------------------------------------------
(* Integers.                                                               *)

LEMMA Division ==
  ASSUME NEW v \in Nat, NEW b \in Nat, b > 0
  PROVE  /\ v \div b \in Nat /\ v % b \in Nat /\ v % b < b
         /\ (v \div b) * b + (v % b) = v
<1>1. v \div b \in Nat OBVIOUS
<1>2. v % b \in Nat /\ v % b < b OBVIOUS
<1>3. b * (v \div b) + (v % b) = v OBVIOUS
<1>4. b * (v \div b) = (v \div b) * b BY <1>1
<1> QED BY <1>1, <1>2, <1>3, <1>4

\* The quotient of a number below a product is below the other factor.
LEMMA QuotientBound ==
  ASSUME NEW v \in Nat, NEW b \in Nat, b > 0, NEW c \in Nat, v < c * b
  PROVE  v \div b < c
  OBVIOUS

LEMMA Sizes ==
  /\ Byte \in Nat /\ Byte > 1
  /\ Half \in Nat /\ Half > 3 /\ Half = Byte * Byte
  /\ Word \in Nat /\ Word > 15 /\ Word = Half * Half
  /\ Limit \in Nat /\ Limit > Word /\ Limit = Word * Word
  BY CodecAssumption DEF Half, Word, Limit

-----------------------------------------------------------------------------
(* A buffer that starts with another: what follows does not change what is *)
(* read of the beginning.                                                  *)

Starts(long, short) ==
  /\ long \in Seq(Bytes) /\ short \in Seq(Bytes)
  /\ Len(short) <= Len(long)
  /\ \A i \in 1..Len(short) : long[i] = short[i]

LEMMA StartsTransitive ==
  ASSUME NEW a, NEW b, NEW c, Starts(a, b), Starts(b, c)
  PROVE  Starts(a, c)
  BY DEF Starts

LEMMA ConcatStarts ==
  ASSUME NEW s \in Seq(Bytes), NEW t \in Seq(Bytes)
  PROVE  /\ Starts(s \o t, s) /\ Len(s \o t) = Len(s) + Len(t)
         /\ \A i \in 1..Len(t) : (s \o t)[Len(s) + i] = t[i]
  BY ConcatProperties DEF Starts

LEMMA StartsReads ==
  ASSUME NEW long, NEW short, Starts(long, short)
  PROVE  /\ \A o \in 0..(Len(short) - 4) : read_u32(long, o) = read_u32(short, o)
         /\ \A o \in 0..(Len(short) - 8) : read_u64(long, o) = read_u64(short, o)
<1>1. ASSUME NEW o \in Nat, o + 2 <= Len(short)
      PROVE  read_u16(long, o) = read_u16(short, o)
  BY <1>1 DEF Starts, read_u16
<1>2. ASSUME NEW o \in Nat, o + 4 <= Len(short)
      PROVE  read_u32(long, o) = read_u32(short, o)
  BY <1>1, <1>2 DEF read_u32, Starts
<1>3. ASSUME NEW o \in Nat, o + 8 <= Len(short)
      PROVE  read_u64(long, o) = read_u64(short, o)
  BY <1>2, <1>3 DEF read_u64, Starts
<1>4. Len(short) \in Nat
  BY DEF Starts
<1> QED BY <1>2, <1>3, <1>4

\* The first n bytes of a buffer.
LEMMA CutStarts ==
  ASSUME NEW s \in Seq(Bytes), NEW n \in 0..Len(s)
  PROVE  Starts(s, SubSeq(s, 1, n)) /\ Len(SubSeq(s, 1, n)) = n
<1>1. \A i \in 1..n : s[i] \in Bytes
  BY ElementOfSeq
<1>2. /\ SubSeq(s, 1, n) \in Seq(Bytes)
      /\ Len(SubSeq(s, 1, n)) = IF 1 <= n THEN n - 1 + 1 ELSE 0
      /\ \A i \in 1 .. n - 1 + 1 : SubSeq(s, 1, n)[i] = s[1 + i - 1]
  BY <1>1, SubSeqProperties, 1 \in Int, n \in Int
<1> QED BY <1>2 DEF Starts

-----------------------------------------------------------------------------
(* What is appended is read back.                                          *)

LEMMA Bytes16 ==
  ASSUME NEW v \in Nat, v < Half
  PROVE  /\ bytes16(v) \in Seq(Bytes) /\ Len(bytes16(v)) = 2
         /\ bytes16(v)[1] * Byte + bytes16(v)[2] = v
<1>1. v \div Byte \in Nat /\ v % Byte \in Nat /\ v % Byte < Byte
      /\ (v \div Byte) * Byte + (v % Byte) = v
  BY Sizes, Division
<1>2. v \div Byte < Byte
  BY Sizes, QuotientBound
<1>3. v \div Byte \in Bytes /\ v % Byte \in Bytes
  BY <1>1, <1>2, Sizes DEF Bytes
<1>4. <<v \div Byte, v % Byte>> \in Seq(Bytes)
  BY <1>3
<1> QED BY <1>1, <1>4 DEF bytes16

LEMMA Append32 ==
  ASSUME NEW buffer \in Seq(Bytes), NEW v \in Nat, v < Word
  PROVE  /\ Starts(append_u32(buffer, v), buffer)
         /\ Len(append_u32(buffer, v)) = Len(buffer) + 4
         /\ read_u32(append_u32(buffer, v), Len(buffer)) = v
<1> DEFINE high == v \div Half
           low == v % Half
           h == bytes16(high)
           l == bytes16(low)
           first == buffer \o h
           longer == first \o l
<1>1. high \in Nat /\ low \in Nat /\ low < Half /\ high * Half + low = v
  BY Sizes, Division
<1>2. high < Half
  BY Sizes, QuotientBound
<1> HIDE DEF high, low
<1>3. /\ h \in Seq(Bytes) /\ Len(h) = 2 /\ h[1] * Byte + h[2] = high
      /\ l \in Seq(Bytes) /\ Len(l) = 2 /\ l[1] * Byte + l[2] = low
  BY <1>1, <1>2, Bytes16
<1>4. append_u32(buffer, v) = longer
  BY DEF append_u32, high, low
<1> HIDE DEF h, l
<1>5. /\ Starts(first, buffer) /\ Len(first) = Len(buffer) + Len(h)
      /\ \A i \in 1..Len(h) : first[Len(buffer) + i] = h[i]
  BY <1>3, ConcatStarts
<1>6. first \in Seq(Bytes)
  BY <1>5 DEF Starts
<1> HIDE DEF first
<1>7. /\ Starts(longer, first) /\ Len(longer) = Len(first) + Len(l)
      /\ \A i \in 1..Len(l) : longer[Len(first) + i] = l[i]
  BY <1>3, <1>6, ConcatStarts
<1> HIDE DEF longer
<1>8. Len(longer) = Len(buffer) + 4 /\ Starts(longer, buffer)
  BY <1>3, <1>5, <1>7, StartsTransitive
<1>9. read_u16(longer, Len(buffer)) = high
  <2>1. first[Len(buffer) + 1] = h[1] /\ first[Len(buffer) + 2] = h[2]
    BY <1>3, <1>5
  <2>2. Len(buffer) + 1 \in 1..Len(first) /\ Len(buffer) + 2 \in 1..Len(first)
    BY <1>3, <1>5
  <2>3. longer[Len(buffer) + 1] = h[1] /\ longer[Len(buffer) + 2] = h[2]
    BY <1>7, <2>1, <2>2 DEF Starts
  <2> QED BY <1>3, <2>3 DEF read_u16
<1>10. read_u16(longer, Len(buffer) + 2) = low
  <2>1. longer[Len(first) + 1] = l[1] /\ longer[Len(first) + 2] = l[2]
    BY <1>3, <1>7
  <2>2. Len(first) = Len(buffer) + 2
    BY <1>3, <1>5
  <2> QED BY <1>3, <2>1, <2>2 DEF read_u16
<1>11. read_u32(longer, Len(buffer)) = v
  BY <1>1, <1>9, <1>10 DEF read_u32
<1> QED BY <1>4, <1>8, <1>11

LEMMA Append64 ==
  ASSUME NEW buffer \in Seq(Bytes), NEW v \in Nat, v < Limit
  PROVE  /\ Starts(append_u64(buffer, v), buffer)
         /\ Len(append_u64(buffer, v)) = Len(buffer) + 8
         /\ read_u64(append_u64(buffer, v), Len(buffer)) = v
<1> DEFINE high == v \div Word
           low == v % Word
           first == append_u32(buffer, high)
           longer == append_u32(first, low)
<1>1. high \in Nat /\ low \in Nat /\ low < Word /\ high * Word + low = v
  BY Sizes, Division
<1>2. high < Word
  BY Sizes, QuotientBound
<1> HIDE DEF high, low
<1>3. /\ Starts(first, buffer) /\ Len(first) = Len(buffer) + 4
      /\ read_u32(first, Len(buffer)) = high
  BY <1>1, <1>2, Append32
<1>4. first \in Seq(Bytes) /\ Len(buffer) \in Nat
  BY <1>3 DEF Starts
<1>5. /\ Starts(longer, first) /\ Len(longer) = Len(first) + 4
      /\ read_u32(longer, Len(first)) = low
  <2> HIDE DEF first
  <2> QED BY <1>1, <1>4, Append32
<1>6. read_u32(longer, Len(buffer)) = high
  <2> HIDE DEF first, longer
  <2> QED BY <1>3, <1>4, <1>5, StartsReads
<1>7. append_u64(buffer, v) = longer
  BY DEF append_u64, high, low
<1> HIDE DEF first, longer
<1>8. Starts(longer, buffer) /\ Len(longer) = Len(buffer) + 8
  BY <1>3, <1>4, <1>5, StartsTransitive
<1>9. read_u64(longer, Len(buffer)) = high * Word + low
  BY <1>3, <1>5, <1>6 DEF read_u64
<1> QED BY <1>1, <1>7, <1>8, <1>9

LEMMA PieceRead ==
  ASSUME NEW s \in Seq(Bytes), NEW t \in Seq(Bytes), NEW long, Starts(long, s \o t)
  PROVE  Piece(long, Len(s), Len(t)) = t
<1> DEFINE p == SubSeq(long, Len(s) + 1, Len(s) + Len(t))
<1>1. /\ Len(s) \in Nat /\ Len(t) \in Nat
      /\ long \in Seq(Bytes) /\ Len(s) + Len(t) <= Len(long)
      /\ \A i \in 1..Len(t) : long[Len(s) + i] = t[i]
  <2>1. Len(s \o t) = Len(s) + Len(t) /\ \A i \in 1..Len(t) : (s \o t)[Len(s) + i] = t[i]
    BY ConcatStarts
  <2>2. Len(s) \in Nat /\ Len(t) \in Nat
    OBVIOUS
  <2>3. \A i \in 1..Len(t) : Len(s) + i \in 1..(Len(s) + Len(t))
    BY <2>2
  <2>4. /\ long \in Seq(Bytes) /\ Len(s) + Len(t) <= Len(long)
        /\ \A i \in 1..(Len(s) + Len(t)) : long[i] = (s \o t)[i]
    BY <2>1 DEF Starts
  <2> QED BY <2>1, <2>2, <2>3, <2>4
<1>2. \A i \in Len(s) + 1 .. Len(s) + Len(t) : long[i] \in Bytes
  BY <1>1, ElementOfSeq
<1>3. /\ p \in Seq(Bytes)
      /\ Len(p) = IF Len(s) + 1 <= Len(s) + Len(t) THEN Len(s) + Len(t) - (Len(s) + 1) + 1 ELSE 0
      /\ \A i \in 1 .. Len(s) + Len(t) - (Len(s) + 1) + 1 : p[i] = long[Len(s) + 1 + i - 1]
  <2>1. Len(s) + 1 \in Int /\ Len(s) + Len(t) \in Int
    BY <1>1
  <2> QED BY ONLY <1>2, <2>1, SubSeqProperties
<1> HIDE DEF p
<1>4. Len(p) = Len(t) /\ \A i \in 1..Len(t) : p[i] = t[i]
  BY <1>1, <1>3
<1>5. p = t
  BY <1>3, <1>4, SeqEqual
<1> QED BY <1>5 DEF Piece, p

\* The beginning of a sequence that stands behind another one.
LEMMA PieceBehind ==
  ASSUME NEW s \in Seq(Bytes), NEW t \in Seq(Bytes), NEW n \in 0..Len(t)
  PROVE  /\ Starts(s \o t, s \o SubSeq(t, 1, n))
         /\ Piece(s \o t, Len(s), n) = SubSeq(t, 1, n)
<1> DEFINE u == SubSeq(t, 1, n)
<1>1. Starts(t, u) /\ Len(u) = n /\ u \in Seq(Bytes)
  BY CutStarts DEF Starts
<1> HIDE DEF u
<1>2. /\ s \o t \in Seq(Bytes) /\ Len(s \o t) = Len(s) + Len(t)
      /\ s \o u \in Seq(Bytes) /\ Len(s \o u) = Len(s) + n
      /\ \A i \in 1..(Len(s) + Len(t)) : (s \o t)[i] = IF i <= Len(s) THEN s[i] ELSE t[i - Len(s)]
      /\ \A i \in 1..(Len(s) + n) : (s \o u)[i] = IF i <= Len(s) THEN s[i] ELSE u[i - Len(s)]
  BY <1>1, ConcatProperties
<1>3. \A i \in 1..n : t[i] = u[i]
  BY <1>1 DEF Starts
<1>4. ASSUME NEW i \in 1..(Len(s) + n) PROVE (s \o t)[i] = (s \o u)[i]
  <2>1. i \in 1..(Len(s) + Len(t)) /\ (i > Len(s) => i - Len(s) \in 1..n)
    OBVIOUS
  <2> QED BY <1>2, <1>3, <2>1
<1>5. Starts(s \o t, s \o u)
  BY <1>2, <1>4 DEF Starts
<1>6. Piece(s \o t, Len(s), Len(u)) = u
  BY <1>1, <1>5, PieceRead
<1> QED BY <1>1, <1>5, <1>6 DEF u

\* Two pieces of it, one behind the other.
LEMMA TwoPieces ==
  ASSUME NEW s \in Seq(Bytes), NEW t \in Seq(Bytes), NEW a \in Nat, NEW b \in Nat, a + b <= Len(t)
  PROVE  /\ Piece(s \o t, Len(s), a) = SubSeq(t, 1, a)
         /\ Piece(s \o t, Len(s) + a, b) = SubSeq(t, a + 1, a + b)
         /\ SubSeq(t, 1, a) \o SubSeq(t, a + 1, a + b) = SubSeq(t, 1, a + b)
         /\ Len(SubSeq(t, 1, a + b)) = a + b
<1> DEFINE u == SubSeq(t, 1, a)
           v == SubSeq(t, a + 1, a + b)
           w == SubSeq(t, 1, a + b)
<1>1. a \in 0..Len(t) /\ a + b \in 0..Len(t)
  OBVIOUS
<1>2. Starts(t, u) /\ Len(u) = a /\ u \in Seq(Bytes)
  BY <1>1, CutStarts DEF Starts
<1>3. Starts(t, w) /\ Len(w) = a + b /\ w \in Seq(Bytes)
  BY <1>1, CutStarts DEF Starts
<1>4. v \in Seq(Bytes) /\ Len(v) = b /\ \A i \in 1..b : v[i] = t[a + i]
  <2>1. \A i \in a + 1 .. a + b : t[i] \in Bytes
    BY ElementOfSeq
  <2>2. a + 1 \in Int /\ a + b \in Int
    OBVIOUS
  <2>3. /\ v \in Seq(Bytes)
        /\ Len(v) = IF a + 1 <= a + b THEN a + b - (a + 1) + 1 ELSE 0
        /\ \A i \in 1 .. a + b - (a + 1) + 1 : v[i] = t[a + 1 + i - 1]
    BY ONLY <2>1, <2>2, SubSeqProperties
  <2> HIDE DEF v
  <2> QED BY <2>3
<1> HIDE DEF u, v, w
<1>5. /\ u \o v \in Seq(Bytes) /\ Len(u \o v) = a + b
      /\ \A i \in 1..(a + b) : (u \o v)[i] = IF i <= a THEN u[i] ELSE v[i - a]
  BY <1>2, <1>4, ConcatProperties
<1>6. u \o v = w
  <2>1. ASSUME NEW i \in 1..(a + b) PROVE (u \o v)[i] = w[i]
    <3>1. w[i] = t[i]
      BY <1>3 DEF Starts
    <3>2. CASE i <= a
      BY <1>2, <1>5, <3>1, <3>2 DEF Starts
    <3>3. CASE i > a
      <4>1. i - a \in 1..b /\ a + (i - a) = i
        BY <3>3
      <4> QED BY <1>4, <1>5, <3>1, <3>3, <4>1
    <3>4. i <= a \/ i > a
      OBVIOUS
    <3> QED BY <3>2, <3>3, <3>4
  <2> QED BY <1>3, <1>5, <2>1, SeqEqual
<1>7. Piece(s \o t, Len(s), a) = u
  BY <1>1, PieceBehind DEF u
<1>8. Piece(s \o t, Len(s) + a, b) = v
  <2>1. s \o u \in Seq(Bytes) /\ Len(s \o u) = Len(s) + a
    BY <1>2, ConcatProperties
  <2>2. (s \o u) \o v = s \o w
    <3>1. (s \o u) \o v = s \o (u \o v)
      BY <1>2, <1>4, ConcatAssociative
    <3> QED BY <1>6, <3>1
  <2>3. Starts(s \o t, s \o w)
    BY <1>1, PieceBehind DEF w
  <2>4. Piece(s \o t, Len(s \o u), Len(v)) = v
    BY <1>4, <2>1, <2>2, <2>3, PieceRead
  <2> QED BY <1>4, <2>1, <2>4
<1> QED BY <1>3, <1>6, <1>7, <1>8 DEF u, v, w

-----------------------------------------------------------------------------
(* The layout of frames.                                                   *)

LEMMA HeaderLayout ==
  ASSUME NEW kind \in DOMAIN TextTypes, NEW size \in Nat, size < Limit
  PROVE  LET h == Header(kind, size) IN
           /\ h \in Seq(Bytes) /\ Len(h) = 12
           /\ read_u32(h, 0) = TextTypes[kind] /\ read_u64(h, 4) = size
<1> DEFINE id == append_u32(<<>>, TextTypes[kind])
           h == append_u64(id, size)
<1>1. <<>> \in Seq(Bytes) /\ Len(<<>>) = 0
  OBVIOUS
<1>2. TextTypes[kind] \in Nat /\ TextTypes[kind] < Word
  BY Sizes DEF TextTypes
<1>3. /\ Starts(id, <<>>) /\ Len(id) = Len(<<>>) + 4
      /\ read_u32(id, Len(<<>>)) = TextTypes[kind]
  BY <1>1, <1>2, Append32
<1>4. id \in Seq(Bytes) /\ Len(id) = 4 /\ read_u32(id, 0) = TextTypes[kind]
  BY <1>1, <1>3 DEF Starts
<1> HIDE DEF id
<1>5. Starts(h, id) /\ Len(h) = Len(id) + 8 /\ read_u64(h, Len(id)) = size
  BY <1>4, Append64
<1> HIDE DEF h
<1>6. read_u32(h, 0) = TextTypes[kind]
  <2>1. \A o \in 0..(Len(id) - 4) : read_u32(h, o) = read_u32(id, o)
    BY <1>5, StartsReads
  <2>2. 0 \in 0..(Len(id) - 4)
    BY <1>4
  <2> QED BY <1>4, <2>1, <2>2
<1>7. h \in Seq(Bytes)
  BY <1>5 DEF Starts
<1>8. Header(kind, size) = h
  BY DEF Header, h, id
<1> QED BY <1>4, <1>5, <1>6, <1>7, <1>8

\* What a buffer that starts with a header says of the frame.
LEMMA HeaderReads ==
  ASSUME NEW kind \in DOMAIN TextTypes, NEW size \in Nat, size < Limit,
         NEW data, Starts(data, Header(kind, size))
  PROVE  read_u32(data, 0) = TextTypes[kind] /\ read_u64(data, 4) = size
<1> DEFINE h == Header(kind, size)
<1>1. /\ h \in Seq(Bytes) /\ Len(h) = 12
      /\ read_u32(h, 0) = TextTypes[kind] /\ read_u64(h, 4) = size
  BY HeaderLayout
<1> HIDE DEF h
<1>2. Starts(data, h)
  BY DEF h
<1>3. /\ \A o \in 0..(Len(h) - 4) : read_u32(data, o) = read_u32(h, o)
      /\ \A o \in 0..(Len(h) - 8) : read_u64(data, o) = read_u64(h, o)
  BY <1>2, StartsReads
<1>4. 0 \in 0..(Len(h) - 4) /\ 4 \in 0..(Len(h) - 8)
  BY <1>1
<1> QED BY <1>1, <1>3, <1>4

LEMMA TextLayout ==
  ASSUME NEW m \in TextMessages
  PROVE  /\ m.text \in Seq(Bytes) /\ Len(m.text) \in Nat /\ 12 + Len(m.text) < Limit
         /\ m = [kind |-> "Text", text |-> m.text]
         /\ serialize(m) = SerializeText(m)
         /\ Starts(SerializeText(m), Header("Text", Len(m.text)))
         /\ Len(SerializeText(m)) = 12 + Len(m.text)
         /\ Piece(SerializeText(m), 12, Len(m.text)) = m.text
<1> DEFINE h == Header("Text", Len(m.text))
<1>1. m.kind = "Text" /\ m.text \in Texts /\ m = [kind |-> "Text", text |-> m.text]
  BY DEF TextMessages
<1>2. m.text \in Seq(Bytes) /\ Len(m.text) \in Nat /\ 12 + Len(m.text) < Limit
  BY <1>1, CodecAssumption
<1>3. h \in Seq(Bytes) /\ Len(h) = 12
  BY <1>2, Sizes, HeaderLayout DEF TextTypes
<1> HIDE DEF h
<1>4. ASSUME NEW t \in Seq(Bytes)
      PROVE  /\ Starts(h \o t, h) /\ Len(h \o t) = 12 + Len(t)
             /\ Piece(h \o t, 12, Len(t)) = t
  <2>1. Starts(h \o t, h) /\ Len(h \o t) = Len(h) + Len(t)
    BY <1>3, ConcatStarts
  <2>2. Starts(h \o t, h \o t)
    BY <1>3, <2>1 DEF Starts
  <2>3. Piece(h \o t, Len(h), Len(t)) = t
    BY <1>3, <2>2, PieceRead
  <2> QED BY <1>3, <2>1, <2>3
<1>7. SerializeText(m) = h \o m.text
  BY DEF SerializeText, h
<1>8. serialize(m) = SerializeText(m)
  BY <1>1 DEF serialize
<1> QED BY <1>1, <1>2, <1>4, <1>7, <1>8 DEF h

LEMMA HistoryLayout ==
  ASSUME NEW m \in HistoryRequests
  PROVE  /\ m = [kind |-> "SendHistory", port |-> m.port]
         /\ serialize(m) = SerializeHistory(m)
         /\ Starts(SerializeHistory(m), Header("SendHistory", 4))
         /\ Len(SerializeHistory(m)) = 16
         /\ read_u32(SerializeHistory(m), 12) % Half = m.port
<1> DEFINE h == Header("SendHistory", 4)
           f == append_u32(h, m.port)
<1>1. /\ m.kind = "SendHistory" /\ m.port \in Ports
      /\ m = [kind |-> "SendHistory", port |-> m.port]
  BY DEF HistoryRequests
<1>2. m.port \in Nat /\ m.port < Half /\ m.port < Word
  <2>1. m.port \in 0..(Half - 1)
    BY <1>1, CodecAssumption
  <2>2. Half < Word
    <3>1. Half * Half > Half * 1
      BY Sizes
    <3> QED BY <3>1, Sizes
  <2> QED BY <2>1, <2>2, Sizes
<1>3. h \in Seq(Bytes) /\ Len(h) = 12
  <2>1. "SendHistory" \in DOMAIN TextTypes
    BY DEF TextTypes
  <2>2. 4 \in Nat /\ 4 < Limit
    BY Sizes
  <2> QED BY <2>1, <2>2, HeaderLayout
<1> HIDE DEF h
<1>4. Starts(f, h) /\ Len(f) = Len(h) + 4 /\ read_u32(f, Len(h)) = m.port
  BY <1>2, <1>3, Append32
<1>5. m.port % Half = m.port
  BY <1>2, Sizes
<1>6. SerializeHistory(m) = f
  BY DEF SerializeHistory, h, f
<1> HIDE DEF f
<1>7. serialize(m) = SerializeHistory(m)
  BY <1>1 DEF serialize
<1>8. Len(f) = 16 /\ read_u32(f, 12) % Half = m.port /\ Starts(f, Header("SendHistory", 4))
  <2>1. Len(f) = 16 /\ read_u32(f, 12) = m.port
    BY <1>3, <1>4
  <2>2. Starts(f, Header("SendHistory", 4))
    BY <1>4 DEF h
  <2> QED BY <1>5, <2>1, <2>2
<1> QED BY <1>1, <1>6, <1>7, <1>8

LEMMA FileLayout ==
  ASSUME NEW m \in FileMessages
  PROVE  /\ m = [kind |-> "File", name |-> m.name, bytes |-> m.bytes]
         /\ Len(m.name) \in Nat /\ Len(m.bytes) \in Nat
         /\ 28 + Len(m.name) + Len(m.bytes) < Limit
         /\ serialize(m) = SerializeFile(m)
         /\ Starts(SerializeFile(m), Header("File", FilePayloadSize(m)))
         /\ Len(SerializeFile(m)) = 28 + Len(m.name) + Len(m.bytes)
         /\ \A data : Starts(SerializeFile(m), data) /\ Len(data) >= 28
                        => /\ read_u64(data, 4) = FilePayloadSize(m)
                           /\ read_u64(data, 12) = Len(m.name)
                           /\ read_u64(data, 20) = Len(m.bytes)
         /\ Piece(SerializeFile(m), 28, Len(m.name)) = m.name
         /\ Piece(SerializeFile(m), 28 + Len(m.name), Len(m.bytes)) = m.bytes
<1> DEFINE size == FilePayloadSize(m)
           h == Header("File", size)
           n == append_u64(h, Len(m.name))
           g == append_u64(n, Len(m.bytes))
           gn == g \o m.name
           f == gn \o m.bytes
<1>1. /\ m.kind = "File" /\ m.name \in Names /\ m.bytes \in Contents
      /\ m = [kind |-> "File", name |-> m.name, bytes |-> m.bytes]
  BY DEF FileMessages
<1>2. /\ m.name \in Seq(Bytes) /\ m.bytes \in Seq(Bytes)
      /\ Len(m.name) \in Nat /\ Len(m.bytes) \in Nat
      /\ 28 + Len(m.name) + Len(m.bytes) < Limit
  BY <1>1, CodecAssumption
<1>3. /\ size \in Nat /\ size = 16 + Len(m.name) + Len(m.bytes)
      /\ size < Limit /\ Len(m.name) < Limit /\ Len(m.bytes) < Limit
  <2>1. size = 8 + 8 + Len(m.name) + Len(m.bytes)
    BY DEF FilePayloadSize
  <2> HIDE DEF size
  <2>2. Len(m.name) \in Nat /\ Len(m.bytes) \in Nat
    BY <1>2
  <2> DEFINE a == Len(m.name)
             b == Len(m.bytes)
  <2>3. a \in Nat /\ b \in Nat /\ 28 + a + b < Limit /\ size = 8 + 8 + a + b
    BY <1>2, <2>1
  <2> HIDE DEF a, b
  <2>4. size \in Nat /\ size = 16 + a + b /\ size < Limit /\ a < Limit /\ b < Limit
    BY <2>3, Sizes
  <2> QED BY <2>4 DEF a, b
<1> HIDE DEF size
<1>4. h \in Seq(Bytes) /\ Len(h) = 12 /\ read_u64(h, 4) = size
  <2>1. "File" \in DOMAIN TextTypes
    BY DEF TextTypes
  <2> QED BY <1>3, <2>1, HeaderLayout
<1> HIDE DEF h
<1>5. Starts(n, h) /\ Len(n) = 20 /\ read_u64(n, 12) = Len(m.name) /\ n \in Seq(Bytes)
  <2>1. Starts(n, h) /\ Len(n) = Len(h) + 8 /\ read_u64(n, Len(h)) = Len(m.name)
    BY <1>2, <1>3, <1>4, Append64
  <2> HIDE DEF n
  <2> QED BY <1>4, <2>1 DEF Starts
<1> HIDE DEF n
<1>6. Starts(g, n) /\ Len(g) = 28 /\ read_u64(g, 20) = Len(m.bytes) /\ g \in Seq(Bytes)
  <2>1. Starts(g, n) /\ Len(g) = Len(n) + 8 /\ read_u64(g, Len(n)) = Len(m.bytes)
    BY <1>2, <1>3, <1>5, Append64
  <2> HIDE DEF g
  <2> QED BY <1>5, <2>1 DEF Starts
<1> HIDE DEF g
<1>7. Starts(gn, g) /\ Len(gn) = 28 + Len(m.name) /\ gn \in Seq(Bytes)
  <2>1. Starts(gn, g) /\ Len(gn) = Len(g) + Len(m.name)
    BY <1>2, <1>6, ConcatStarts
  <2> HIDE DEF gn
  <2> QED BY <1>2, <1>6, <2>1 DEF Starts
<1>8. Starts(f, gn) /\ Len(f) = 28 + Len(m.name) + Len(m.bytes) /\ Starts(f, f)
  <2> HIDE DEF gn
  <2>1. Starts(f, gn) /\ Len(f) = Len(gn) + Len(m.bytes)
    BY <1>2, <1>7, ConcatStarts
  <2> HIDE DEF f
  <2>2. Len(f) = 28 + Len(m.name) + Len(m.bytes)
    BY <1>2, <1>7, <2>1
  <2>3. f \in Seq(Bytes)
    BY <2>1 DEF Starts
  <2>4. Starts(f, f)
    BY <2>3 DEF Starts
  <2> QED BY <2>1, <2>2, <2>4
<1>9. Starts(f, n) /\ Starts(f, h) /\ Starts(f, g)
  <2> HIDE DEF f, gn
  <2> QED BY <1>5, <1>6, <1>7, <1>8, StartsTransitive
<1>10. read_u64(g, 4) = size /\ read_u64(g, 12) = Len(m.name)
  <2>1. Starts(g, h)
    BY <1>5, <1>6, StartsTransitive
  <2>2. /\ \A o \in 0..(Len(h) - 8) : read_u64(g, o) = read_u64(h, o)
        /\ \A o \in 0..(Len(n) - 8) : read_u64(g, o) = read_u64(n, o)
    BY <1>6, <2>1, StartsReads
  <2>3. 4 \in 0..(Len(h) - 8) /\ 12 \in 0..(Len(n) - 8)
    BY <1>4, <1>5
  <2> QED BY <1>4, <1>5, <2>2, <2>3
<1>11. ASSUME NEW data, Starts(f, data), Len(data) >= 28
       PROVE  /\ read_u64(data, 4) = size
              /\ read_u64(data, 12) = Len(m.name)
              /\ read_u64(data, 20) = Len(m.bytes)
  <2> HIDE DEF f
  <2>1. Starts(data, g)
    <3>1. /\ f \in Seq(Bytes) /\ data \in Seq(Bytes) /\ Len(data) <= Len(f)
          /\ \A i \in 1..Len(data) : f[i] = data[i]
      BY <1>11 DEF Starts
    <3>2. \A i \in 1..Len(g) : f[i] = g[i]
      BY <1>9 DEF Starts
    <3>3. Len(data) \in Nat /\ Len(g) = 28 /\ Len(g) <= Len(data)
      BY <1>6, <1>11, <3>1
    <3>4. \A i \in 1..Len(g) : i \in 1..Len(data)
      BY <3>3
    <3>5. \A i \in 1..Len(g) : data[i] = g[i]
      BY <3>1, <3>2, <3>4
    <3> QED BY <1>6, <3>1, <3>3, <3>5 DEF Starts
  <2>2. \A o \in 0..(Len(g) - 8) : read_u64(data, o) = read_u64(g, o)
    BY <2>1, StartsReads
  <2>3. 4 \in 0..(Len(g) - 8) /\ 12 \in 0..(Len(g) - 8) /\ 20 \in 0..(Len(g) - 8)
    BY <1>6
  <2> QED BY <1>6, <1>10, <2>2, <2>3
<1>12. Piece(f, 28, Len(m.name)) = m.name
  BY <1>2, <1>6, <1>8, PieceRead
<1>13. Piece(f, 28 + Len(m.name), Len(m.bytes)) = m.bytes
  <2> HIDE DEF gn
  <2> QED BY <1>2, <1>7, <1>8, PieceRead
<1>14. SerializeFile(m) = f
  BY DEF SerializeFile, f, gn, g, n, h, size
<1>15. serialize(m) = SerializeFile(m)
  BY <1>1 DEF serialize
<1> HIDE DEF f
<1> QED BY <1>1, <1>2, <1>8, <1>9, <1>11, <1>12, <1>13, <1>14, <1>15 DEF h, size

-----------------------------------------------------------------------------
(* What every frame is.                                                    *)

LEMMA Remainder ==
  ASSUME NEW n \in Nat, n < Limit
  PROVE  n % Limit = n
  BY Sizes

FrameSize(m) == Len(serialize(m)) - 12

LEMMA FrameLayout ==
  ASSUME NEW m \in Messages
  PROVE  /\ m.kind \in DOMAIN TextTypes
         /\ FrameSize(m) \in Nat /\ 12 + FrameSize(m) < Limit
         /\ serialize(m) \in Seq(Bytes) /\ Len(serialize(m)) = 12 + FrameSize(m)
         /\ Starts(serialize(m), Header(m.kind, FrameSize(m)))
<1>1. CASE m \in TextMessages
  <2> DEFINE n == Len(m.text)
             f == SerializeText(m)
  <2>1. /\ n \in Nat /\ 12 + n < Limit /\ serialize(m) = f
        /\ Starts(f, Header("Text", n)) /\ Len(f) = 12 + n
    BY <1>1, TextLayout
  <2>2. m.kind = "Text"
    BY <1>1 DEF TextMessages
  <2> HIDE DEF n, f
  <2>3. f \in Seq(Bytes)
    BY <2>1 DEF Starts
  <2>4. FrameSize(m) = n
    BY <2>1 DEF FrameSize
  <2> QED BY <2>1, <2>2, <2>3, <2>4 DEF TextTypes
<1>2. CASE m \in FileMessages
  <2> DEFINE n == FilePayloadSize(m)
             a == Len(m.name)
             b == Len(m.bytes)
             f == SerializeFile(m)
  <2>1. /\ a \in Nat /\ b \in Nat /\ 28 + a + b < Limit /\ serialize(m) = f
        /\ Starts(f, Header("File", n)) /\ Len(f) = 28 + a + b
    BY <1>2, FileLayout
  <2>2. m.kind = "File"
    BY <1>2 DEF FileMessages
  <2>3. n = 8 + 8 + a + b
    BY DEF FilePayloadSize
  <2> HIDE DEF n, f, a, b
  <2>4. f \in Seq(Bytes)
    BY <2>1 DEF Starts
  <2>5. n = 16 + a + b /\ FrameSize(m) = n
    BY <2>1, <2>3 DEF FrameSize
  <2>6. n \in Nat /\ 12 + n < Limit /\ Len(f) = 12 + n
    BY <2>1, <2>5
  <2> QED BY <2>1, <2>2, <2>4, <2>5, <2>6 DEF TextTypes
<1>3. CASE m \in HistoryRequests
  <2> DEFINE f == SerializeHistory(m)
  <2>1. serialize(m) = f /\ Starts(f, Header("SendHistory", 4)) /\ Len(f) = 16
    BY <1>3, HistoryLayout
  <2>2. m.kind = "SendHistory"
    BY <1>3 DEF HistoryRequests
  <2> HIDE DEF f
  <2>3. f \in Seq(Bytes)
    BY <2>1 DEF Starts
  <2>4. FrameSize(m) = 4 /\ 16 < Limit
    <3>1. 16 < Limit
      <4>1. Word * Word > 15 * Word
        BY Sizes
      <4> QED BY <4>1, Sizes
    <3> QED BY <2>1, <3>1 DEF FrameSize
  <2> QED BY <2>1, <2>2, <2>3, <2>4 DEF TextTypes
<1> QED BY <1>1, <1>2, <1>3 DEF Messages

LEMMA FrameReads ==
  ASSUME NEW m \in Messages, NEW data, Starts(data, serialize(m))
  PROVE  read_u32(data, 0) = TextTypes[m.kind] /\ read_u64(data, 4) = FrameSize(m)
<1>1. Starts(data, Header(m.kind, FrameSize(m)))
  BY FrameLayout, StartsTransitive
<1>2. FrameSize(m) \in Nat /\ FrameSize(m) < Limit /\ m.kind \in DOMAIN TextTypes
  BY FrameLayout, Sizes
<1> QED BY <1>1, <1>2, HeaderReads

\* The first bytes of a frame say of it what the whole frame does.
LEMMA CutReads ==
  ASSUME NEW m \in Messages, NEW n \in 12..Len(serialize(m))
  PROVE  LET data == SubSeq(serialize(m), 1, n) IN
           read_u32(data, 0) = TextTypes[m.kind] /\ read_u64(data, 4) = FrameSize(m)
<1> DEFINE f == serialize(m)
           h == Header(m.kind, FrameSize(m))
           data == SubSeq(f, 1, n)
<1>1. f \in Seq(Bytes) /\ Starts(f, h) /\ m.kind \in DOMAIN TextTypes
  BY FrameLayout
<1>2. FrameSize(m) \in Nat /\ FrameSize(m) < Limit
  BY FrameLayout, Sizes
<1>3. h \in Seq(Bytes) /\ Len(h) = 12
  BY <1>1, <1>2, HeaderLayout
<1>4. n \in 0..Len(f) /\ n >= 12
  BY <1>1
<1> HIDE DEF f
<1>5. Starts(f, data) /\ Len(data) = n
  BY <1>1, <1>4, CutStarts
<1> HIDE DEF data, h
<1>6. Starts(data, h)
  <2>1. /\ data \in Seq(Bytes)
        /\ \A i \in 1..Len(data) : f[i] = data[i]
    BY <1>5 DEF Starts
  <2>2. \A i \in 1..Len(h) : f[i] = h[i] /\ i \in 1..Len(data)
    BY <1>1, <1>3, <1>4, <1>5 DEF Starts
  <2>3. \A i \in 1..Len(h) : data[i] = h[i]
    BY <2>1, <2>2
  <2> QED BY <1>3, <1>4, <1>5, <2>1, <2>3 DEF Starts
<1>7. Starts(data, Header(m.kind, FrameSize(m)))
  BY <1>6 DEF h
<1>8. read_u32(data, 0) = TextTypes[m.kind] /\ read_u64(data, 4) = FrameSize(m)
  BY <1>1, <1>2, <1>7, HeaderReads
<1> QED BY <1>8 DEF data, f

-----------------------------------------------------------------------------
(* What is read of a whole frame.                                          *)

LEMMA WholeText ==
  ASSUME NEW m \in TextMessages
  PROVE  DeserializeText(serialize(m)) = m
<1> DEFINE f == serialize(m)
           n == Len(m.text)
<1>1. /\ n \in Nat /\ 12 + n < Limit /\ m = [kind |-> "Text", text |-> m.text]
      /\ Len(f) = 12 + n /\ Piece(f, 12, n) = m.text
  BY TextLayout
<1>2. read_u64(f, 4) = n
  <2>1. m \in Messages
    BY DEF Messages
  <2>2. f \in Seq(Bytes)
    BY <2>1, FrameLayout
  <2>3. Starts(f, f)
    BY <2>2 DEF Starts
  <2>4. read_u64(f, 4) = FrameSize(m)
    BY <2>1, <2>3, FrameReads
  <2> QED BY <1>1, <2>4 DEF FrameSize
<1>3. (12 + n) % Limit = 12 + n
  BY <1>1, Remainder
<1> HIDE DEF f, n
<1>4. ~(Len(f) < 12) /\ ~(Len(f) < 12 + n)
  BY <1>1
<1>5. DeserializeText(f) = [kind |-> "Text", text |-> Piece(f, 12, n)]
  BY <1>2, <1>3, <1>4 DEF DeserializeText, HeaderSize
<1>6. DeserializeText(f) = m
  BY <1>1, <1>5
<1> QED BY <1>6 DEF f

LEMMA WholeFile ==
  ASSUME NEW m \in FileMessages
  PROVE  DeserializeFile(serialize(m)) = m
<1> DEFINE f == serialize(m)
           a == Len(m.name)
           b == Len(m.bytes)
           size == FilePayloadSize(m)
<1>1. /\ a \in Nat /\ b \in Nat /\ 28 + a + b < Limit
      /\ m = [kind |-> "File", name |-> m.name, bytes |-> m.bytes]
      /\ Len(f) = 28 + a + b
      /\ Piece(f, 28, a) = m.name /\ Piece(f, 28 + a, b) = m.bytes
  BY FileLayout
<1>2. read_u64(f, 4) = size /\ read_u64(f, 12) = a /\ read_u64(f, 20) = b
  <2>1. \A data : Starts(f, data) /\ Len(data) >= 28
           => read_u64(data, 4) = size /\ read_u64(data, 12) = a /\ read_u64(data, 20) = b
    BY FileLayout
  <2>2. f \in Seq(Bytes)
    BY FrameLayout DEF Messages
  <2> HIDE DEF f
  <2>3. Starts(f, f) /\ Len(f) >= 28
    BY <1>1, <2>2 DEF Starts
  <2> QED BY <2>1, <2>3
<1>3. size = 8 + 8 + a + b
  BY DEF FilePayloadSize
<1> HIDE DEF f, a, b, size
<1>4. 12 + size = 28 + a + b /\ 12 + 16 + a + b = 28 + a + b
  BY <1>1, <1>3
<1>5. (28 + a + b) % Limit = 28 + a + b
  BY <1>1, Remainder
<1>6. FileFits(f, size, a, b)
  <2>1. (12 + size) % Limit = 28 + a + b /\ (12 + 16 + a + b) % Limit = 28 + a + b
    BY <1>4, <1>5
  <2>2. Len(f) >= 28 + a + b
    BY <1>1
  <2> QED BY <2>1, <2>2 DEF FileFits, HeaderSize
<1>7. ~(Len(f) < 12 + 16) /\ ~(Len(f) < 12 + 16 + a + b)
  BY <1>1
<1>8. DeserializeFile(f) = [kind |-> "File", name |-> Piece(f, 28, a), bytes |-> Piece(f, 28 + a, b)]
  BY <1>2, <1>6, <1>7 DEF DeserializeFile, HeaderSize
<1>9. DeserializeFile(f) = m
  BY <1>1, <1>8
<1> QED BY <1>9 DEF f

LEMMA WholeHistory ==
  ASSUME NEW m \in HistoryRequests
  PROVE  DeserializeHistory(serialize(m)) = m
<1> DEFINE f == serialize(m)
<1>1. /\ m = [kind |-> "SendHistory", port |-> m.port]
      /\ Len(f) = 16 /\ read_u32(f, 12) % Half = m.port
  BY HistoryLayout
<1>2. m \in Messages /\ m.kind = "SendHistory"
  BY DEF Messages, HistoryRequests
<1>3. f \in Seq(Bytes)
  BY <1>2, FrameLayout
<1>4. Starts(f, f)
  BY <1>3 DEF Starts
<1>5. read_u32(f, 0) = TextTypes["SendHistory"] /\ read_u64(f, 4) = FrameSize(m)
  BY <1>2, <1>4, FrameReads
<1>6. FrameSize(m) = 4
  BY <1>1 DEF FrameSize
<1> HIDE DEF f
<1>7. DeserializeHistory(f) = [kind |-> "SendHistory", port |-> read_u32(f, 12) % Half]
  <2>1. ~(Len(f) < 12 + 4)
    BY <1>1
  <2> QED BY <1>5, <1>6, <2>1 DEF DeserializeHistory, HeaderSize
<1>8. DeserializeHistory(f) = m
  BY <1>1, <1>7
<1> QED BY <1>8 DEF f

LEMMA WholeFrame ==
  ASSUME NEW m \in Messages
  PROVE  deserialize(m.kind, serialize(m)) = m
<1>1. CASE m \in TextMessages
  BY <1>1, WholeText DEF deserialize, TextMessages
<1>2. CASE m \in FileMessages
  BY <1>2, WholeFile DEF deserialize, FileMessages
<1>3. CASE m \in HistoryRequests
  BY <1>3, WholeHistory DEF deserialize, HistoryRequests
<1> QED BY <1>1, <1>2, <1>3 DEF Messages

-----------------------------------------------------------------------------
(* The theorems.                                                           *)

\* Every message of any of the three classes is read back as it was serialized.
THEOREM RoundTrip ==
  ASSUME NEW m \in Messages
  PROVE  ReadFrame(serialize(m)) = m
<1> DEFINE f == serialize(m)
<1>1. f \in Seq(Bytes) /\ m.kind \in DOMAIN TextTypes
  BY FrameLayout
<1>2. Starts(f, f)
  BY <1>1 DEF Starts
<1>3. read_u32(f, 0) = TextTypes[m.kind]
  BY <1>2, FrameReads
<1>4. create_from_id(TextTypes[m.kind]) = {m.kind}
  BY <1>1 DEF create_from_id, TextTypes
<1>5. (CHOOSE kind \in {m.kind} : TRUE) = m.kind
  OBVIOUS
<1>6. ReadFrame(f) = deserialize(m.kind, f)
  BY <1>3, <1>4, <1>5 DEF ReadFrame
<1> QED BY <1>6, WholeFrame

\* deserialize refuses every buffer that ends before its message does.
THEOREM CutsRefused ==
  ASSUME NEW m \in Messages, NEW n \in 0..(Len(serialize(m)) - 1)
  PROVE  deserialize(m.kind, SubSeq(serialize(m), 1, n)) = Refused
<1> DEFINE f == serialize(m)
           data == SubSeq(f, 1, n)
           size == FrameSize(m)
<1>1. /\ f \in Seq(Bytes) /\ size \in Nat /\ Len(f) = 12 + size /\ 12 + size < Limit
      /\ n \in Nat /\ n < 12 + size
  BY FrameLayout
<1>2. Len(data) = n
  <2> HIDE DEF f
  <2>1. n \in 0..Len(f)
    BY <1>1
  <2> QED BY <1>1, <2>1, CutStarts
<1>3. n >= 12 => read_u32(data, 0) = TextTypes[m.kind] /\ read_u64(data, 4) = size
  <2>1. n >= 12 => n \in 12..Len(f)
    BY <1>1
  <2> QED BY <2>1, CutReads
<1>4. (12 + size) % Limit = 12 + size
  BY <1>1, Remainder
<1>5. CASE m \in TextMessages
  <2>1. m.kind = "Text"
    BY <1>5 DEF TextMessages
  <2> HIDE DEF data, size
  <2>2. DeserializeText(data) = Refused
    BY <1>1, <1>2, <1>3, <1>4 DEF DeserializeText, HeaderSize
  <2> QED BY <2>1, <2>2 DEF deserialize, data
<1>6. CASE m \in FileMessages
  <2>1. m.kind = "File"
    BY <1>6 DEF FileMessages
  <2> HIDE DEF data, size
  <2>2. \A a, b : n >= 12 => ~FileFits(data, size, a, b)
    BY <1>1, <1>2, <1>4 DEF FileFits, HeaderSize
  <2>3. n < 28 => DeserializeFile(data) = Refused
    BY <1>1, <1>2 DEF DeserializeFile, HeaderSize
  <2>4. ASSUME n >= 28 PROVE DeserializeFile(data) = Refused
    <3>1. read_u64(data, 4) = size
      BY <1>1, <1>3, <2>4
    <3> QED BY <1>1, <1>2, <2>2, <2>4, <3>1 DEF DeserializeFile, HeaderSize
  <2>5. DeserializeFile(data) = Refused
    BY <1>1, <2>3, <2>4
  <2> QED BY <2>1, <2>5 DEF deserialize, data
<1>7. CASE m \in HistoryRequests
  <2>1. m.kind = "SendHistory"
    BY <1>7 DEF HistoryRequests
  <2>2. size = 4
    BY <1>7, HistoryLayout DEF FrameSize
  <2> HIDE DEF data, size
  <2>3. DeserializeHistory(data) = Refused
    BY <1>1, <1>2, <2>2 DEF DeserializeHistory, HeaderSize
  <2> QED BY <2>1, <2>3 DEF deserialize, data
<1> QED BY <1>5, <1>6, <1>7 DEF Messages
=============================================================================
