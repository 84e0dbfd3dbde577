------------------------------- MODULE Codec -------------------------------
(***************************************************************************)
(* Messages as bytes: serialize and deserialize of TextMessage, FileMessage *)
(* and SendHistoryMessage, over HeaderHelper.hpp, and the cut of a stream   *)
(* of bytes into frames by MessageReceiver.cpp.                             *)
(*                                                                         *)
(* A buffer is a sequence of bytes; an offset counts from 0, as in the     *)
(* code.  SocketStream abstracts a frame to a header and body units: this  *)
(* module is what that rests on.                                           *)
(***************************************************************************)
EXTENDS Naturals, Sequences

CONSTANTS
  Byte,          \* how many values a byte has: 256
  Texts,         \* the texts sent,
  Names,         \* the names and
  Contents,      \* the contents of the files sent
  Ports          \* the ports of file sockets

Bytes == 0..(Byte - 1)
Half == Byte * Byte        \* 2^16
Word == Half * Half        \* 2^32
Limit == Word * Word       \* 2^64: where uint64_t and size_t wrap

ASSUME CodecAssumption ==
  /\ Byte \in Nat /\ Byte > 1
  /\ Texts \subseteq Seq(Bytes) /\ Names \subseteq Seq(Bytes) /\ Contents \subseteq Seq(Bytes)
  /\ \A text \in Texts : 12 + Len(text) < Limit
  /\ \A name \in Names, bytes \in Contents : 28 + Len(name) + Len(bytes) < Limit
  /\ Ports \subseteq 0..(Half - 1)

TextMessages == [kind : {"Text"}, text : Texts]
FileMessages == [kind : {"File"}, name : Names, bytes : Contents]
HistoryRequests == [kind : {"SendHistory"}, port : Ports]
Messages == TextMessages \cup FileMessages \cup HistoryRequests

TextTypes == [Text |-> 0, File |-> 1, SendHistory |-> 2]

\* An exception, and a range that leaves the buffer, which is undefined behaviour.
Refused == [kind |-> "refused"]
Undefined == [kind |-> "undefined"]

-----------------------------------------------------------------------------
(* HeaderHelper: integers most significant byte first, whatever the host.  *)

bytes16(value) == <<value \div Byte, value % Byte>>
append_u32(buffer, value) == buffer \o bytes16(value \div Half) \o bytes16(value % Half)

\* htonll: the halves change places, and so do the bytes of each.
append_u64(buffer, value) ==
  append_u32(append_u32(buffer, value \div Word), value % Word)

read_u16(buffer, offset) == buffer[offset + 1] * Byte + buffer[offset + 2]
read_u32(buffer, offset) == read_u16(buffer, offset) * Half + read_u16(buffer, offset + 2)
read_u64(buffer, offset) == read_u32(buffer, offset) * Word + read_u32(buffer, offset + 4)

\* vector::assign of a range of the buffer.
Piece(buffer, offset, length) == SubSeq(buffer, offset + 1, offset + length)

-----------------------------------------------------------------------------
(* The messages.                                                           *)

Header(kind, payload_size) == append_u64(append_u32(<<>>, TextTypes[kind]), payload_size)
HeaderSize == 12

SerializeText(m) == Header("Text", Len(m.text)) \o m.text

DeserializeText(data) ==
  IF Len(data) < HeaderSize THEN Refused
  ELSE LET length == read_u64(data, 4) IN
    IF Len(data) < (HeaderSize + length) % Limit THEN Refused
    ELSE IF Len(data) < HeaderSize + length THEN Undefined
    ELSE [kind |-> "Text", text |-> Piece(data, HeaderSize, length)]

\* Mutant: the size of the payload leaves out the two lengths in front of it.
WithoutLengths(m) == Len(m.name) + Len(m.bytes)
FilePayloadSize(m) == 8 + 8 + Len(m.name) + Len(m.bytes)

SerializeFile(m) ==
  append_u64(append_u64(Header("File", FilePayloadSize(m)), Len(m.name)), Len(m.bytes))
    \o m.name \o m.bytes

\* Mutant: the two lengths are not compared with the size of the buffer.
SizeFits(data, payload_size, name_length, file_length) ==
  Len(data) >= (HeaderSize + payload_size) % Limit
\* The two checks of the size against the lengths in the frame.
FileFits(data, payload_size, name_length, file_length) ==
  /\ Len(data) >= (HeaderSize + payload_size) % Limit
  /\ Len(data) >= (HeaderSize + 16 + name_length + file_length) % Limit

DeserializeFile(data) ==
  IF Len(data) < HeaderSize + 16 THEN Refused
  ELSE LET name_length == read_u64(data, 12)
           file_length == read_u64(data, 20) IN
    IF ~FileFits(data, read_u64(data, 4), name_length, file_length) THEN Refused
    ELSE IF Len(data) < HeaderSize + 16 + name_length + file_length THEN Undefined
    ELSE [kind |-> "File", name |-> Piece(data, 28, name_length),
          bytes |-> Piece(data, 28 + name_length, file_length)]

\* The port travels in a container of 32 bits.
SerializeHistory(m) == append_u32(Header("SendHistory", 4), m.port)

DeserializeHistory(data) ==
  IF \/ Len(data) < HeaderSize + 4
     \/ read_u32(data, 0) # TextTypes["SendHistory"]
     \/ read_u64(data, 4) # 4
  THEN Refused
  ELSE [kind |-> "SendHistory", port |-> read_u32(data, 12) % Half]

serialize(m) ==
  CASE m.kind = "Text" -> SerializeText(m)
    [] m.kind = "File" -> SerializeFile(m)
    [] m.kind = "SendHistory" -> SerializeHistory(m)

deserialize(kind, data) ==
  CASE kind = "Text" -> DeserializeText(data)
    [] kind = "File" -> DeserializeFile(data)
    [] kind = "SendHistory" -> DeserializeHistory(data)

-----------------------------------------------------------------------------
(* A frame of any class.                                                   *)

\* handle_read_message: the class is chosen by the id, and an id of none is an error.
create_from_id(id) == {kind \in DOMAIN TextTypes : TextTypes[kind] = id}
ReadFrame(frame) ==
  LET kinds == create_from_id(read_u32(frame, 0)) IN
    IF kinds = {} THEN Refused ELSE deserialize(CHOOSE kind \in kinds : TRUE, frame)
=============================================================================
