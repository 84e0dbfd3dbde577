---------------------------- MODULE FrameReader ----------------------------
(***************************************************************************)
(* MessageReceiver on bytes: frames written to a socket one after the other, *)
(* a header of fixed size and a body of the size it names read in turn, and *)
(* a connection that can break in the middle of a frame.                   *)
(*                                                                         *)
(* SocketStream shows when the frames of one socket are written one after   *)
(* the other; here they are.                                               *)
(***************************************************************************)
EXTENDS Codec

CONSTANTS
  MaxFrames,   \* bound on the frames written to the socket
  Lengths      \* what a frame not written by serialize may say of its lengths

ASSUME FramesAssumption == MaxFrames \in Nat /\ Lengths \subseteq 0..(Limit - 1)

VARIABLES
  sent,      \* the messages written to the socket
  starts,    \* history: where the frame of each starts in the stream
  stream,    \* every byte written, but for those a broken connection has lost
  up,        \* the connection is up
  taken,     \* how many bytes have been read
  reading,   \* what async_read waits for: a header, a body, or nothing any more
  header,    \* the header of the frame whose body is awaited
  received   \* what the frames read so far were read as

fvars == <<sent, starts, stream, up, taken, reading, header, received>>

FrameInit ==
  /\ sent = <<>> /\ starts = <<>> /\ stream = <<>> /\ up = TRUE
  /\ taken = 0 /\ reading = "header" /\ header = <<>> /\ received = <<>>

\* A sender or a queue writes a frame behind the others.
WriteFrame(m) ==
  /\ up /\ Len(sent) < MaxFrames
  /\ sent' = Append(sent, m)
  /\ starts' = Append(starts, Len(stream))
  /\ stream' = stream \o serialize(m)
  /\ UNCHANGED <<up, taken, reading, header, received>>

\* The bytes under way arrive up to any one of them.
ConnectionBreaks ==
  /\ up /\ up' = FALSE
  /\ \E n \in taken..Len(stream) : stream' = Piece(stream, 0, n)
  /\ UNCHANGED <<sent, starts, taken, reading, header, received>>

\* async_read completes when all of its bytes are there.
Arrived(n) == taken + n <= Len(stream)
\* Mutant: the body is read from where the header starts.
HeaderNotTaken(n) == UNCHANGED taken
Take(n) == taken' = taken + n

\* handle_read_message, which reads the next header whatever came of the frame.
HandleFrame(frame) ==
  /\ received' = Append(received, ReadFrame(frame))
  /\ reading' = "header" /\ header' = <<>>

start_read_header ==
  /\ reading = "header" /\ Arrived(HeaderSize)
  /\ Take(HeaderSize)
  /\ LET bytes == Piece(stream, taken, HeaderSize) IN
       IF read_u64(bytes, 4) = 0
       THEN HandleFrame(bytes)
       ELSE reading' = "body" /\ header' = bytes /\ UNCHANGED received
  /\ UNCHANGED <<sent, starts, stream, up>>

start_read_body ==
  /\ reading = "body"
  /\ LET body_length == read_u64(header, 4) IN
       /\ Arrived(body_length)
       /\ Take(body_length)
       /\ HandleFrame(header \o Piece(stream, taken, body_length))
  /\ UNCHANGED <<sent, starts, stream, up>>

\* The error path returns without reading on.
ReadFails ==
  /\ ~up
  /\ \/ reading = "header" /\ ~Arrived(HeaderSize)
     \/ reading = "body" /\ ~Arrived(read_u64(header, 4))
  /\ reading' = "ended" /\ header' = <<>>
  /\ UNCHANGED <<sent, starts, stream, up, taken, received>>

FrameNext ==
  \/ \E m \in Messages : WriteFrame(m)
  \/ ConnectionBreaks \/ start_read_header \/ start_read_body \/ ReadFails

FrameSpec == FrameInit /\ [][FrameNext]_fvars

-----------------------------------------------------------------------------
(* Properties.                                                             *)

\* What is read is what was sent, message by message: no frame is read short or long, and
\* none as another message, whatever frames stand before and behind it.
ReadAsSent ==
  /\ Len(received) <= Len(sent)
  /\ \A i \in DOMAIN received : received[i] = sent[i]

\* The reader stays in step: it waits for a header only where a frame starts, or where the
\* stream ends, and the size of the body it waits for ends the frame.
InStep ==
  LET next == Len(received) + 1 IN
    /\ reading = "header" =>
         taken = IF next <= Len(sent) THEN starts[next]
                 ELSE IF sent = <<>> THEN 0 ELSE starts[Len(sent)] + Len(serialize(sent[Len(sent)]))
    /\ reading = "body" =>
         /\ next <= Len(sent)
         /\ taken + read_u64(header, 4) = starts[next] + Len(serialize(sent[next]))

\* A frame of m that a break has cut, and one whose lengths are others than those of m.
Cuts(m) == {Piece(serialize(m), 0, n) : n \in 0..(Len(serialize(m)) - 1)}
Relabelled(m) ==
  CASE m.kind = "Text" -> {Header("Text", size) \o m.text : size \in Lengths}
    [] m.kind = "File" ->
         {append_u64(append_u64(Header("File", size), first), second) \o m.name \o m.bytes :
            size, first, second \in Lengths}
    [] m.kind = "SendHistory" -> {append_u32(Header("SendHistory", size), m.port) : size \in Lengths}

\* Where the bytes end that the lengths in a buffer name, and those bytes of a message.
EndNamed(kind, data) ==
  CASE kind = "Text" -> 12 + read_u64(data, 4)
    [] kind = "File" -> 28 + read_u64(data, 12) + read_u64(data, 20)
    [] kind = "SendHistory" -> 16
Content(m) ==
  CASE m.kind = "Text" -> m.text
    [] m.kind = "File" -> m.name \o m.bytes
    [] m.kind = "SendHistory" -> <<m.port>>

\* deserialize obeys the lengths in a buffer: it refuses a frame that was cut, and of one
\* whose lengths are not its own it reads what they name, if that is there, and refuses it if
\* not, whichever of the two sums of a file tells: never a byte past the end.  So a text whose
\* size is too small is read in part.  The sums are of 64 bits, though: lengths that reach
\* 2^64 pass both, the copy leaves the buffer, and nothing is claimed of them.
LengthsObeyed ==
  \A i \in DOMAIN sent : \A data \in Cuts(sent[i]) \cup Relabelled(sent[i]) :
    LET m   == sent[i]
        got == deserialize(m.kind, data)
    IN \/ got = Refused
       \/ EndNamed(m.kind, data) >= Limit
       \/ /\ data \notin Cuts(m) /\ EndNamed(m.kind, data) <= Len(data)
          /\ got.kind = m.kind
          /\ Len(Content(got)) = Len(Content(m)) - (Len(data) - EndNamed(m.kind, data))
          /\ Content(got) = SubSeq(Content(m), 1, Len(Content(got)))

\* Frames and receiver are a channel: each message handed to the callback is the next one
\* that was written, and a break loses the last ones only, wherever it cuts the stream.
Channel == INSTANCE MessageChannel WITH
  Message  <- Messages,
  outgoing <- sent,
  incoming <- received,
  intact   <- up
FramesAreChannel == Channel!Spec
=============================================================================
