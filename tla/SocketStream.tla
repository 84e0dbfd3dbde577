---------------------------- MODULE SocketStream ----------------------------
(***************************************************************************)
(* One direction of one connection: Shared/src/Server/MessageSender.cpp    *)
(* (SendMessage, one async_write per message, called by several threads)   *)
(* or the blocking write of a FileTransferQueue's worker at one end, and   *)
(* MessageReceiver.cpp at the other.                                       *)
(*                                                                         *)
(* A message is its position in the order of the calls.  It is serialized  *)
(* to one header unit, which holds the length of its body, and that many   *)
(* body units.                                                             *)
(***************************************************************************)
EXTENDS Naturals, Sequences, FiniteSetsExt, SequencesExt

CONSTANTS
  Kinds,         \* "text" (written by SendMessage), "file" (by a queue's worker) or both
  Lengths,       \* the lengths of bodies: no program sends an empty one
  Transfer,      \* units in one write_some at most (64 KiB in Asio)
  Room,          \* units the kernel buffers
  MaxMessages    \* bound on messages sent

ASSUME StreamAssumption ==
  /\ Kinds \subseteq {"text", "file"}
  /\ Lengths \subseteq Nat \ {0}
  /\ Transfer \in Nat \ {0} /\ Room \in Nat \ {0}
  /\ MaxMessages \in Nat

VARIABLES
  kind,         \* which kind of socket this is
  sent,         \* the body length of each message sent so far
  ops,          \* composed writes that have not ended
  wire,         \* units between the two programs
  up,           \* the connection is up
  frame,        \* what the receiver has read of the current frame
  delivered,    \* the messages handed to the callback, 0 for one nobody sent
  split         \* history: a message was not taken by the kernel during its call

svars == <<kind, split, sent, ops, wire, up, frame, delivered>>

Unit(n, at) == [msg |-> n, at |-> at]
Junk == Unit(0, 0)
Units == {Junk} \cup [msg : 1..Len(sent), at : Nat]
IsHeader(u) == u # Junk /\ u.at = 0
Size(n) == 1 + sent[n]

NoFrame == [pc |-> "header", header |-> Junk, need |-> 0, body |-> <<>>]

StreamInit ==
  /\ kind \in Kinds /\ split = FALSE
  /\ sent = <<>> /\ ops = <<>> /\ wire = <<>> /\ up = TRUE
  /\ frame = NoFrame /\ delivered = <<>>

-----------------------------------------------------------------------------
(* Writing.                                                                *)

\* Mutant: a write_some that does not look at the room in the kernel's buffer.
RoomIgnored(op, size) == Min({Transfer, size - op.off})
\* What one write_some takes of a composed write.
Takes(op, size) == Min({Room - Len(wire), Transfer, size - op.off})

\* The next k units of the buffer of a write.
Chunk(op, k) == [i \in 1..k |-> Unit(op.msg, op.off + i - 1)]
\* The buffer is owned by the call of SendMessage: when that has returned, it is freed,
\* and may hold anything.
Freed(op, k) == {Chunk(op, k), [i \in 1..k |-> Junk]}

Waiting(queue) == {i \in DOMAIN queue : queue[i].at = "reactor"}

\* async_write_some: at once if no other write waits for the socket to become writable.
Issue(others, op, size, contents(_, _)) ==
  LET k == Takes(op, size) IN
    IF Waiting(others) = {} /\ k > 0
    THEN /\ \E units \in contents(op, k) : wire' = wire \o units
         /\ ops' = Append(others, [op EXCEPT !.off = @ + k, !.at = "handler"])
    ELSE /\ ops' = Append(others, [op EXCEPT !.at = "reactor"])
         /\ UNCHANGED wire

NewWrite == [msg |-> Len(sent) + 1, off |-> 0, at |-> "reactor"]

SendMessage(length) ==
  /\ kind = "text" /\ up /\ Len(sent) < MaxMessages
  /\ sent' = Append(sent, length)
  /\ Issue(ops, NewWrite, 1 + length, LAMBDA op, k : {Chunk(op, k)})
  /\ split' = (split \/ Len(wire') - Len(wire) < 1 + length)
  /\ UNCHANGED <<kind, up, frame, delivered>>

\* The handler of a write_some, on any io thread: the next one, or the end.
WriteHandler ==
  /\ \E i \in DOMAIN ops :
       /\ ops[i].at = "handler"
       /\ IF ops[i].off = Size(ops[i].msg)
          THEN ops' = RemoveAt(ops, i) /\ UNCHANGED wire
          ELSE Issue(RemoveAt(ops, i), ops[i], Size(ops[i].msg), Freed)
  /\ UNCHANGED <<kind, split, sent, up, frame, delivered>>

\* The socket is writable: the write that has waited longest goes on.
ReactorWrites ==
  /\ kind = "text" /\ up /\ Len(wire) < Room
  /\ \E i \in Waiting(ops) :
       LET k == Takes(ops[i], Size(ops[i].msg)) IN
       /\ \A other \in Waiting(ops) : i <= other
       /\ \E units \in Freed(ops[i], k) : wire' = wire \o units
       /\ ops' = [ops EXCEPT ![i].off = @ + k, ![i].at = "handler"]
  /\ UNCHANGED <<kind, split, sent, up, frame, delivered>>

\* Mutant: the worker does not wait for the end of its last write.
WorkerOverlaps == TRUE
WorkerFree == ops = <<>>

\* worker_loop: one boost::asio::write at a time, from a buffer that lives as long.
BeginWrite(length) ==
  /\ kind = "file" /\ up /\ WorkerFree /\ Len(sent) < MaxMessages
  /\ sent' = Append(sent, length)
  /\ ops' = Append(ops, NewWrite)
  /\ UNCHANGED <<kind, split, wire, up, frame, delivered>>

WriteSome ==
  /\ kind = "file" /\ up /\ Len(wire) < Room
  /\ \E i \in DOMAIN ops :
       LET op == ops[i]
           k  == Takes(op, Size(op.msg)) IN
         /\ wire' = wire \o Chunk(op, k)
         /\ ops' = IF op.off + k = Size(op.msg) THEN RemoveAt(ops, i)
                   ELSE [ops EXCEPT ![i].off = @ + k]
  /\ UNCHANGED <<kind, split, sent, up, frame, delivered>>

\* The connection breaks, or is closed by one end: what is under way arrives in part.
ConnectionLost ==
  /\ up /\ up' = FALSE
  /\ ops' = <<>>
  /\ \E k \in 0..Len(wire) : wire' = SubSeq(wire, 1, k)
  /\ UNCHANGED <<kind, split, sent, frame, delivered>>

-----------------------------------------------------------------------------
(* Reading.                                                                *)

\* The body length in a header; bytes that are no header can say any.
BodyLength(u) == IF IsHeader(u) THEN {sent[u.msg]} ELSE Lengths \cup {0}

\* The message a frame is read as.
Parsed(header, body) ==
  IF IsHeader(header) /\ body = [i \in 1..sent[header.msg] |-> Unit(header.msg, i)]
  THEN header.msg ELSE 0

\* handle_read_message: parse, call the handler, and start_read_header, also after a
\* frame that could not be parsed, which bytes that are no header may lead to.
HandleMessage(header, body) ==
  /\ \/ delivered' = Append(delivered, Parsed(header, body))
     \/ ~IsHeader(header) /\ UNCHANGED delivered
  /\ frame' = NoFrame

\* Mutant: the length is taken for that of the whole frame.
BodyWithoutHeader(length) == length - 1
\* Mutant: the header is counted in.
BodyWithHeader(length) == length + 1
BodyNeeded(length) == length

ReadHeader ==
  /\ frame.pc = "header" /\ wire # <<>>
  /\ \E length \in BodyLength(Head(wire)) :
       IF length = 0
       THEN HandleMessage(Head(wire), <<>>)
       ELSE /\ frame' = [pc |-> "body", header |-> Head(wire),
                         need |-> BodyNeeded(length), body |-> <<>>]
            /\ UNCHANGED delivered
  /\ wire' = Tail(wire)
  /\ UNCHANGED <<kind, split, sent, ops, up>>

\* async_read takes units as they come until it has the whole body.
ReadBody ==
  /\ frame.pc = "body" /\ wire # <<>>
  /\ LET body == Append(frame.body, Head(wire)) IN
       IF Len(body) = frame.need
       THEN HandleMessage(frame.header, body)
       ELSE frame' = [frame EXCEPT !.body = body] /\ UNCHANGED delivered
  /\ wire' = Tail(wire)
  /\ UNCHANGED <<kind, split, sent, ops, up>>

\* The error path returns without reading on.
ReadFails ==
  /\ frame.pc # "ended" /\ ~up /\ wire = <<>>
  /\ frame' = [NoFrame EXCEPT !.pc = "ended"]
  /\ UNCHANGED <<kind, split, sent, ops, wire, up, delivered>>

Write == (\E length \in Lengths : SendMessage(length) \/ BeginWrite(length))
         \/ WriteHandler \/ ReactorWrites \/ WriteSome
Read == ReadHeader \/ ReadBody \/ ReadFails

StreamNext == Write \/ Read \/ ConnectionLost
StreamSpec == StreamInit /\ [][StreamNext]_svars

\* The receiver reads on, and so does the worker write.
StreamFairSpec == StreamSpec /\ WF_svars(Read) /\ WF_svars(WriteSome)

-----------------------------------------------------------------------------
(* Properties.                                                             *)

\* Every variable has its type, and the kernel's buffer its bound.
StreamTypeOK ==
  /\ kind \in Kinds /\ split \in BOOLEAN
  /\ sent \in Seq(Lengths) /\ Len(sent) <= MaxMessages
  /\ ops \in Seq([msg : 1..Len(sent), off : Nat, at : {"reactor", "handler"}])
  /\ \A i \in DOMAIN ops : ops[i].off <= Size(ops[i].msg)
  /\ wire \in Seq(Units) /\ Len(wire) <= Room
  /\ up \in BOOLEAN
  /\ frame \in [pc : {"header", "body", "ended"}, header : Units, need : Nat, body : Seq(Units)]
  /\ frame.pc = "body" => Len(frame.body) < frame.need
  /\ delivered \in Seq(0..Len(sent))

\* On a file socket the worker and the receiver together are a channel: what arrives is
\* what was written, frame by frame, whatever the sizes of the pieces.
Channel == INSTANCE MessageChannel WITH
  Message  <- 1..MaxMessages,
  outgoing <- [n \in DOMAIN sent |-> n],
  incoming <- IF kind = "file" THEN delivered ELSE <<>>,
  intact   <- up
ImplementsChannel == Channel!Spec

\* Every file written arrives unless the connection breaks: no frame leaves the receiver
\* waiting for more.
EveryFrameArrives ==
  \A n \in 1..MaxMessages : kind = "file" /\ Len(sent) >= n ~> Len(delivered) >= n \/ ~up

\* Texts arrive in order of the calls of SendMessage as long as each was taken whole by
\* the kernel during its call, from however many threads.
FittingTextsArrive ==
  kind = "text" /\ ~split => delivered = [i \in 1..Len(delivered) |-> i]

\* "Broadcasts a specific text message to every client": every message a client reads
\* from its socket is one that was sent to it.
OnlySentArrives == \A i \in DOMAIN delivered : delivered[i] # 0
=============================================================================
