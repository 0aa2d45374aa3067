------------------------------- MODULE Channel -------------------------------
(***************************************************************************)
(* The framed channel of channel.rs, one direction of it: a writer that    *)
(* queues length-prefixed messages and flushes them with partial writes,   *)
(* the socket, and a reader that fills its buffer in pieces and decodes    *)
(* whole messages from it.                                                 *)
(*                                                                         *)
(* A byte is a number below Base and the length prefix has HdrLen of them  *)
(* (256 and 4 in the code), so a payload can look like a header.  The      *)
(* msgpack encoding of typed messages is left out: a message is its bytes. *)
(***************************************************************************)
EXTENDS Naturals, Sequences, SequencesExt

CONSTANTS Msgs,           \* the payloads a caller may queue
          HdrLen, Base,   \* size_of::<u32>() and the values of a byte
          WireCap,        \* bytes the socket holds between the two ends
          MaxRead,        \* READ_BUF: the most one read returns
          MaxSend,        \* bound on the calls of queue_send_raw
          TimeoutDuring   \* the flush states a flush_timeout may expire in

VARIABLES outgoing, writing, wpc,   \* writer: queue, the buffer write_all holds, state
          wire, closed,             \* the socket
          incoming, out, rerr,      \* reader: buffer, last batch, error returned
          calls

vars == <<outgoing, writing, wpc, wire, closed, incoming, out, rerr, calls>>

Bytes  == 0..(Base - 1)
MaxLen == Base^HdrLen - 1            \* u32::max_value()

Take(s, n) == SubSeq(s, 1, n)
Drop(s, n) == SubSeq(s, n + 1, Len(s))

(* Faulty variant of Header: the length is not cut into bytes. *)
HeaderUncut(n) == [i \in 1..HdrLen |-> n \div Base^(HdrLen - i)]

(* put_u32: the length, big-endian. *)
Header(n) == [i \in 1..HdrLen |-> (n \div Base^(HdrLen - i)) % Base]

(* BigEndian::read_u32 of the head of a buffer. *)
ReadLen(buf) == FoldLeft(LAMBDA acc, b : acc * Base + b, 0, Take(buf, HdrLen))

(* Faulty variants of advance: a buffer that was written in part is        *)
(* dropped whole; the emptied buffers are not removed.                     *)
RECURSIVE AdvanceWhole(_, _)
AdvanceWhole(bufs, len) ==
    IF len = 0 \/ bufs = <<>> THEN bufs
    ELSE AdvanceWhole(Tail(bufs), len - Min({Len(Head(bufs)), len}))

AdvanceNoRetain(bufs, len) ==
    [i \in DOMAIN bufs |->
        Drop(bufs[i], Min({Len(bufs[i]), Max({0, len - Len(FlattenSeq(Take(bufs, i - 1)))})}))]

(* advance: len bytes are taken from the front of the queue, across the    *)
(* buffers, and the buffers that are empty afterwards are removed.         *)
RECURSIVE Skip(_, _)
Skip(bufs, len) ==
    IF len = 0 \/ bufs = <<>> THEN bufs
    ELSE LET n == Min({Len(Head(bufs)), len})
         IN  IF n = Len(Head(bufs)) THEN Skip(Tail(bufs), len - n)
             ELSE <<Drop(Head(bufs), n)>> \o Tail(bufs)

Advance(bufs, len) == SelectSeq(Skip(bufs, len), LAMBDA b : b # <<>>)

(* decode_from_buffer: a whole message at the head of the buffer, if any. *)
Decode(buf) ==
    IF Len(buf) < HdrLen \/ Len(buf) - HdrLen < ReadLen(buf)
    THEN [ok |-> FALSE, msg |-> <<>>, rest |-> buf]
    ELSE [ok |-> TRUE,
          msg  |-> SubSeq(buf, HdrLen + 1, HdrLen + ReadLen(buf)),
          rest |-> Drop(buf, HdrLen + ReadLen(buf))]

(* receive_batch_raw: the first message and every further one that is      *)
(* already in the buffer.                                                  *)
RECURSIVE Drain(_)
Drain(buf) ==
    LET d == Decode(buf)
    IN  IF ~d.ok THEN [msgs |-> <<>>, rest |-> buf]
        ELSE [msgs |-> <<d.msg>> \o Drain(d.rest).msgs, rest |-> Drain(d.rest).rest]

-----------------------------------------------------------------------------
Init ==
    /\ outgoing = <<>> /\ writing = <<>> /\ wpc = "idle"
    /\ wire = <<>> /\ closed = "open"
    /\ incoming = <<>> /\ out = <<>> /\ rerr = FALSE
    /\ calls = 0

(* queue_send_raw: a message that is too large is refused, any other is    *)
(* queued as two buffers, header and payload.                              *)
Queue(m) ==
    /\ wpc = "idle" /\ closed = "open" /\ calls < MaxSend
    /\ calls' = calls + 1
    /\ outgoing' = IF Len(m) > MaxLen THEN outgoing
                   ELSE outgoing \o <<Header(Len(m)), m>>
    /\ UNCHANGED <<writing, wire, closed, incoming, out, rerr>>

QueueSendRaw(m) == Queue(m) /\ UNCHANGED wpc

(* send_one_raw: queue_send_raw and, unless it refused the message, flush, *)
(* which finds two buffers or more and goes to write_vectored.             *)
SendOneRaw(m) == Queue(m) /\ wpc' = IF Len(m) > MaxLen THEN "idle" ELSE "vectored"

(* flush, up to its first await: a single buffer is popped and handed to   *)
(* write_all, more are written with write_vectored.  An empty queue        *)
(* returns at once.                                                        *)
FlushBegin ==
    /\ wpc = "idle" /\ closed = "open" /\ outgoing # <<>>
    /\ \/ /\ Len(outgoing) = 1
          /\ writing' = outgoing[1] /\ outgoing' = <<>> /\ wpc' = "write_all"
       \/ /\ Len(outgoing) > 1
          /\ wpc' = "vectored" /\ UNCHANGED <<outgoing, writing>>
    /\ UNCHANGED <<wire, closed, incoming, out, rerr, calls>>

Room == WireCap - Len(wire)

(* write_all: the socket takes n bytes of the popped buffer. *)
WriteAll(n) ==
    /\ wpc = "write_all"
    /\ n \in 1..Min({Len(writing), Room})
    /\ wire' = wire \o Take(writing, n)
    /\ writing' = Drop(writing, n)
    /\ wpc' = IF writing' = <<>> THEN "idle" ELSE "write_all"
    /\ UNCHANGED <<outgoing, closed, incoming, out, rerr, calls>>

(* One round of the loop of flush: write_vectored takes n bytes, advance   *)
(* drops them, and the loop ends when the queue is empty.                  *)
WriteVectored(n) ==
    /\ wpc = "vectored"
    /\ n \in 1..Min({Len(FlattenSeq(outgoing)), Room})
    /\ wire' = wire \o Take(FlattenSeq(outgoing), n)
    /\ outgoing' = Advance(outgoing, n)
    /\ wpc' = IF outgoing' = <<>> THEN "idle" ELSE "vectored"
    /\ UNCHANGED <<writing, closed, incoming, out, rerr, calls>>

(* flush_with_timeout, which is not in channel.rs and is written from its  *)
(* description: the flush timed out, its future is dropped at the await    *)
(* and with it the buffer write_all holds; the caller carries on.          *)
FlushTimeout ==
    /\ wpc \in TimeoutDuring
    /\ wpc' = "idle" /\ writing' = <<>>
    /\ UNCHANGED <<outgoing, wire, closed, incoming, out, rerr, calls>>

(* The writing end goes away, by a shutdown or by an error: what is on the *)
(* wire still arrives, what is queued does not.                            *)
Close(how) ==
    /\ closed = "open"
    /\ closed' = how
    /\ outgoing' = <<>> /\ writing' = <<>> /\ wpc' = "idle"
    /\ UNCHANGED <<wire, incoming, out, rerr, calls>>

(* receive_raw finds no whole message and fill_buffer reads n bytes. *)
FillBuffer(n) ==
    /\ ~rerr /\ ~Decode(incoming).ok
    /\ n \in 1..Min({Len(wire), MaxRead})
    /\ incoming' = incoming \o Take(wire, n)
    /\ wire' = Drop(wire, n)
    /\ UNCHANGED <<outgoing, writing, wpc, closed, out, rerr, calls>>

(* ... at the end of the stream read returns 0: the buffer is advanced by  *)
(* nothing and receive_raw goes round its loop.                            *)
FillAtEof ==
    /\ ~rerr /\ ~Decode(incoming).ok
    /\ wire = <<>> /\ closed = "eof"
    /\ UNCHANGED vars

(* ... read fails and the error is returned. *)
FillFails ==
    /\ ~rerr /\ ~Decode(incoming).ok
    /\ wire = <<>> /\ closed = "reset"
    /\ rerr' = TRUE
    /\ UNCHANGED <<outgoing, writing, wpc, wire, closed, incoming, out, calls>>

(* receive_batch_raw returns: the buffer holds a whole message. *)
ReceiveBatch ==
    /\ ~rerr /\ Decode(incoming).ok
    /\ out' = Drain(incoming).msgs
    /\ incoming' = Drain(incoming).rest
    /\ UNCHANGED <<outgoing, writing, wpc, wire, closed, rerr, calls>>

Next ==
    \/ \E m \in Msgs : QueueSendRaw(m) \/ SendOneRaw(m)
    \/ FlushBegin
    \/ \E n \in 1..WireCap : WriteAll(n) \/ WriteVectored(n)
    \/ FlushTimeout
    \/ \E how \in {"eof", "reset"} : Close(how)
    \/ \E n \in 1..MaxRead : FillBuffer(n)
    \/ FillAtEof \/ FillFails
    \/ ReceiveBatch

Spec == Init /\ [][Next]_vars

(* The socket takes bytes while it has room and hands over what it holds;  *)
(* the reader is a loop around receive_batch.  Nothing is assumed of the   *)
(* caller of flush, nor of whether the connection ends.                    *)
FairSpec ==
    /\ Spec
    /\ WF_vars(\E n \in 1..WireCap : WriteAll(n) \/ WriteVectored(n))
    /\ WF_vars(\E n \in 1..MaxRead : FillBuffer(n))
    /\ WF_vars(FillFails)
    /\ WF_vars(ReceiveBatch)

-----------------------------------------------------------------------------
TypeOK ==
    /\ \A i \in DOMAIN outgoing : \A j \in DOMAIN outgoing[i] : outgoing[i][j] \in Bytes
    /\ \A s \in {writing, wire, incoming} : \A j \in DOMAIN s : s[j] \in Bytes
    /\ Len(wire) <= WireCap
    /\ wpc \in {"idle", "write_all", "vectored"}
    /\ closed \in {"open", "eof", "reset"}
    /\ \A i \in DOMAIN out : out[i] \in Msgs
    /\ rerr \in BOOLEAN
    /\ calls \in 0..MaxSend

(* Every byte that was queued and not yet handed to the caller. *)
InFlight == incoming \o wire \o writing \o FlattenSeq(outgoing)

(* The wire format: a message is its length, big-endian, and then exactly  *)
(* that many bytes.  Frames(bytes) are the whole messages bytes begin with.*)
RECURSIVE Frames(_)
Frames(bytes) ==
    LET end == HdrLen + ReadLen(bytes)
    IN  IF Len(bytes) < HdrLen \/ Len(bytes) < end THEN <<>>
        ELSE <<SubSeq(bytes, HdrLen + 1, end)>> \o Frames(Drop(bytes, end))

F == INSTANCE Fifo WITH queue <- Frames(InFlight)

(* The channel implements the FIFO of whole messages: whatever partial     *)
(* writes write_vectored makes and advance accounts for, and in whatever   *)
(* pieces fill_buffer gets the bytes, decode_from_buffer hands over the    *)
(* messages that were queued, each once and in order, and a failure loses  *)
(* only the messages queued last.                                          *)
Refines == F!Spec

(* A flush that was started ends: the loop of flush and advance empty the  *)
(* queue when the peer keeps reading.                                      *)
FlushCompletes == (wpc # "idle") ~> (wpc = "idle")

(* "Closed (peer hung up)" is an error of the channel: once the peer has   *)
(* gone and everything it sent was handed over, receive returns an error.  *)
ClosedIsReported == (closed # "open") ~> rerr

=============================================================================
