---------------------------- MODULE ChunkStream ----------------------------
(***************************************************************************)
(* One direction of the RTMP chunk stream (src/chunk.rs): a ChunkWriter    *)
(* that splits messages into chunks and compresses their headers against   *)
(* the state it keeps per chunk stream id, the ordered byte stream between *)
(* the peers, and a ChunkReader that must keep the same state to know how  *)
(* many bytes each chunk occupies.  Nothing on the wire marks where a      *)
(* chunk ends: if the two states ever differ in a field that decides a     *)
(* length, every later byte is read as something it is not.                *)
(*                                                                         *)
(* The wire carries chunks, not bytes.  A chunk keeps the facts that fix   *)
(* its size (does it carry an extended timestamp, how much payload), and   *)
(* the reader compares them with what its own state makes it read: a       *)
(* difference is the loss of framing, phase "misframed".                   *)
(***************************************************************************)
EXTENDS Integers, Sequences, FiniteSets

CONSTANTS
    Csid,          \* chunk stream ids in use
    Byte,          \* what a payload is made of
    Traffic,       \* the <<csid, message>> pairs the sender may write
    SizeIn,        \* SizeIn[p]: the chunk size a SetChunkSize body p encodes
    TsMod,         \* 2^32 in the code: timestamps are u32 and wrap
    ExtMark,       \* 0xFFFFFF: the 24-bit field value that announces an extended one
    LenMod,        \* 2^24: the message length field is 24 bits
    MaxChunkSize,  \* MAX_CHUNK_SIZE
    DefaultChunkSize,
    Interleaving,  \* TRUE: a peer muxer that interleaves chunks of several csids
    ReadTimeouts,  \* TRUE: a read timeout is set on the reader's socket
    Idle,          \* no message is being written on a csid
    MaxMessages    \* bound on the messages written, for TLC

Timestamp == 0 .. TsMod - 1
SetChunkSizeType == 1   \* MSG_SET_CHUNK_SIZE

Message == [type : Nat, msid : Nat, ts : Timestamp, payload : Seq(Byte)]

ASSUME WireFormat ==
    /\ TsMod \in Nat /\ ExtMark \in Nat /\ 0 < ExtMark /\ ExtMark < TsMod
    /\ LenMod \in Nat \ {0}
    /\ MaxChunkSize \in Nat /\ DefaultChunkSize \in 1 .. MaxChunkSize
    /\ Interleaving \in BOOLEAN /\ ReadTimeouts \in BOOLEAN
    /\ MaxMessages \in Nat

\* Every message fits the 24-bit length field; write_message does not check it
\* (it masks the length), so it is the caller's obligation.
ASSUME TrafficFits ==
    \A t \in Traffic :
        /\ t \in Csid \X Message
        /\ Len(t[2].payload) < LenMod
        /\ t[2].type = SetChunkSizeType =>
              /\ t[2].payload \in DOMAIN SizeIn
              /\ SizeIn[t[2].payload] \in Nat

\* The bytes an extended timestamp takes in a chunk header: the field is absent
\* or it is 4 bytes.  The `last_had_ext_ts` of either side is ext = 4.
ExtBytes == {0, 4}

\* What is kept per csid: the fields of InState and of OutState but for the
\* partial payload.  `primed` of an InState is its presence in the map.
Header == [primed : BOOLEAN, type : Nat, msid : Nat, len : Nat,
           ts : Timestamp, delta : Timestamp, ext : ExtBytes]

NoHeader == [primed |-> FALSE, type |-> 0, msid |-> 0, len |-> 0,
             ts |-> 0, delta |-> 0, ext |-> 0]

\* The locals of a write_message call between two chunks of its message: `hdr`
\* is the state it will commit, `off` the payload already written.
Flight == [msg : Message, hdr : Header, extval : Timestamp, off : Nat]

ASSUME IdleIsNoFlight == Idle \notin Flight

Chunk == [csid : Csid, fmt : 0 .. 3, field : 0 .. ExtMark, len : Nat,
          type : Nat, msid : Nat, ext : ExtBytes, extval : Timestamp,
          data : Seq(Byte)]

VARIABLES
    writer,     \* ChunkWriter: hdr (its states), flight (calls in progress), size
    reader,     \* ChunkReader: hdr and partial (its states), size
    phase,      \* where read_message stands in the byte stream
    wire,       \* the chunks written and not yet read
    sent, delivered,   \* history: messages written and messages returned
    expect      \* history: the reader state each chunk on the wire is to produce

vars == <<writer, reader, phase, wire, sent, delivered, expect>>

Phase == {"boundary",   \* the next byte is a basic header
          "payload",    \* the header of the first chunk is read, its payload is not
          "torn",       \* as "payload", but the call that read the header has returned
          "misframed"}  \* bytes were taken for what they are not, or an Err was returned

Init ==
    /\ writer = [hdr |-> [c \in Csid |-> NoHeader],
                 flight |-> [c \in Csid |-> Idle],
                 size |-> DefaultChunkSize]
    /\ reader = [hdr |-> [c \in Csid |-> NoHeader],
                 partial |-> [c \in Csid |-> <<>>],
                 size |-> DefaultChunkSize]
    /\ phase = "boundary"
    /\ wire = <<>> /\ expect = <<>>
    /\ sent = <<>> /\ delivered = <<>>

-----------------------------------------------------------------------------
(* The writer. *)

WrapAdd(a, b) == (a + b) % TsMod
WrapSub(a, b) == (a - b) % TsMod

Lesser(a, b) == IF a < b THEN a ELSE b

\* Fault: set_chunk_size without its upper bound.
FaultNoCeiling(n) == IF n < 1 THEN 1 ELSE n

\* set_chunk_size: clamp(1, MAX_CHUNK_SIZE).
Clamp(n) == IF n < 1 THEN 1 ELSE Lesser(n, MaxChunkSize)

\* Fault: fmt 3 for a message of the same type and length whatever its delta.
FaultFmt3AnyDelta(o, m) ==
    IF ~o.primed \/ o.msid # m.msid \/ m.ts < o.ts THEN 0
    ELSE IF o.type # m.type \/ o.len # Len(m.payload) THEN 1
    ELSE 3

\* The densest header format that says what changed since header `o`.
HeadFmt(o, m) ==
    IF ~o.primed \/ o.msid # m.msid \/ m.ts < o.ts THEN 0
    ELSE IF o.type # m.type \/ o.len # Len(m.payload) THEN 1
    ELSE IF WrapSub(m.ts, o.ts) = o.delta THEN 3
    ELSE 2

\* The value the timestamp field of a head chunk stands for.
HeadTime(o, m) ==
    IF HeadFmt(o, m) = 0 THEN m.ts ELSE WrapSub(m.ts, o.ts)

\* Fault: a fmt 3 head decides on the message's absolute timestamp.
FaultExtOfAbsoluteTime(o, m) ==
    IF (IF HeadFmt(o, m) = 3 THEN m.ts ELSE HeadTime(o, m)) >= ExtMark THEN 4 ELSE 0

\* fmt3_ext: does the message's head chunk, and so every chunk of it, carry an
\* extended timestamp?  A fmt 3 head inherits the answer.
HeadExt(o, m) ==
    IF HeadFmt(o, m) = 3 THEN o.ext
    ELSE IF HeadTime(o, m) >= ExtMark THEN 4 ELSE 0

\* Fault: a fmt 0 head registers the delta, not the absolute timestamp.
FaultDeltaAfterFmt0(o, m) ==
    [primed |-> TRUE, type |-> m.type, msid |-> m.msid, len |-> Len(m.payload),
     ts |-> m.ts, delta |-> WrapSub(m.ts, o.ts), ext |-> HeadExt(o, m)]

\* The state write_message commits once the message is written.
Committed(o, m) ==
    [primed |-> TRUE, type |-> m.type, msid |-> m.msid, len |-> Len(m.payload),
     ts |-> m.ts, delta |-> HeadTime(o, m), ext |-> HeadExt(o, m)]

\* One turn of write_message's loop: the chunk on csid c with header format fmt
\* that carries f.msg's payload from f.off on.
ChunkOf(c, f, fmt) ==
    [csid   |-> c,
     fmt    |-> fmt,
     field  |-> IF fmt = 3 THEN 0 ELSE IF f.hdr.ext = 4 THEN ExtMark ELSE f.extval,
     len    |-> Len(f.msg.payload) % LenMod,
     type   |-> f.msg.type,
     msid   |-> f.msg.msid,
     ext    |-> f.hdr.ext,
     extval |-> f.extval,
     data   |-> SubSeq(f.msg.payload, f.off + 1,
                       Lesser(f.off + writer.size, Len(f.msg.payload)))]

\* The writer after that chunk: a message that is complete is committed, and
\* every caller that writes a SetChunkSize adopts the size right after it.
WriterAfter(c, f) ==
    LET end == Lesser(f.off + writer.size, Len(f.msg.payload)) IN
    IF end < Len(f.msg.payload)
    THEN [hdr    |-> writer.hdr,
          flight |-> [writer.flight EXCEPT ![c] = [f EXCEPT !.off = end]],
          size   |-> writer.size]
    ELSE [hdr    |-> [writer.hdr EXCEPT ![c] = f.hdr],
          flight |-> [writer.flight EXCEPT ![c] = Idle],
          size   |-> IF f.msg.type = SetChunkSizeType
                     THEN Clamp(SizeIn[f.msg.payload]) ELSE writer.size]

\* The reader state that matches writer w: what a peer must believe to decode
\* the next chunk.  History only; no code computes it.
Mirror(w) ==
    [hdr |-> [c \in Csid |-> IF w.flight[c] = Idle THEN w.hdr[c] ELSE w.flight[c].hdr],
     partial |-> [c \in Csid |->
                    IF w.flight[c] = Idle THEN <<>>
                    ELSE SubSeq(w.flight[c].msg.payload, 1, w.flight[c].off)],
     size |-> w.size]

Write(c, f, fmt) ==
    /\ writer' = WriterAfter(c, f)
    /\ wire' = Append(wire, ChunkOf(c, f, fmt))
    /\ sent' = IF WriterAfter(c, f).flight[c] = Idle THEN Append(sent, f.msg) ELSE sent
    /\ expect' = Append(expect, [view |-> Mirror(WriterAfter(c, f)), got |-> Len(sent')])
    /\ UNCHANGED <<reader, phase, delivered>>

\* Fault: a loop that runs while payload is left writes no chunk at all for an
\* empty message.
FaultEmptyWritesNothing(c, m) ==
    /\ IF Interleaving THEN writer.flight[c] = Idle
       ELSE \A d \in Csid : writer.flight[d] = Idle
    /\ LET o == writer.hdr[c]
           f == [msg |-> m, hdr |-> Committed(o, m), extval |-> HeadTime(o, m), off |-> 0]
       IN  IF m.payload = <<>>
           THEN /\ writer' = WriterAfter(c, f)
                /\ sent' = Append(sent, m)
                /\ UNCHANGED <<reader, phase, wire, delivered, expect>>
           ELSE Write(c, f, HeadFmt(o, m))

\* write_message(c, m), up to its first chunk.
WriteHead(c, m) ==
    /\ IF Interleaving THEN writer.flight[c] = Idle
       ELSE \A d \in Csid : writer.flight[d] = Idle
    /\ LET o == writer.hdr[c]
           f == [msg |-> m, hdr |-> Committed(o, m), extval |-> HeadTime(o, m), off |-> 0]
       IN  Write(c, f, HeadFmt(o, m))

\* write_message's next fmt 3 continuation chunk.
WriteContinuation(c) ==
    /\ writer.flight[c] # Idle
    /\ Write(c, writer.flight[c], 3)

-----------------------------------------------------------------------------
(* The reader. *)

\* The extended-timestamp bytes read after the header of chunk k: announced by
\* the field of a fmt 0..2 chunk, remembered in h for a fmt 3 chunk.
ExtRead(h, k) ==
    IF k.fmt = 3 THEN h.ext ELSE IF k.field = ExtMark THEN 4 ELSE 0

\* Fault: a fmt 3 head repeats the previous timestamp verbatim.
FaultFmt3RepeatsTime(h, partial, k) ==
    LET time == IF k.field = ExtMark THEN k.extval ELSE k.field IN
    [primed |-> TRUE,
     type   |-> IF k.fmt \in {0, 1} THEN k.type ELSE h.type,
     msid   |-> IF k.fmt = 0 THEN k.msid ELSE h.msid,
     len    |-> IF k.fmt \in {0, 1} THEN k.len ELSE h.len,
     ts     |-> IF k.fmt = 0 THEN time
                ELSE IF k.fmt = 3 THEN h.ts ELSE WrapAdd(h.ts, time),
     delta  |-> IF k.fmt = 3 THEN h.delta ELSE time,
     ext    |-> ExtRead(h, k)]

\* The header a chunk leaves behind when read against header h of its csid: each
\* format carries some fields and takes the others from h.  A fmt 3 chunk that
\* finds no partial payload starts a message one delta later.
HeaderRead(h, partial, k) ==
    LET time == IF k.field = ExtMark THEN k.extval ELSE k.field IN
    [primed |-> TRUE,
     type   |-> IF k.fmt \in {0, 1} THEN k.type ELSE h.type,
     msid   |-> IF k.fmt = 0 THEN k.msid ELSE h.msid,
     len    |-> IF k.fmt \in {0, 1} THEN k.len ELSE h.len,
     ts     |-> IF k.fmt = 0 THEN time
                ELSE IF k.fmt # 3 THEN WrapAdd(h.ts, time)
                ELSE IF partial = <<>> THEN WrapAdd(h.ts, h.delta) ELSE h.ts,
     delta  |-> IF k.fmt = 3 THEN h.delta ELSE time,
     ext    |-> ExtRead(h, k)]

\* The header can be read and is as long as the writer made it.
HeaderFits(r, k) ==
    /\ k.fmt = 0 \/ r.hdr[k.csid].primed
    /\ k.ext = ExtRead(r.hdr[k.csid], k)

\* read_basic_header and read_fmt0..3_header.
AfterHeader(r, k) ==
    [hdr     |-> [r.hdr EXCEPT ![k.csid] = HeaderRead(@, r.partial[k.csid], k)],
     partial |-> [r.partial EXCEPT ![k.csid] = IF k.fmt = 3 THEN @ ELSE <<>>],
     size    |-> r.size]

\* `take`: the payload bytes read_message asks for.
Take(r, k) == Lesser(r.hdr[k.csid].len - Len(r.partial[k.csid]), r.size)

Reassembled(r, k) == r.partial[k.csid] \o k.data

Completes(r, k) == Len(Reassembled(r, k)) >= r.hdr[k.csid].len

\* The Message read_message returns.
MessageOf(r, k) ==
    [type |-> r.hdr[k.csid].type, msid |-> r.hdr[k.csid].msid,
     ts |-> r.hdr[k.csid].ts, payload |-> Reassembled(r, k)]

\* The reader after the payload, and after the session's handler when a
\* SetChunkSize is complete.
AfterPayload(r, k) ==
    [hdr     |-> r.hdr,
     partial |-> [r.partial EXCEPT ![k.csid] =
                    IF Completes(r, k) THEN <<>> ELSE Reassembled(r, k)],
     size    |-> IF Completes(r, k) /\ r.hdr[k.csid].type = SetChunkSizeType
                 THEN Clamp(SizeIn[Reassembled(r, k)]) ELSE r.size]

ReadHeader ==
    /\ phase = "boundary" /\ wire # <<>>
    /\ IF HeaderFits(reader, Head(wire))
       THEN /\ phase' = "payload"
            /\ reader' = AfterHeader(reader, Head(wire))
       ELSE /\ phase' = "misframed"
            /\ UNCHANGED reader
    /\ UNCHANGED <<writer, wire, sent, delivered, expect>>

ReadPayload ==
    /\ phase = "payload"
    /\ LET k == Head(wire) IN
       IF Take(reader, k) = Len(k.data)
       THEN /\ phase' = "boundary"
            /\ reader' = AfterPayload(reader, k)
            /\ delivered' = IF Completes(reader, k)
                            THEN Append(delivered, MessageOf(reader, k)) ELSE delivered
            /\ wire' = Tail(wire) /\ expect' = Tail(expect)
       ELSE /\ phase' = "misframed"
            /\ UNCHANGED <<reader, delivered, wire, expect>>
    /\ UNCHANGED <<writer, sent>>

\* The payload is not there when the socket's read timeout ends: read_message
\* returns WouldBlock.  The header is consumed and already applied to the
\* csid's state; csid and take were locals of the call and are gone.
TimeoutBeforePayload ==
    /\ ReadTimeouts
    /\ phase = "payload" /\ Head(wire).data # <<>>
    /\ phase' = "torn"
    /\ UNCHANGED <<writer, reader, wire, sent, delivered, expect>>

\* The session retries: read_basic_header takes a payload byte for a header.
RetryAfterTimeout ==
    /\ phase = "torn"
    /\ phase' = "misframed"
    /\ UNCHANGED <<writer, reader, wire, sent, delivered, expect>>

-----------------------------------------------------------------------------
\* The messages written or being written: MaxMessages bounds them.
Begun == Len(sent) + Cardinality({c \in Csid : writer.flight[c] # Idle})

Writes ==
    \/ \E t \in Traffic : Begun < MaxMessages /\ WriteHead(t[1], t[2])
    \/ \E c \in Csid : WriteContinuation(c)

Reads == ReadHeader \/ ReadPayload \/ TimeoutBeforePayload \/ RetryAfterTimeout

Next == Writes \/ Reads

Spec == Init /\ [][Next]_vars

\* The session's thread sits in read_message, and a write_message call that has
\* started runs to its end: each is scheduled whenever it can move.
FairSpec ==
    /\ Spec
    /\ WF_vars(ReadHeader \/ ReadPayload)
    /\ \A c \in Csid : WF_vars(WriteContinuation(c))

-----------------------------------------------------------------------------
(* Properties. *)

\* The writer's and the reader's records, and what may stand on the wire.
TypeOK ==
    /\ writer \in [hdr : [Csid -> Header], flight : [Csid -> Flight \cup {Idle}],
                   size : 1 .. MaxChunkSize]
    /\ reader \in [hdr : [Csid -> Header], partial : [Csid -> Seq(Byte)],
                   size : 1 .. MaxChunkSize]
    /\ phase \in Phase
    /\ wire \in Seq(Chunk)
    /\ sent \in Seq(Message) /\ delivered \in Seq(Message)
    /\ expect \in Seq([view : [hdr : [Csid -> Header], partial : [Csid -> Seq(Byte)],
                               size : 1 .. MaxChunkSize],
                       got : Nat])

\* The reader never takes bytes for what they are not: for every chunk, the
\* presence of the extended timestamp and the payload length that the reader
\* derives from its per-csid state and its chunk size (read_fmt3_header,
\* read_message's `take`) are those write_message put on the wire.
FramingAgrees == phase # "misframed"

\* The framing is lost in one way only: a read timeout ends a read_message call
\* between a chunk's header and its payload (read_exact_counted's error path),
\* and the session retries.
OnlyTimeoutsTear == [][phase' = "misframed" => phase = "torn"]_phase

\* read_message returns what write_message was given, in that order: type,
\* stream id, timestamp and payload, whatever header format, delta, extended
\* timestamp, chunk size and interleaving of csids carried it.
DeliveredInOrder ==
    /\ Len(delivered) <= Len(sent)
    /\ delivered = SubSeq(sent, 1, Len(delivered))

\* Reading chunk k in state r of the reader yields the state and the count of
\* messages that e expects, and a message it completes is the one sent.
Replays(r, k, e) ==
    LET h == AfterHeader(r, k) IN
    /\ HeaderFits(r, k)
    /\ Take(h, k) = Len(k.data)
    /\ AfterPayload(h, k) = e.view
    /\ Completes(h, k) => e.got \in 1 .. Len(sent) /\ MessageOf(h, k) = sent[e.got]

\* The number of messages delivered once chunk k is read in state r.
GotAfter(r, k, got) == got + (IF Completes(AfterHeader(r, k), k) THEN 1 ELSE 0)

\* What makes the promise hold: decoding the chunks on the wire one after the
\* other takes the reader from its present state to the one that mirrors the
\* writer.  At the start of a message whose csid is idle both keep the same
\* header state; in the middle of one the reader's is what the writer is about
\* to commit.
WireLeadsToWriter ==
    /\ Len(expect) = Len(wire)
    /\ wire = <<>> =>
          /\ reader = Mirror(writer)
          /\ Len(delivered) = Len(sent)
    /\ wire # <<>> =>
          /\ expect[Len(wire)].view = Mirror(writer)
          /\ expect[Len(wire)].got = Len(sent)
          /\ phase = "boundary" =>
                /\ Replays(reader, wire[1], expect[1])
                /\ expect[1].got = GotAfter(reader, wire[1], Len(delivered))
    /\ \A i \in 1 .. Len(wire) - 1 :
          /\ Replays(expect[i].view, wire[i + 1], expect[i + 1])
          /\ expect[i + 1].got = GotAfter(expect[i].view, wire[i + 1], expect[i].got)

\* The abstract channel, under the identity mapping of the two histories.
Pipe == INSTANCE MessagePipe
PipeSpec == Pipe!Spec

\* Every message whose last chunk was written is returned by some later
\* read_message call, unless a read timeout has torn a chunk.
EventuallyDelivered ==
    \A n \in 1 .. MaxMessages :
        Len(sent) >= n ~> Len(delivered) >= n \/ phase \in {"torn", "misframed"}
=============================================================================
