------------------------- MODULE ChunkStreamProofs -------------------------
(***************************************************************************)
(* Proofs about ChunkStream for every set of csids and bytes, every width  *)
(* of the timestamp and length fields, every chunk size and every traffic  *)
(* that fits: the reader never loses the framing and returns the messages  *)
(* sent, in order.                                                         *)
(***************************************************************************)
EXTENDS ChunkStream, TLAPS, SequenceTheorems

\* u32 wrapping arithmetic: a forward delta added back gives the timestamp.
LEMMA WrapRoundTrip ==
    ASSUME NEW a \in Timestamp, NEW b \in Timestamp
    PROVE  /\ WrapAdd(a, b) \in Timestamp
           /\ WrapSub(a, b) \in Timestamp
           /\ b <= a => WrapSub(a, b) = a - b
           /\ b <= a => WrapAdd(b, WrapSub(a, b)) = a
<1>1. WrapAdd(a, b) \in Timestamp /\ WrapSub(a, b) \in Timestamp
  BY WireFormat DEF WrapAdd, WrapSub, Timestamp
<1>2. ASSUME b <= a PROVE WrapSub(a, b) = a - b
  BY <1>2, WireFormat DEF WrapSub, Timestamp
<1>3. ASSUME b <= a PROVE WrapAdd(b, WrapSub(a, b)) = a
  BY <1>2, <1>3, WireFormat DEF WrapAdd, Timestamp
<1> QED BY <1>1, <1>2, <1>3

\* A length below 2^24 is what the length field holds.
LEMMA FitsLengthField ==
    ASSUME NEW n \in Nat, n < LenMod
    PROVE  n % LenMod = n
BY WireFormat

\* set_chunk_size never leaves a size of zero or above the maximum.
LEMMA ClampInRange ==
    ASSUME NEW n \in Nat
    PROVE  Clamp(n) \in 1 .. MaxChunkSize
BY WireFormat DEF Clamp, Lesser

\* What write_message decides about a head chunk is well typed.
LEMMA HeadTyped ==
    ASSUME NEW o \in Header, NEW m \in Message
    PROVE  /\ HeadFmt(o, m) \in 0 .. 3
           /\ HeadTime(o, m) \in Timestamp
           /\ HeadExt(o, m) \in ExtBytes
           /\ Committed(o, m) \in Header
<1>1. HeadFmt(o, m) \in 0 .. 3
  BY DEF HeadFmt
<1>2. HeadTime(o, m) \in Timestamp
  BY WrapRoundTrip DEF HeadTime, Header, Message
<1>3. HeadExt(o, m) \in ExtBytes
  BY DEF HeadExt, Header, ExtBytes
<1>4. Committed(o, m) \in Header
  BY <1>2, <1>3 DEF Committed, Header, Message
<1> QED BY <1>1, <1>2, <1>3, <1>4

\* The heart of header compression: read_fmt0..3_header, applied to the state
\* the previous message of the csid left, rebuilds what write_message commits,
\* and expects the extended timestamp exactly when it is there.
LEMMA HeadDecodes ==
    ASSUME NEW o \in Header, NEW m \in Message, NEW k \in Chunk,
           Len(m.payload) < LenMod,
           k.fmt = HeadFmt(o, m),
           k.ext = HeadExt(o, m),
           k.extval = HeadTime(o, m),
           k.fmt # 3 => k.field = IF HeadExt(o, m) = 4 THEN ExtMark ELSE HeadTime(o, m),
           k.len = Len(m.payload) % LenMod, k.type = m.type, k.msid = m.msid
    PROVE  /\ k.fmt = 0 \/ o.primed
           /\ k.ext = ExtRead(o, k)
           /\ HeaderRead(o, <<>>, k) = Committed(o, m)
<1>1. k.len = Len(m.payload)
  BY WireFormat DEF Message
<1> DEFINE time == IF k.field = ExtMark THEN k.extval ELSE k.field
<1>2. k.fmt # 3 => /\ ExtRead(o, k) = HeadExt(o, m)
                   /\ time = HeadTime(o, m)
  BY HeadTyped, WireFormat DEF HeadExt, ExtRead, Timestamp
<1> DEFINE record(ty, id, ln, at, dt, ex) ==
             [primed |-> TRUE, type |-> ty, msid |-> id, len |-> ln,
              ts |-> at, delta |-> dt, ext |-> ex]
<1>c. Committed(o, m) = record(m.type, m.msid, Len(m.payload), m.ts,
                               HeadTime(o, m), HeadExt(o, m))
  BY DEF Committed
<1>3. ASSUME k.fmt = 0 PROVE HeaderRead(o, <<>>, k) = Committed(o, m)
  <2>1. HeaderRead(o, <<>>, k) = record(k.type, k.msid, k.len, time, time, ExtRead(o, k))
    BY <1>3 DEF HeaderRead
  <2>2. HeadTime(o, m) = m.ts
    BY <1>3 DEF HeadTime
  <2>3. time = m.ts /\ ExtRead(o, k) = HeadExt(o, m) /\ k.len = Len(m.payload)
    BY <1>1, <1>2, <1>3, <2>2
  <2> QED BY <1>c, <2>1, <2>2, <2>3
<1>4. ASSUME k.fmt # 0 PROVE HeaderRead(o, <<>>, k) = Committed(o, m)
  <2>1. o.msid = m.msid /\ o.ts <= m.ts
    BY <1>4 DEF HeadFmt, Header, Message, Timestamp
  <2>2. WrapAdd(o.ts, HeadTime(o, m)) = m.ts
    BY <1>4, <2>1, WrapRoundTrip DEF HeadTime, Header, Message
  <2>3. ASSUME k.fmt = 1 PROVE HeaderRead(o, <<>>, k) = Committed(o, m)
    <3>1. HeaderRead(o, <<>>, k) =
            record(k.type, o.msid, k.len, WrapAdd(o.ts, time), time, ExtRead(o, k))
      BY <2>3 DEF HeaderRead
    <3>2. time = HeadTime(o, m) /\ ExtRead(o, k) = HeadExt(o, m) /\ k.len = Len(m.payload)
      BY <1>1, <1>2, <2>3
    <3> QED BY <1>c, <2>1, <2>2, <3>1, <3>2
  <2>4. ASSUME k.fmt = 2 PROVE HeaderRead(o, <<>>, k) = Committed(o, m)
    <3>1. HeaderRead(o, <<>>, k) =
            record(o.type, o.msid, o.len, WrapAdd(o.ts, time), time, ExtRead(o, k))
      BY <2>4 DEF HeaderRead
    <3>2. time = HeadTime(o, m) /\ ExtRead(o, k) = HeadExt(o, m)
      BY <1>2, <2>4
    <3>3. o.type = m.type /\ o.len = Len(m.payload)
      BY <2>4 DEF HeadFmt
    <3> QED BY <1>c, <2>1, <2>2, <3>1, <3>2, <3>3
  <2>5. ASSUME k.fmt = 3 PROVE HeaderRead(o, <<>>, k) = Committed(o, m)
    <3>1. HeaderRead(o, <<>>, k) =
            record(o.type, o.msid, o.len, WrapAdd(o.ts, o.delta), o.delta, o.ext)
      BY <2>5 DEF HeaderRead, ExtRead
    <3>2. o.delta = HeadTime(o, m) /\ o.ext = HeadExt(o, m)
      BY <2>5 DEF HeadFmt, HeadTime, HeadExt
    <3>3. o.type = m.type /\ o.len = Len(m.payload)
      BY <2>5 DEF HeadFmt
    <3> QED BY <1>c, <2>1, <2>2, <3>1, <3>2, <3>3
  <2>6. k.fmt = 1 \/ k.fmt = 2 \/ k.fmt = 3
    BY <1>4 DEF Chunk
  <2> QED BY <2>3, <2>4, <2>5, <2>6, Zenon
<1>5. k.fmt = 0 \/ o.primed
  BY Zenon DEF HeadFmt
<1>6. k.ext = ExtRead(o, k)
  BY <1>2 DEF ExtRead, HeadExt
<1> QED BY <1>3, <1>4, <1>5, <1>6, Zenon

-----------------------------------------------------------------------------
\* A write_message call in progress: its message is one of the traffic's, some
\* but not all of its payload is written, and the state it will commit is the
\* message's.
FlightOf(c, f) ==
    /\ f \in Flight
    /\ <<c, f.msg>> \in Traffic
    /\ f.hdr.primed = TRUE /\ f.hdr.type = f.msg.type /\ f.hdr.msid = f.msg.msid
    /\ f.hdr.len = Len(f.msg.payload) /\ f.hdr.ts = f.msg.ts

FlightsOKIn(w) ==
    \A c \in Csid : w.flight[c] # Idle =>
        /\ FlightOf(c, w.flight[c])
        /\ w.flight[c].off \in 1 .. Len(w.flight[c].msg.payload) - 1

FlightsOK == FlightsOKIn(writer)

\* The first bytes of a payload.
LEMMA PrefixProperties ==
    ASSUME NEW p \in Seq(Byte), NEW off \in 0 .. Len(p)
    PROVE  /\ SubSeq(p, 1, off) \in Seq(Byte)
           /\ Len(SubSeq(p, 1, off)) = off
BY SubSeqProperties

\* Where a chunk of at most `size` bytes from `off` on ends.
LEMMA EndProperties ==
    ASSUME NEW n \in Nat, NEW off \in 0 .. n, NEW size \in Nat \ {0}
    PROVE  /\ Lesser(off + size, n) \in off .. n
           /\ off < n => off < Lesser(off + size, n)
           /\ Lesser(off + size, n) - off = Lesser(n - off, size)
BY DEF Lesser

\* A slice of a payload, and the prefix it extends.
LEMMA SliceProperties ==
    ASSUME NEW p \in Seq(Byte), NEW off \in 0 .. Len(p), NEW end \in off .. Len(p)
    PROVE  /\ SubSeq(p, off + 1, end) \in Seq(Byte)
           /\ Len(SubSeq(p, off + 1, end)) = end - off
           /\ Len(SubSeq(p, 1, end)) = end
           /\ SubSeq(p, 1, off) \o SubSeq(p, off + 1, end) = SubSeq(p, 1, end)
           /\ end = Len(p) => SubSeq(p, 1, end) = p
<1>1. SubSeq(p, off + 1, end) \in Seq(Byte) /\ Len(SubSeq(p, off + 1, end)) = end - off
  BY SubSeqProperties
<1>2. Len(SubSeq(p, 1, end)) = end
  BY SubSeqProperties
<1>3. SubSeq(p, 1, off) \o SubSeq(p, off + 1, end) = SubSeq(p, 1, end)
  BY ConcatAdjacentSubSeq
<1>4. SubSeq(p, 1, Len(p)) = p
  BY SubSeqFull
<1> QED BY <1>1, <1>2, <1>3, <1>4

WriterType == [hdr : [Csid -> Header], flight : [Csid -> Flight \cup {Idle}],
               size : 1 .. MaxChunkSize]

ReaderType == [hdr : [Csid -> Header], partial : [Csid -> Seq(Byte)],
               size : 1 .. MaxChunkSize]

\* The reader state that mirrors a writer, field by field.
LEMMA MirrorTyped ==
    ASSUME NEW w \in WriterType, FlightsOKIn(w)
    PROVE  /\ Mirror(w) \in ReaderType
           /\ \A c \in Csid : w.flight[c] = Idle =>
                 /\ Mirror(w).hdr[c] = w.hdr[c]
                 /\ Mirror(w).partial[c] = <<>>
           /\ \A c \in Csid : w.flight[c] # Idle =>
                 /\ Mirror(w).hdr[c] = w.flight[c].hdr
                 /\ Mirror(w).partial[c] =
                      SubSeq(w.flight[c].msg.payload, 1, w.flight[c].off)
           /\ Mirror(w).size = w.size
<1>1. ASSUME NEW c \in Csid, w.flight[c] # Idle
      PROVE  /\ w.flight[c].hdr \in Header
             /\ SubSeq(w.flight[c].msg.payload, 1, w.flight[c].off) \in Seq(Byte)
  <2>1. /\ w.flight[c].msg.payload \in Seq(Byte)
        /\ w.flight[c].hdr \in Header
        /\ w.flight[c].off \in 0 .. Len(w.flight[c].msg.payload)
    <3>1. /\ w.flight[c] \in Flight
          /\ w.flight[c].off \in 1 .. Len(w.flight[c].msg.payload) - 1
      BY <1>1, Zenon DEF FlightsOKIn, FlightOf
    <3>2. w.flight[c].hdr \in Header /\ w.flight[c].msg \in Message
      BY <3>1 DEF Flight
    <3>3. w.flight[c].msg.payload \in Seq(Byte)
      BY <3>2 DEF Message
    <3> QED BY <3>1, <3>2, <3>3
  <2> QED BY <2>1, PrefixProperties
<1>2. /\ w.hdr \in [Csid -> Header] /\ w.size \in 1 .. MaxChunkSize
      /\ <<>> \in Seq(Byte)
  BY DEF WriterType
<1>3. Mirror(w).hdr \in [Csid -> Header]
  BY <1>1, <1>2 DEF Mirror
<1>4. Mirror(w).partial \in [Csid -> Seq(Byte)]
  BY <1>1, <1>2 DEF Mirror
<1>5. Mirror(w) = [hdr |-> Mirror(w).hdr, partial |-> Mirror(w).partial, size |-> w.size]
  BY DEF Mirror
<1>6. Mirror(w) \in ReaderType
  BY <1>2, <1>3, <1>4, <1>5 DEF ReaderType
<1> QED BY <1>6 DEF Mirror

\* What TypeOK and FlightsOK say of the present writer.
LEMMA WriterMirror ==
    ASSUME TypeOK, FlightsOK
    PROVE  /\ Mirror(writer).hdr \in [Csid -> Header]
           /\ Mirror(writer).partial \in [Csid -> Seq(Byte)]
           /\ \A c \in Csid : writer.flight[c] = Idle =>
                 /\ Mirror(writer).hdr[c] = writer.hdr[c]
                 /\ Mirror(writer).partial[c] = <<>>
           /\ \A c \in Csid : writer.flight[c] # Idle =>
                 /\ Mirror(writer).hdr[c] = writer.flight[c].hdr
                 /\ Mirror(writer).partial[c] =
                      SubSeq(writer.flight[c].msg.payload, 1, writer.flight[c].off)
           /\ Mirror(writer).size = writer.size
<1>1. writer \in WriterType /\ FlightsOKIn(writer)
  BY DEF TypeOK, WriterType, FlightsOK
<1>2. Mirror(writer) \in ReaderType
  BY <1>1, MirrorTyped
<1>3. /\ Mirror(writer).hdr \in [Csid -> Header]
      /\ Mirror(writer).partial \in [Csid -> Seq(Byte)]
  BY <1>2 DEF ReaderType
<1> QED BY <1>1, <1>3, MirrorTyped, Zenon

\* What a session's write_message call does with its next chunk: it starts a
\* message on an idle csid or continues the one in progress.
MayWrite(c, f, fmt) ==
    /\ c \in Csid /\ fmt \in 0 .. 3
    /\ FlightOf(c, f)
    /\ \/ /\ writer.flight[c] = Idle
          /\ f.off = 0
          /\ f.hdr = Committed(writer.hdr[c], f.msg)
          /\ f.extval = HeadTime(writer.hdr[c], f.msg)
          /\ fmt = HeadFmt(writer.hdr[c], f.msg)
       \/ /\ writer.flight[c] = f
          /\ f.off \in 1 .. Len(f.msg.payload) - 1
          /\ fmt = 3

\* The chunk on the wire is well typed.
LEMMA ChunkTyped ==
    ASSUME TypeOK, NEW c, NEW f, NEW fmt, MayWrite(c, f, fmt)
    PROVE  /\ ChunkOf(c, f, fmt) \in Chunk
           /\ f.msg \in Message /\ f.msg.payload \in Seq(Byte)
           /\ Len(f.msg.payload) < LenMod
           /\ f.off \in 0 .. Len(f.msg.payload)
           /\ writer.size \in Nat \ {0}
<1>1. f \in Flight /\ f.msg \in Message /\ f.msg.payload \in Seq(Byte)
  BY DEF MayWrite, FlightOf, Flight, Message
<1>2. Len(f.msg.payload) < LenMod
  BY TrafficFits DEF MayWrite, FlightOf
<1>3. f.off \in 0 .. Len(f.msg.payload)
  BY <1>1 DEF MayWrite
<1>4. writer.size \in Nat \ {0}
  BY DEF TypeOK
<1>5. SubSeq(f.msg.payload, f.off + 1,
             Lesser(f.off + writer.size, Len(f.msg.payload))) \in Seq(Byte)
  <2>1. Len(f.msg.payload) \in Nat
    BY <1>1
  <2>2. Lesser(f.off + writer.size, Len(f.msg.payload)) \in f.off .. Len(f.msg.payload)
    BY <2>1, <1>3, <1>4, EndProperties
  <2> QED BY <1>1, <1>3, <2>2, SliceProperties
<1>6. f.hdr.ext \in ExtBytes /\ f.extval \in Timestamp
  <2>1. f.hdr \in Header /\ f.extval \in Timestamp
    BY <1>1 DEF Flight
  <2> QED BY <2>1 DEF Header
<1>7. Len(f.msg.payload) % LenMod \in Nat
  <2>1. Len(f.msg.payload) \in Nat
    BY <1>1
  <2> QED BY <1>2, <2>1, FitsLengthField
<1>8. (IF fmt = 3 THEN 0 ELSE IF f.hdr.ext = 4 THEN ExtMark ELSE f.extval) \in 0 .. ExtMark
  <2>1. CASE fmt = 3
    BY <2>1, WireFormat
  <2>2. CASE fmt # 3
    <3>1. writer.hdr[c] \in Header
      BY DEF MayWrite, TypeOK
    <3>2. f.hdr.ext = HeadExt(writer.hdr[c], f.msg) /\ f.extval = HeadTime(writer.hdr[c], f.msg)
          /\ fmt = HeadFmt(writer.hdr[c], f.msg)
      BY <2>2 DEF MayWrite, Committed
    <3>3. f.hdr.ext # 4 => f.extval < ExtMark
      BY <2>2, <3>2, <1>6, WireFormat DEF HeadExt, Timestamp
    <3> QED BY <2>2, <3>3, <1>6, WireFormat DEF Timestamp
  <2> QED BY <2>1, <2>2
<1>9. f.msg.type \in Nat /\ f.msg.msid \in Nat
  BY <1>1 DEF Message
<1>10. c \in Csid /\ fmt \in 0 .. 3
  BY DEF MayWrite
<1> QED BY <1>1, <1>2, <1>3, <1>4, <1>5, <1>6, <1>7, <1>8, <1>9, <1>10 DEF ChunkOf, Chunk

\* A writer that ends the message of one csid, or moves on in it: only that
\* csid's mirror changes.
LEMMA MirrorEnd ==
    ASSUME TypeOK, NEW c \in Csid, NEW hd, NEW size
    PROVE  Mirror([hdr    |-> [writer.hdr EXCEPT ![c] = hd],
                   flight |-> [writer.flight EXCEPT ![c] = Idle],
                   size   |-> size]) =
              [hdr     |-> [Mirror(writer).hdr EXCEPT ![c] = hd],
               partial |-> [Mirror(writer).partial EXCEPT ![c] = <<>>],
               size    |-> size]
<1> DEFINE flight == [writer.flight EXCEPT ![c] = Idle]
           hdr == [writer.hdr EXCEPT ![c] = hd]
<1>1. /\ flight[c] = Idle /\ \A d \in Csid : d # c => flight[d] = writer.flight[d]
      /\ hdr[c] = hd /\ \A d \in Csid : d # c => hdr[d] = writer.hdr[d]
  BY DEF TypeOK
<1> HIDE DEF flight, hdr
<1>2. [d \in Csid |-> IF flight[d] = Idle THEN hdr[d] ELSE flight[d].hdr]
        = [[d \in Csid |-> IF writer.flight[d] = Idle THEN writer.hdr[d]
                           ELSE writer.flight[d].hdr] EXCEPT ![c] = hd]
  BY <1>1
<1>3. [d \in Csid |-> IF flight[d] = Idle THEN <<>>
                      ELSE SubSeq(flight[d].msg.payload, 1, flight[d].off)]
        = [[d \in Csid |-> IF writer.flight[d] = Idle THEN <<>>
                           ELSE SubSeq(writer.flight[d].msg.payload, 1, writer.flight[d].off)]
             EXCEPT ![c] = <<>>]
  BY <1>1
<1> QED BY <1>2, <1>3 DEF Mirror, flight, hdr

LEMMA MirrorMove ==
    ASSUME TypeOK, NEW c \in Csid, NEW g, g # Idle
    PROVE  Mirror([hdr    |-> writer.hdr,
                   flight |-> [writer.flight EXCEPT ![c] = g],
                   size   |-> writer.size]) =
              [hdr     |-> [Mirror(writer).hdr EXCEPT ![c] = g.hdr],
               partial |-> [Mirror(writer).partial EXCEPT
                              ![c] = SubSeq(g.msg.payload, 1, g.off)],
               size    |-> writer.size]
<1> DEFINE flight == [writer.flight EXCEPT ![c] = g]
<1>1. flight[c] = g /\ \A d \in Csid : d # c => flight[d] = writer.flight[d]
  BY DEF TypeOK
<1> HIDE DEF flight
<1>2. [d \in Csid |-> IF flight[d] = Idle THEN writer.hdr[d] ELSE flight[d].hdr]
        = [[d \in Csid |-> IF writer.flight[d] = Idle THEN writer.hdr[d]
                           ELSE writer.flight[d].hdr] EXCEPT ![c] = g.hdr]
  BY <1>1
<1>3. [d \in Csid |-> IF flight[d] = Idle THEN <<>>
                      ELSE SubSeq(flight[d].msg.payload, 1, flight[d].off)]
        = [[d \in Csid |-> IF writer.flight[d] = Idle THEN <<>>
                           ELSE SubSeq(writer.flight[d].msg.payload, 1, writer.flight[d].off)]
             EXCEPT ![c] = SubSeq(g.msg.payload, 1, g.off)]
  BY <1>1
<1> QED BY <1>2, <1>3 DEF Mirror, flight

\* The header of that chunk, read in the state that mirrors the writer, is as
\* long as the reader expects and leaves the header of the message's flight.
LEMMA HeaderReplays ==
    ASSUME TypeOK, FlightsOK, NEW c, NEW f, NEW fmt, MayWrite(c, f, fmt)
    PROVE  /\ HeaderFits(Mirror(writer), ChunkOf(c, f, fmt))
           /\ AfterHeader(Mirror(writer), ChunkOf(c, f, fmt)) =
                [hdr     |-> [Mirror(writer).hdr EXCEPT ![c] = f.hdr],
                 partial |-> [Mirror(writer).partial EXCEPT
                                ![c] = SubSeq(f.msg.payload, 1, f.off)],
                 size    |-> Mirror(writer).size]
<1> DEFINE r == Mirror(writer)
           k == ChunkOf(c, f, fmt)
           pre == SubSeq(f.msg.payload, 1, f.off)
<1>1. c \in Csid /\ fmt \in 0 .. 3 /\ f \in Flight
  BY DEF MayWrite, FlightOf
<1>2. /\ k \in Chunk /\ k.csid = c /\ k.fmt = fmt /\ k.ext = f.hdr.ext
      /\ k.extval = f.extval /\ k.len = Len(f.msg.payload) % LenMod
      /\ k.type = f.msg.type /\ k.msid = f.msg.msid
      /\ k.field = IF fmt = 3 THEN 0 ELSE IF f.hdr.ext = 4 THEN ExtMark ELSE f.extval
  BY ChunkTyped DEF ChunkOf
<1> HIDE DEF r, k, pre
<1>4. f.msg \in Message /\ f.msg.payload \in Seq(Byte) /\ Len(f.msg.payload) < LenMod
  BY ChunkTyped
<1>5. /\ k.fmt = 0 \/ r.hdr[c].primed
      /\ k.ext = ExtRead(r.hdr[c], k)
      /\ HeaderRead(r.hdr[c], r.partial[c], k) = f.hdr
      /\ (IF k.fmt = 3 THEN r.partial[c] ELSE <<>>) = pre
  <2>1. CASE writer.flight[c] = Idle
    <3> DEFINE o == writer.hdr[c]
    <3>1. /\ f.off = 0
          /\ f.hdr = Committed(o, f.msg)
          /\ f.extval = HeadTime(o, f.msg)
          /\ fmt = HeadFmt(o, f.msg)
      BY <1>1, <2>1, IdleIsNoFlight DEF MayWrite
    <3>2. r.hdr[c] = o /\ r.partial[c] = <<>> /\ o \in Header
      BY <1>1, <2>1, WriterMirror DEF TypeOK, r
    <3>3. f.hdr.ext = HeadExt(o, f.msg)
      BY <3>1 DEF Committed
    <3> HIDE DEF o
    <3>4. /\ k.fmt = HeadFmt(o, f.msg)
          /\ k.ext = HeadExt(o, f.msg)
          /\ k.extval = HeadTime(o, f.msg)
          /\ k.fmt # 3 => k.field = IF HeadExt(o, f.msg) = 4 THEN ExtMark
                                    ELSE HeadTime(o, f.msg)
      BY <1>2, <3>1, <3>3
    <3>5. /\ k.fmt = 0 \/ o.primed
          /\ k.ext = ExtRead(o, k)
          /\ HeaderRead(o, <<>>, k) = Committed(o, f.msg)
      BY <1>2, <1>4, <3>2, <3>4, HeadDecodes, Zenon
    <3>6. pre = <<>>
      BY <1>4, <3>1 DEF pre
    <3>7. (IF k.fmt = 3 THEN r.partial[c] ELSE <<>>) = pre
      BY <3>2, <3>6
    <3> QED BY <3>1, <3>2, <3>5, <3>7, Zenon
  <2>2. CASE writer.flight[c] # Idle
    <3>1. writer.flight[c] = f /\ f.off \in 1 .. Len(f.msg.payload) - 1 /\ fmt = 3
      BY <2>2 DEF MayWrite
    <3>2. r.hdr[c] = f.hdr /\ r.partial[c] = pre
      BY <1>1, <2>2, <3>1, WriterMirror DEF r, pre
    <3>3. r.partial[c] # <<>>
      BY <1>4, <3>1, <3>2 DEF pre
    <3>4. f.hdr \in Header /\ f.hdr.primed = TRUE
      BY <1>1 DEF MayWrite, FlightOf, Flight
    <3>5. HeaderRead(f.hdr, r.partial[c], k) = f.hdr
      <4>1. HeaderRead(f.hdr, r.partial[c], k) =
              [primed |-> TRUE, type |-> f.hdr.type, msid |-> f.hdr.msid,
               len |-> f.hdr.len, ts |-> f.hdr.ts, delta |-> f.hdr.delta,
               ext |-> f.hdr.ext]
        BY <1>2, <3>1, <3>3 DEF HeaderRead, ExtRead
      <4> QED BY <3>4, <4>1 DEF Header
    <3>6. k.ext = ExtRead(r.hdr[c], k)
      BY <1>2, <3>1, <3>2 DEF ExtRead
    <3>7. r.hdr[c].primed
      BY <3>2, <3>4, Zenon
    <3>8. (IF k.fmt = 3 THEN r.partial[c] ELSE <<>>) = pre
      BY <1>2, <3>1, <3>2
    <3>9. HeaderRead(r.hdr[c], r.partial[c], k) = f.hdr
      BY <3>2, <3>5, Zenon
    <3> QED BY <3>6, <3>7, <3>8, <3>9, Zenon
  <2> QED BY <2>1, <2>2, Zenon
<1>6. /\ HeaderFits(r, k)
      /\ AfterHeader(r, k) = [hdr |-> [r.hdr EXCEPT ![c] = f.hdr],
                              partial |-> [r.partial EXCEPT ![c] = pre],
                              size |-> r.size]
  <2>1. HeaderFits(r, k)
    BY <1>2, <1>5, Zenon DEF HeaderFits
  <2>2. HeaderRead(r.hdr[c], r.partial[c], k) = f.hdr
    BY <1>5
  <2>3. (IF k.fmt = 3 THEN r.partial[c] ELSE <<>>) = pre
    BY <1>5
  <2>4. AfterHeader(r, k) =
          [hdr     |-> [r.hdr EXCEPT ![c] = HeaderRead(r.hdr[c], r.partial[c], k)],
           partial |-> [r.partial EXCEPT ![c] = IF k.fmt = 3 THEN r.partial[c] ELSE <<>>],
           size    |-> r.size]
    BY <1>2 DEF AfterHeader
  <2> QED BY <2>1, <2>2, <2>3, <2>4, Zenon
<1> QED BY <1>6, Zenon DEF r, k, pre

\* Its payload, read next, is as long as the reader asks for; it leaves the
\* mirror of the writer after the chunk, and completes the message exactly when
\* the writer's call is over.
LEMMA PayloadReplays ==
    ASSUME TypeOK, FlightsOK, NEW c, NEW f, NEW fmt, MayWrite(c, f, fmt),
           NEW k, k = ChunkOf(c, f, fmt),
           NEW h, h = AfterHeader(Mirror(writer), k),
           NEW w, w = WriterAfter(c, f)
    PROVE  /\ Take(h, k) = Len(k.data)
           /\ AfterPayload(h, k) = Mirror(w)
           /\ Completes(h, k) <=> w.flight[c] = Idle
           /\ Completes(h, k) => MessageOf(h, k) = f.msg
<1> DEFINE p == f.msg.payload
           end == Lesser(f.off + writer.size, Len(p))
<1>1. /\ c \in Csid /\ f \in Flight /\ f.msg \in Message /\ p \in Seq(Byte)
      /\ f.off \in 0 .. Len(p) /\ writer.size \in Nat \ {0} /\ Len(p) \in Nat
  <2>1. c \in Csid /\ f \in Flight
    BY DEF MayWrite, FlightOf
  <2>2. f.msg \in Message /\ p \in Seq(Byte) /\ f.off \in 0 .. Len(p) /\ writer.size \in Nat \ {0}
    BY ChunkTyped, Zenon
  <2> QED BY <2>1, <2>2
<1>2. /\ f.hdr.len = Len(p) /\ f.hdr.type = f.msg.type /\ f.hdr.msid = f.msg.msid
      /\ f.hdr.ts = f.msg.ts
  BY DEF MayWrite, FlightOf
<1>3. /\ Mirror(writer).hdr \in [Csid -> Header]
      /\ Mirror(writer).partial \in [Csid -> Seq(Byte)]
      /\ Mirror(writer).size = writer.size
  BY WriterMirror
<1>4. /\ writer.hdr \in [Csid -> Header]
      /\ writer.flight \in [Csid -> Flight \cup {Idle}]
  BY DEF TypeOK
<1>5. k.csid = c /\ k.data = SubSeq(p, f.off + 1, end)
  BY DEF ChunkOf
<1>6. h = [hdr     |-> [Mirror(writer).hdr EXCEPT ![c] = f.hdr],
           partial |-> [Mirror(writer).partial EXCEPT ![c] = SubSeq(p, 1, f.off)],
           size    |-> Mirror(writer).size]
  BY HeaderReplays, Zenon
<1>7. w = IF end < Len(p)
          THEN [hdr |-> writer.hdr,
                flight |-> [writer.flight EXCEPT ![c] = [f EXCEPT !.off = end]],
                size |-> writer.size]
          ELSE [hdr |-> [writer.hdr EXCEPT ![c] = f.hdr],
                flight |-> [writer.flight EXCEPT ![c] = Idle],
                size |-> IF f.msg.type = SetChunkSizeType
                         THEN Clamp(SizeIn[p]) ELSE writer.size]
  BY DEF WriterAfter
<1>e. end = Lesser(f.off + writer.size, Len(p))
  OBVIOUS
<1> HIDE DEF end
<1>8. /\ h.hdr[c] = f.hdr /\ h.partial[c] = SubSeq(p, 1, f.off) /\ h.size = writer.size
      /\ h.hdr = [Mirror(writer).hdr EXCEPT ![c] = f.hdr]
      /\ h.partial = [Mirror(writer).partial EXCEPT ![c] = SubSeq(p, 1, f.off)]
  <2>1. SubSeq(p, 1, f.off) \in Seq(Byte)
    BY <1>1, PrefixProperties
  <2> QED BY <1>1, <1>3, <1>6, <2>1
<1>9. /\ Take(h, k) = Len(k.data)
      /\ Reassembled(h, k) = SubSeq(p, 1, end)
      /\ Completes(h, k) <=> end = Len(p)
      /\ end = Len(p) => Reassembled(h, k) = p
      /\ end \in f.off .. Len(p)
  <2>1. h.hdr[c].len = Len(p)
    BY <1>2, <1>8
  <2>2. p \in Seq(Byte) /\ f.off \in 0 .. Len(p) /\ writer.size \in Nat \ {0}
    BY <1>1
  <2> HIDE DEF p
  <2>3. Len(p) \in Nat
    BY <1>1
  <2>4. /\ end \in f.off .. Len(p)
        /\ end - f.off = Lesser(Len(p) - f.off, writer.size)
    BY <1>e, <2>2, <2>3, EndProperties
  <2>5. ASSUME NEW e, NEW data, e \in f.off .. Len(p), data = SubSeq(p, f.off + 1, e)
        PROVE  /\ Len(data) = e - f.off
               /\ Len(SubSeq(p, 1, e)) = e
               /\ SubSeq(p, 1, f.off) \o data = SubSeq(p, 1, e)
               /\ e = Len(p) => SubSeq(p, 1, e) = p
    BY ONLY <2>5, <2>2, SliceProperties
  <2>6. /\ Len(k.data) = end - f.off
        /\ Len(SubSeq(p, 1, end)) = end
        /\ SubSeq(p, 1, f.off) \o k.data = SubSeq(p, 1, end)
        /\ end = Len(p) => SubSeq(p, 1, end) = p
    BY <1>5, <2>4, <2>5
  <2>7. Len(SubSeq(p, 1, f.off)) = f.off
    BY <2>2, PrefixProperties
  <2>8. Take(h, k) = Len(k.data)
    <3>1. /\ h.hdr[k.csid].len = Len(p) /\ Len(h.partial[k.csid]) = f.off
          /\ h.size = writer.size
      BY <1>5, <1>8, <2>1, <2>7
    <3>2. Take(h, k) = Lesser(Len(p) - f.off, writer.size)
      BY <3>1 DEF Take
    <3>3. Len(k.data) = Lesser(Len(p) - f.off, writer.size)
      BY <2>4, <2>6
    <3> QED BY <3>2, <3>3
  <2>9. Reassembled(h, k) = SubSeq(p, 1, end)
    BY <1>5, <1>8, <2>6 DEF Reassembled
  <2>10. Completes(h, k) <=> end = Len(p)
    <3>1. Completes(h, k) <=> end >= Len(p)
      BY <1>5, <2>1, <2>6, <2>9, Zenon DEF Completes
    <3>2. end \in Int /\ Len(p) \in Int /\ end <= Len(p)
      BY <2>2, <2>3, <2>4
    <3> QED BY <3>1, <3>2
  <2> QED BY <2>4, <2>6, <2>8, <2>9, <2>10
<1>10. CASE end = Len(p)
  <2>1. Completes(h, k) /\ Reassembled(h, k) = p
    BY <1>9, <1>10
  <2> DEFINE size == IF f.msg.type = SetChunkSizeType THEN Clamp(SizeIn[p]) ELSE writer.size
  <2>2. w = [hdr |-> [writer.hdr EXCEPT ![c] = f.hdr],
             flight |-> [writer.flight EXCEPT ![c] = Idle], size |-> size]
    BY <1>1, <1>7, <1>10
  <2>3. w.flight[c] = Idle
    BY <1>1, <1>4, <2>2
  <2>4. MessageOf(h, k) = f.msg
    BY <1>1, <1>2, <1>5, <1>8, <2>1 DEF MessageOf, Message
  <2>5. AfterPayload(h, k) = [hdr |-> h.hdr, partial |-> [h.partial EXCEPT ![c] = <<>>],
                              size |-> size]
    BY <1>2, <1>5, <1>8, <2>1 DEF AfterPayload
  <2> HIDE DEF size
  <2>6. Mirror(w) = [hdr |-> [Mirror(writer).hdr EXCEPT ![c] = f.hdr],
                     partial |-> [Mirror(writer).partial EXCEPT ![c] = <<>>],
                     size |-> size]
    BY <1>1, <2>2, MirrorEnd
  <2>7. [h.partial EXCEPT ![c] = <<>>] = [Mirror(writer).partial EXCEPT ![c] = <<>>]
    BY <1>3, <1>8
  <2>8. AfterPayload(h, k) = Mirror(w)
    BY <1>8, <2>5, <2>6, <2>7, Zenon
  <2> QED BY <1>9, <2>1, <2>3, <2>4, <2>8, Zenon
<1>11. CASE end # Len(p)
  <2> DEFINE g == [f EXCEPT !.off = end]
  <2>1. ~ Completes(h, k) /\ end < Len(p) /\ end \in Nat
    BY <1>1, <1>9, <1>11
  <2>2. w = [hdr |-> writer.hdr, flight |-> [writer.flight EXCEPT ![c] = g],
             size |-> writer.size]
    BY <1>7, <2>1
  <2>3. g \in Flight /\ g.hdr = f.hdr /\ g.msg = f.msg /\ g.off = end
    BY <1>1, <2>1 DEF Flight
  <2> HIDE DEF g
  <2>4. g # Idle
    BY <2>3, IdleIsNoFlight
  <2>5. w.flight[c] # Idle
    BY <1>1, <1>4, <2>2, <2>4
  <2>6. AfterPayload(h, k) = [hdr |-> h.hdr,
                              partial |-> [h.partial EXCEPT ![c] = SubSeq(p, 1, end)],
                              size |-> writer.size]
    BY <1>5, <1>8, <1>9, <2>1 DEF AfterPayload
  <2>7. Mirror(w) = [hdr |-> [Mirror(writer).hdr EXCEPT ![c] = f.hdr],
                     partial |-> [Mirror(writer).partial EXCEPT ![c] = SubSeq(p, 1, end)],
                     size |-> writer.size]
    <3>1. Mirror(w) = [hdr |-> [Mirror(writer).hdr EXCEPT ![c] = g.hdr],
                       partial |-> [Mirror(writer).partial EXCEPT
                                      ![c] = SubSeq(g.msg.payload, 1, g.off)],
                       size |-> writer.size]
      BY <1>1, <2>2, <2>4, MirrorMove
    <3> QED BY <2>3, <3>1
  <2>8. [h.partial EXCEPT ![c] = SubSeq(p, 1, end)]
          = [Mirror(writer).partial EXCEPT ![c] = SubSeq(p, 1, end)]
    BY <1>3, <1>8
  <2>9. AfterPayload(h, k) = Mirror(w)
    BY <1>8, <2>6, <2>7, <2>8, Zenon
  <2> QED BY <1>9, <1>11, <2>1, <2>5, <2>9, Zenon
<1> QED BY <1>10, <1>11, Zenon

-----------------------------------------------------------------------------
\* Reading chunk k's payload, its header being read, with s sent and got messages
\* delivered, yields what e expects.
PayloadLink(s, h, got, k, e) ==
    /\ Take(h, k) = Len(k.data)
    /\ AfterPayload(h, k) = e.view
    /\ Completes(h, k) => e.got \in 1 .. Len(s) /\ MessageOf(h, k) = s[e.got]
    /\ e.got = got + (IF Completes(h, k) THEN 1 ELSE 0)

\* The same for the whole of chunk k.
Link(s, r, got, k, e) ==
    /\ HeaderFits(r, k)
    /\ PayloadLink(s, AfterHeader(r, k), got, k, e)

\* The chunks on the wire lead the reader to the writer's mirror.
Links ==
    /\ Len(expect) = Len(wire)
    /\ wire = <<>> => reader = Mirror(writer) /\ Len(delivered) = Len(sent)
    /\ wire # <<>> => /\ expect[Len(wire)].view = Mirror(writer)
                      /\ expect[Len(wire)].got = Len(sent)
    /\ wire # <<>> /\ phase = "boundary" =>
          Link(sent, reader, Len(delivered), wire[1], expect[1])
    /\ \A i \in 1 .. Len(wire) - 1 :
          Link(sent, expect[i].view, expect[i].got, wire[i + 1], expect[i + 1])

\* Between a chunk's header and its payload.  Only a read timeout leaves the two
\* apart.
InPayload ==
    /\ phase \in {"torn", "misframed"} => ReadTimeouts
    /\ phase # "boundary" => wire # <<>>
    /\ phase = "payload" => PayloadLink(sent, reader, Len(delivered), wire[1], expect[1])

\* The inductive invariant.  FramingAgrees and DeliveredInOrder say nothing of
\* the chunks not yet read, nor of the header state the reader is left in;
\* Links and InPayload do.
IInv == TypeOK /\ FlightsOK /\ Links /\ InPayload /\ DeliveredInOrder

\* A message more sent breaks no link.
LEMMA LinkGrows ==
    ASSUME NEW s \in Seq(Message), NEW m \in Message, NEW h, NEW got, NEW k, NEW e,
           PayloadLink(s, h, got, k, e)
    PROVE  PayloadLink(Append(s, m), h, got, k, e)
<1>1. ASSUME NEW i \in 1 .. Len(s)
      PROVE  i \in 1 .. Len(Append(s, m)) /\ Append(s, m)[i] = s[i]
  BY <1>1
<1> QED BY <1>1 DEF PayloadLink

\* Nor does it change a prefix of the messages sent.
LEMMA PrefixGrows ==
    ASSUME NEW s \in Seq(Message), NEW m \in Message, NEW n \in 0 .. Len(s)
    PROVE  /\ n \in 0 .. Len(Append(s, m))
           /\ SubSeq(Append(s, m), 1, n) = SubSeq(s, 1, n)
<1>1. \A i \in 1 .. Len(s) : Append(s, m)[i] = s[i]
  OBVIOUS
<1> QED BY <1>1

LEMMA PrefixOneMore ==
    ASSUME NEW s \in Seq(Message), NEW n \in 1 .. Len(s)
    PROVE  Append(SubSeq(s, 1, n - 1), s[n]) = SubSeq(s, 1, n)
OBVIOUS

\* The header a chunk leaves is well typed: its timestamp field is below the
\* marker or stands for the extended value.
LEMMA HeaderReadTyped ==
    ASSUME NEW h \in Header, NEW q, NEW k \in Chunk
    PROVE  HeaderRead(h, q, k) \in Header
<1> DEFINE time == IF k.field = ExtMark THEN k.extval ELSE k.field
<1>1. /\ k.fmt \in 0 .. 3 /\ k.field \in 0 .. ExtMark /\ k.len \in Nat /\ k.type \in Nat
      /\ k.msid \in Nat /\ k.extval \in Timestamp
  BY DEF Chunk
<1>2. /\ h.type \in Nat /\ h.msid \in Nat /\ h.len \in Nat /\ h.ts \in Timestamp
      /\ h.delta \in Timestamp /\ h.ext \in ExtBytes
  BY DEF Header
<1>3. time \in Timestamp
  BY <1>1, WireFormat DEF Timestamp
<1>4. WrapAdd(h.ts, time) \in Timestamp /\ WrapAdd(h.ts, h.delta) \in Timestamp
  BY <1>2, <1>3, WrapRoundTrip
<1>5. ExtRead(h, k) \in ExtBytes
  BY <1>2 DEF ExtRead, ExtBytes
<1> HIDE DEF time
<1>6. HeaderRead(h, q, k) =
        [primed |-> TRUE,
         type   |-> IF k.fmt \in {0, 1} THEN k.type ELSE h.type,
         msid   |-> IF k.fmt = 0 THEN k.msid ELSE h.msid,
         len    |-> IF k.fmt \in {0, 1} THEN k.len ELSE h.len,
         ts     |-> IF k.fmt = 0 THEN time
                    ELSE IF k.fmt # 3 THEN WrapAdd(h.ts, time)
                    ELSE IF q = <<>> THEN WrapAdd(h.ts, h.delta) ELSE h.ts,
         delta  |-> IF k.fmt = 3 THEN h.delta ELSE time,
         ext    |-> ExtRead(h, k)]
  BY DEF HeaderRead, time
<1> QED BY <1>1, <1>2, <1>3, <1>4, <1>5, <1>6 DEF Header

\* Both write actions write a chunk that MayWrite describes.
LEMMA HeadMayWrite ==
    ASSUME TypeOK, NEW c \in Csid, NEW m, <<c, m>> \in Traffic, WriteHead(c, m)
    PROVE  \E f, fmt : MayWrite(c, f, fmt) /\ Write(c, f, fmt)
<1> DEFINE o == writer.hdr[c]
           f == [msg |-> m, hdr |-> Committed(o, m), extval |-> HeadTime(o, m), off |-> 0]
<1>1. writer.flight[c] = Idle
  BY DEF WriteHead
<1>2. m \in Message /\ o \in Header
  BY TrafficFits DEF TypeOK
<1>3. /\ HeadFmt(o, m) \in 0 .. 3 /\ HeadTime(o, m) \in Timestamp
      /\ Committed(o, m) \in Header
  BY <1>2, HeadTyped
<1>4. f \in Flight
  BY <1>2, <1>3 DEF Flight
<1>5. Committed(o, m) = [primed |-> TRUE, type |-> m.type, msid |-> m.msid,
                         len |-> Len(m.payload), ts |-> m.ts,
                         delta |-> HeadTime(o, m), ext |-> HeadExt(o, m)]
  BY DEF Committed
<1>6. /\ f.msg = m /\ f.off = 0 /\ f.extval = HeadTime(o, m) /\ f.hdr = Committed(o, m)
      /\ f.hdr.primed = TRUE /\ f.hdr.type = m.type /\ f.hdr.msid = m.msid
      /\ f.hdr.len = Len(m.payload) /\ f.hdr.ts = m.ts
  BY <1>5
<1>7. Write(c, f, HeadFmt(o, m))
  BY DEF WriteHead
<1> HIDE DEF f, o
<1>8. FlightOf(c, f)
  BY <1>4, <1>6 DEF FlightOf
<1>9. MayWrite(c, f, HeadFmt(o, m))
  BY <1>1, <1>3, <1>6, <1>8 DEF MayWrite, o
<1> QED BY <1>7, <1>9

LEMMA ContinuationMayWrite ==
    ASSUME FlightsOK, NEW c \in Csid, WriteContinuation(c)
    PROVE  \E f, fmt : MayWrite(c, f, fmt) /\ Write(c, f, fmt)
<1>1. writer.flight[c] # Idle /\ Write(c, writer.flight[c], 3)
  BY DEF WriteContinuation
<1>2. MayWrite(c, writer.flight[c], 3)
  BY <1>1 DEF MayWrite, FlightsOK, FlightsOKIn
<1> QED BY <1>1, <1>2

\* The writer after a chunk.
LEMMA WriterStep ==
    ASSUME TypeOK, FlightsOK, NEW c, NEW f, NEW fmt, MayWrite(c, f, fmt)
    PROVE  WriterAfter(c, f) \in WriterType /\ FlightsOKIn(WriterAfter(c, f))
<1> DEFINE end == Lesser(f.off + writer.size, Len(f.msg.payload))
           g == [f EXCEPT !.off = end]
           w == WriterAfter(c, f)
<1>1. c \in Csid /\ f \in Flight /\ FlightOf(c, f)
  BY DEF MayWrite, FlightOf
<1>2. /\ f.msg \in Message /\ f.off \in 0 .. Len(f.msg.payload) /\ writer.size \in Nat \ {0}
      /\ Len(f.msg.payload) \in Nat
  <2>1. /\ f.msg \in Message /\ f.msg.payload \in Seq(Byte)
        /\ f.off \in 0 .. Len(f.msg.payload) /\ writer.size \in Nat \ {0}
    BY ChunkTyped, Zenon
  <2> QED BY <2>1
<1>3. /\ end \in f.off .. Len(f.msg.payload)
      /\ f.off < Len(f.msg.payload) => f.off < end
  BY <1>2, EndProperties
<1>4. /\ writer.hdr \in [Csid -> Header] /\ writer.flight \in [Csid -> Flight \cup {Idle}]
      /\ writer.size \in 1 .. MaxChunkSize
  BY DEF TypeOK
<1>5. CASE end < Len(f.msg.payload)
  <2>1. w = [hdr |-> writer.hdr, flight |-> [writer.flight EXCEPT ![c] = g],
             size |-> writer.size]
    BY <1>5 DEF WriterAfter
  <2>2. end \in 1 .. Len(f.msg.payload) - 1
    BY <1>2, <1>3, <1>5
  <2>3. g \in Flight /\ g.hdr = f.hdr /\ g.msg = f.msg /\ g.off = end
    BY <1>1, <2>2 DEF Flight
  <2> HIDE DEF g, w, end
  <2>4. FlightOf(c, g)
    BY <1>1, <2>3 DEF FlightOf
  <2>5. w \in WriterType
    BY <1>1, <1>4, <2>1, <2>3 DEF WriterType
  <2>6. ASSUME NEW d \in Csid, w.flight[d] # Idle
        PROVE  FlightOf(d, w.flight[d]) /\ w.flight[d].off \in 1 .. Len(w.flight[d].msg.payload) - 1
    <3>1. CASE d = c
      <4>1. w.flight[d] = g
        BY <1>1, <1>4, <2>1, <3>1
      <4> QED BY <2>2, <2>3, <2>4, <3>1, <4>1
    <3>2. CASE d # c
      <4>1. w.flight[d] = writer.flight[d]
        BY <1>1, <1>4, <2>1, <3>2
      <4> QED BY <2>6, <4>1 DEF FlightsOK, FlightsOKIn
    <3> QED BY <3>1, <3>2
  <2>7. FlightsOKIn(w)
    BY <2>6 DEF FlightsOKIn
  <2> QED BY <2>5, <2>7 DEF w
<1>6. CASE ~ (end < Len(f.msg.payload))
  <2> DEFINE size == IF f.msg.type = SetChunkSizeType
                     THEN Clamp(SizeIn[f.msg.payload]) ELSE writer.size
  <2>1. w = [hdr |-> [writer.hdr EXCEPT ![c] = f.hdr],
             flight |-> [writer.flight EXCEPT ![c] = Idle], size |-> size]
    BY <1>6 DEF WriterAfter
  <2>2. size \in 1 .. MaxChunkSize
    <3>1. f.msg.type = SetChunkSizeType => SizeIn[f.msg.payload] \in Nat
      BY <1>1, TrafficFits DEF FlightOf
    <3> QED BY <1>4, <3>1, ClampInRange
  <2> HIDE DEF w, size
  <2>3. f.hdr \in Header
    BY <1>1 DEF Flight
  <2>4. w \in WriterType
    BY <1>1, <1>4, <2>1, <2>2, <2>3 DEF WriterType
  <2>5. \A d \in Csid : w.flight[d] # Idle => w.flight[d] = writer.flight[d]
    BY <1>1, <1>4, <2>1
  <2>6. FlightsOKIn(w)
    BY <2>5 DEF FlightsOK, FlightsOKIn
  <2> QED BY <2>4, <2>6 DEF w
<1> QED BY <1>5, <1>6

\* A chunk read in the writer's mirror yields the mirror of the writer after it,
\* and the message if its call is over.
LEMMA NewLink ==
    ASSUME TypeOK, FlightsOK, NEW c, NEW f, NEW fmt, MayWrite(c, f, fmt), Write(c, f, fmt)
    PROVE  /\ Link(sent', Mirror(writer), Len(sent), ChunkOf(c, f, fmt),
                   [view |-> Mirror(writer'), got |-> Len(sent')])
           /\ sent' = sent \/ \E m \in Message : sent' = Append(sent, m)
<1> DEFINE k == ChunkOf(c, f, fmt)
           h == AfterHeader(Mirror(writer), k)
           e == [view |-> Mirror(writer'), got |-> Len(sent')]
<1>1. writer' = WriterAfter(c, f)
  BY DEF Write
<1>2. sent' = IF writer'.flight[c] = Idle THEN Append(sent, f.msg) ELSE sent
  BY <1>1 DEF Write
<1>3. sent \in Seq(Message) /\ f.msg \in Message
  BY ChunkTyped DEF TypeOK
<1>4. HeaderFits(Mirror(writer), k)
  BY HeaderReplays, Zenon
<1>k. k = ChunkOf(c, f, fmt) /\ h = AfterHeader(Mirror(writer), k)
  OBVIOUS
<1> HIDE DEF k, h
<1>5. /\ Take(h, k) = Len(k.data)
      /\ AfterPayload(h, k) = Mirror(writer')
      /\ Completes(h, k) <=> writer'.flight[c] = Idle
      /\ Completes(h, k) => MessageOf(h, k) = f.msg
  BY <1>1, <1>k, PayloadReplays
<1>6. CASE Completes(h, k)
  <2>1. sent' = Append(sent, f.msg) /\ Len(sent') = Len(sent) + 1
        /\ Len(sent') \in 1 .. Len(sent') /\ sent'[Len(sent')] = f.msg
    BY <1>2, <1>3, <1>5, <1>6
  <2>2. PayloadLink(sent', h, Len(sent), k, e)
    BY <1>5, <1>6, <2>1 DEF PayloadLink
  <2> QED BY <1>3, <1>4, <2>1, <2>2 DEF Link, h, k
<1>7. CASE ~ Completes(h, k)
  <2>1. sent' = sent
    BY <1>2, <1>5, <1>7
  <2>2. PayloadLink(sent', h, Len(sent), k, e)
    BY <1>3, <1>5, <1>7, <2>1 DEF PayloadLink
  <2> QED BY <1>3, <1>4, <2>1, <2>2 DEF Link, h, k
<1> QED BY <1>6, <1>7

\* Writing a chunk preserves the invariant.
LEMMA WritePreserves ==
    ASSUME IInv, NEW c, NEW f, NEW fmt, MayWrite(c, f, fmt), Write(c, f, fmt)
    PROVE  IInv'
<1> DEFINE k == ChunkOf(c, f, fmt)
           e == [view |-> Mirror(writer'), got |-> Len(sent')]
<1>1. TypeOK /\ FlightsOK /\ Links /\ InPayload /\ DeliveredInOrder
  BY DEF IInv
<1>2. /\ writer' = WriterAfter(c, f)
      /\ wire' = Append(wire, k) /\ expect' = Append(expect, e)
      /\ reader' = reader /\ phase' = phase /\ delivered' = delivered
  BY DEF Write
<1>3. writer' \in WriterType /\ FlightsOKIn(writer')
  BY <1>1, <1>2, WriterStep
<1>4. /\ Link(sent', Mirror(writer), Len(sent), k, e)
      /\ sent' = sent \/ \E m \in Message : sent' = Append(sent, m)
  BY <1>1, NewLink
<1>5. k \in Chunk
  BY <1>1, ChunkTyped
<1>6. e.view = Mirror(writer') /\ e.got = Len(sent')
  OBVIOUS
<1> HIDE DEF k
<1>7. /\ wire \in Seq(Chunk) /\ sent \in Seq(Message) /\ delivered \in Seq(Message)
      /\ reader \in ReaderType /\ phase \in Phase
      /\ expect \in Seq([view : ReaderType, got : Nat])
  BY <1>1 DEF TypeOK, ReaderType
<1>s. sent' = sent \/ \E m \in Message : sent' = Append(sent, m)
  BY <1>4
<1>8. sent' \in Seq(Message)
  BY <1>s, <1>7
<1>9. TypeOK'
  <2>1. Mirror(writer') \in ReaderType
    BY <1>3, MirrorTyped
  <2>2. e \in [view : ReaderType, got : Nat]
    BY <1>8, <2>1
  <2> HIDE DEF e
  <2>3. expect' \in Seq([view : ReaderType, got : Nat]) /\ wire' \in Seq(Chunk)
    BY <1>2, <1>5, <1>7, <2>2
  <2> QED BY <1>2, <1>3, <1>7, <1>8, <2>3 DEF TypeOK, WriterType, ReaderType
<1>10. FlightsOK'
  BY <1>3 DEF FlightsOK
<1> HIDE DEF e
<1>11. ASSUME NEW h, NEW got, NEW j, NEW x, PayloadLink(sent, h, got, j, x)
       PROVE  PayloadLink(sent', h, got, j, x)
  BY <1>s, <1>7, <1>11, LinkGrows
<1>12. ASSUME NEW r, NEW got, NEW j, NEW x, Link(sent, r, got, j, x)
       PROVE  Link(sent', r, got, j, x)
  BY <1>11, <1>12, Zenon DEF Link
<1>13. Links'
  <2>1. /\ Len(wire') = Len(wire) + 1 /\ Len(expect') = Len(wire') /\ wire' # <<>>
        /\ \A i \in 1 .. Len(wire) : wire'[i] = wire[i] /\ expect'[i] = expect[i]
        /\ wire'[Len(wire')] = k /\ expect'[Len(wire')] = e
        /\ Len(wire) \in Nat
    <3>1. Len(expect) = Len(wire) /\ Len(wire) \in Nat
      BY <1>1, <1>7 DEF Links
    <3>2. /\ Len(wire') = Len(wire) + 1 /\ wire'[Len(wire) + 1] = k
          /\ \A i \in 1 .. Len(wire) : wire'[i] = wire[i]
      BY <1>2, <1>7
    <3>3. /\ Len(expect') = Len(expect) + 1 /\ expect'[Len(expect) + 1] = e
          /\ \A i \in 1 .. Len(expect) : expect'[i] = expect[i]
      BY <1>2, <1>7
    <3>4. wire' # <<>>
      BY <1>2, <1>7
    <3> QED BY <3>1, <3>2, <3>3, <3>4
  <2>2. \A i \in 1 .. Len(wire) - 1 :
           Link(sent', expect'[i].view, expect'[i].got, wire'[i + 1], expect'[i + 1])
    <3>1. ASSUME NEW i \in 1 .. Len(wire) - 1
          PROVE  Link(sent', expect'[i].view, expect'[i].got, wire'[i + 1], expect'[i + 1])
      <4>1. Link(sent, expect[i].view, expect[i].got, wire[i + 1], expect[i + 1])
        BY <1>1 DEF Links
      <4>2. Link(sent', expect[i].view, expect[i].got, wire[i + 1], expect[i + 1])
        BY <1>12, <4>1, Zenon
      <4>3. i \in 1 .. Len(wire) /\ i + 1 \in 1 .. Len(wire)
        BY <2>1
      <4> QED BY <2>1, <4>2, <4>3
    <3> QED BY <3>1
  <2>3. CASE wire = <<>>
    <3>1. reader = Mirror(writer) /\ Len(delivered) = Len(sent) /\ Len(wire) = 0
      BY <1>1, <2>3 DEF Links
    <3>2. Link(sent', reader', Len(delivered'), wire'[1], expect'[1])
      BY <1>2, <1>4, <2>1, <3>1
    <3> QED BY <1>6, <2>1, <3>1, <3>2 DEF Links
  <2>4. CASE wire # <<>>
    <3>0. Len(wire) \in Nat \ {0}
      BY <1>7, <2>4
    <3>1. expect[Len(wire)].view = Mirror(writer) /\ expect[Len(wire)].got = Len(sent)
      BY <1>1, <2>4 DEF Links
    <3>2. Link(sent', expect'[Len(wire)].view, expect'[Len(wire)].got,
               wire'[Len(wire) + 1], expect'[Len(wire) + 1])
      BY <1>4, <2>1, <3>0, <3>1
    <3>3. phase' = "boundary" => Link(sent', reader', Len(delivered'), wire'[1], expect'[1])
      <4>1. phase = "boundary" => Link(sent, reader, Len(delivered), wire[1], expect[1])
        BY <1>1, <2>4 DEF Links
      <4>2. phase = "boundary" => Link(sent', reader, Len(delivered), wire[1], expect[1])
        BY <1>12, <4>1, Zenon
      <4>3. wire'[1] = wire[1] /\ expect'[1] = expect[1]
        BY <2>1, <3>0
      <4> QED BY <1>2, <4>2, <4>3
    <3>4. \A i \in 1 .. Len(wire') - 1 : i \in 1 .. Len(wire) - 1 \/ i = Len(wire)
      BY <2>1, <3>0
    <3>5. \A i \in 1 .. Len(wire') - 1 :
             Link(sent', expect'[i].view, expect'[i].got, wire'[i + 1], expect'[i + 1])
      BY <2>2, <3>2, <3>4
    <3> QED BY <1>6, <2>1, <3>3, <3>5 DEF Links
  <2> QED BY <2>3, <2>4
<1>14. InPayload'
  <2>1. /\ phase \in {"torn", "misframed"} => ReadTimeouts
        /\ phase # "boundary" => wire # <<>>
    BY <1>1, Zenon DEF InPayload
  <2>2. wire' # <<>>
    BY <1>2, <1>7
  <2>3. phase = "payload" =>
          PayloadLink(sent', reader, Len(delivered), wire'[1], expect'[1])
    <3>1. ASSUME phase = "payload"
          PROVE  PayloadLink(sent', reader, Len(delivered), wire'[1], expect'[1])
      <4>1. wire # <<>> /\ PayloadLink(sent, reader, Len(delivered), wire[1], expect[1])
        BY <1>1, <2>1, <3>1 DEF InPayload
      <4>2. PayloadLink(sent', reader, Len(delivered), wire[1], expect[1])
        BY <1>11, <4>1, Zenon
      <4>3. Len(expect) = Len(wire)
        BY <1>1 DEF Links
      <4>4. wire'[1] = wire[1] /\ expect'[1] = expect[1]
        BY <1>2, <1>7, <4>1, <4>3
      <4> QED BY <4>2, <4>4
    <3> QED BY <3>1
  <2> QED BY <1>2, <2>1, <2>2, <2>3, Zenon DEF InPayload
<1>15. DeliveredInOrder'
  <2>1. /\ Len(delivered) \in 0 .. Len(sent)
        /\ delivered = SubSeq(sent, 1, Len(delivered))
    BY <1>1, <1>7 DEF DeliveredInOrder
  <2>2. /\ Len(delivered) \in 0 .. Len(sent')
        /\ SubSeq(sent', 1, Len(delivered)) = SubSeq(sent, 1, Len(delivered))
    BY <1>s, <1>7, <2>1, PrefixGrows
  <2> QED BY <1>2, <1>8, <2>1, <2>2 DEF DeliveredInOrder
<1> QED BY <1>9, <1>10, <1>13, <1>14, <1>15 DEF IInv

\* The header of the first chunk is as long as the reader takes it to be.
LEMMA ReadHeaderPreserves ==
    ASSUME IInv, ReadHeader
    PROVE  IInv'
<1> DEFINE k == wire[1]
<1>1. TypeOK /\ FlightsOK /\ Links /\ InPayload /\ DeliveredInOrder
  BY DEF IInv
<1>2. phase = "boundary" /\ wire # <<>> /\ Head(wire) = wire[1]
  BY <1>1 DEF ReadHeader, TypeOK
<1>3. Link(sent, reader, Len(delivered), wire[1], expect[1])
  BY <1>1, <1>2 DEF Links
<1>4. /\ HeaderFits(reader, k)
      /\ PayloadLink(sent, AfterHeader(reader, k), Len(delivered), k, expect[1])
  BY <1>3, Zenon DEF Link
<1>5. /\ phase' = "payload" /\ reader' = AfterHeader(reader, k)
      /\ writer' = writer /\ wire' = wire /\ sent' = sent
      /\ delivered' = delivered /\ expect' = expect
  BY <1>2, <1>4 DEF ReadHeader
<1>6. k \in Chunk
  <2>1. wire \in Seq(Chunk)
    BY <1>1 DEF TypeOK
  <2> QED BY <1>2, <2>1
<1>7. reader \in ReaderType
  BY <1>1 DEF TypeOK, ReaderType
<1> HIDE DEF k
<1>8. reader' \in ReaderType
  <2>1. reader.hdr[k.csid] \in Header /\ k.csid \in Csid
    BY <1>6, <1>7 DEF Chunk, ReaderType
  <2>2. HeaderRead(reader.hdr[k.csid], reader.partial[k.csid], k) \in Header
    BY <1>6, <2>1, HeaderReadTyped
  <2>3. reader' = [hdr     |-> [reader.hdr EXCEPT ![k.csid] =
                                 HeaderRead(reader.hdr[k.csid], reader.partial[k.csid], k)],
                   partial |-> [reader.partial EXCEPT ![k.csid] =
                                 IF k.fmt = 3 THEN reader.partial[k.csid] ELSE <<>>],
                   size    |-> reader.size]
    BY <1>5 DEF AfterHeader
  <2> QED BY <1>7, <2>1, <2>2, <2>3 DEF ReaderType
<1>9. TypeOK'
  BY <1>1, <1>5, <1>8 DEF TypeOK, ReaderType, Phase
<1>10. FlightsOK' /\ DeliveredInOrder'
  BY <1>1, <1>5 DEF FlightsOK, FlightsOKIn, DeliveredInOrder
<1>11. Links'
  BY <1>1, <1>2, <1>5 DEF Links
<1>12. InPayload'
  BY <1>2, <1>4, <1>5 DEF InPayload, k
<1> QED BY <1>9, <1>10, <1>11, <1>12 DEF IInv

\* Its payload is as long as the reader takes it to be, and the message it
\* completes is the next one sent.
LEMMA ReadPayloadPreserves ==
    ASSUME IInv, ReadPayload
    PROVE  IInv'
<1> DEFINE k == wire[1]
           n == expect[1].got
<1>1. TypeOK /\ FlightsOK /\ Links /\ InPayload /\ DeliveredInOrder
  BY DEF IInv
<1>2. phase = "payload" /\ wire # <<>>
      /\ PayloadLink(sent, reader, Len(delivered), k, expect[1])
  BY <1>1 DEF ReadPayload, InPayload
<1>3. /\ wire \in Seq(Chunk) /\ sent \in Seq(Message) /\ delivered \in Seq(Message)
      /\ expect \in Seq([view : ReaderType, got : Nat])
      /\ Len(expect) = Len(wire) /\ Len(wire) \in Nat \ {0}
      /\ Head(wire) = wire[1]
  <2>1. /\ wire \in Seq(Chunk) /\ sent \in Seq(Message) /\ delivered \in Seq(Message)
        /\ expect \in Seq([view : ReaderType, got : Nat])
    BY <1>1 DEF TypeOK, ReaderType
  <2>2. Len(expect) = Len(wire)
    BY <1>1 DEF Links
  <2> QED BY <1>2, <2>1, <2>2
<1>4. /\ Take(reader, k) = Len(k.data)
      /\ AfterPayload(reader, k) = expect[1].view
      /\ Completes(reader, k) => n \in 1 .. Len(sent) /\ MessageOf(reader, k) = sent[n]
      /\ n = Len(delivered) + (IF Completes(reader, k) THEN 1 ELSE 0)
  BY <1>2, Zenon DEF PayloadLink
<1>5. /\ phase' = "boundary" /\ reader' = expect[1].view
      /\ delivered' = IF Completes(reader, k) THEN Append(delivered, MessageOf(reader, k))
                      ELSE delivered
      /\ wire' = Tail(wire) /\ expect' = Tail(expect)
      /\ writer' = writer /\ sent' = sent
  BY <1>3, <1>4 DEF ReadPayload
<1> HIDE DEF k, n
<1>6. /\ Len(delivered') = n
      /\ delivered' \in Seq(Message)
      /\ n <= Len(sent) /\ delivered' = SubSeq(sent, 1, n)
  <2>1. Len(delivered) <= Len(sent) /\ delivered = SubSeq(sent, 1, Len(delivered))
    BY <1>1 DEF DeliveredInOrder
  <2>2. CASE Completes(reader, k)
    <3>1. /\ n = Len(delivered) + 1 /\ n \in 1 .. Len(sent)
          /\ delivered' = Append(delivered, sent[n])
      BY <1>4, <1>5, <2>2
    <3>2. sent[n] \in Message
      BY <1>3, <3>1
    <3>3. Append(SubSeq(sent, 1, n - 1), sent[n]) = SubSeq(sent, 1, n)
      BY <1>3, <3>1, PrefixOneMore
    <3> QED BY <1>3, <2>1, <3>1, <3>2, <3>3
  <2>3. CASE ~ Completes(reader, k)
    BY <1>3, <1>4, <1>5, <2>1, <2>3
  <2> QED BY <2>2, <2>3
<1>7. /\ Len(wire') = Len(wire) - 1 /\ Len(expect') = Len(wire')
      /\ wire' \in Seq(Chunk) /\ expect' \in Seq([view : ReaderType, got : Nat])
      /\ \A i \in 1 .. Len(wire') : wire'[i] = wire[i + 1] /\ expect'[i] = expect[i + 1]
      /\ expect[1].view \in ReaderType
  <2>1. /\ Len(wire') = Len(wire) - 1 /\ wire' \in Seq(Chunk)
        /\ \A i \in 1 .. Len(wire') : wire'[i] = wire[i + 1]
    BY <1>3, <1>5
  <2>2. /\ Len(expect') = Len(expect) - 1
        /\ expect' \in Seq([view : ReaderType, got : Nat])
        /\ \A i \in 1 .. Len(expect') : expect'[i] = expect[i + 1]
    BY <1>3, <1>5
  <2>3. expect[1] \in [view : ReaderType, got : Nat]
    <3>1. 1 \in 1 .. Len(expect)
      BY <1>3
    <3>2. expect \in Seq([view : ReaderType, got : Nat])
      BY <1>3
    <3> QED BY <3>1, <3>2, ElementOfSeq, Zenon
  <2> QED BY <1>3, <2>1, <2>2, <2>3
<1>8. TypeOK'
  <2>1. reader' \in ReaderType
    BY <1>5, <1>7
  <2> QED BY <1>1, <1>5, <1>6, <1>7, <2>1 DEF TypeOK, ReaderType, Phase
<1>9. FlightsOK' /\ DeliveredInOrder'
  BY <1>1, <1>5, <1>6 DEF FlightsOK, FlightsOKIn, DeliveredInOrder
<1>10. Links'
  <2>1. \A i \in 1 .. Len(wire) - 1 :
           Link(sent, expect[i].view, expect[i].got, wire[i + 1], expect[i + 1])
    BY <1>1 DEF Links
  <2>2. expect[Len(wire)].view = Mirror(writer) /\ expect[Len(wire)].got = Len(sent)
    BY <1>1, <1>2 DEF Links
  <2>3. \A i \in 1 .. Len(wire') - 1 :
           Link(sent', expect'[i].view, expect'[i].got, wire'[i + 1], expect'[i + 1])
    <3>1. ASSUME NEW i \in 1 .. Len(wire') - 1
          PROVE  Link(sent, expect'[i].view, expect'[i].got, wire'[i + 1], expect'[i + 1])
      <4>1. i + 1 \in 1 .. Len(wire) - 1 /\ i \in 1 .. Len(wire') /\ i + 1 \in 1 .. Len(wire')
        BY <1>3, <1>7
      <4>2. Link(sent, expect[i + 1].view, expect[i + 1].got, wire[i + 1 + 1], expect[i + 1 + 1])
        BY <2>1, <4>1
      <4> QED BY <1>7, <4>1, <4>2
    <3> QED BY <1>5, <3>1
  <2>4. CASE Len(wire) = 1
    <3>0. n = Len(sent) /\ reader' = Mirror(writer)
      BY <1>5, <2>2, <2>4 DEF n
    <3>e. wire' \in Seq(Chunk) /\ Len(wire') = 0
      BY <1>7, <2>4
    <3>1. wire' = <<>> /\ n = Len(sent) /\ reader' = Mirror(writer)
      BY <3>0, <3>e
    <3> QED BY <1>5, <1>6, <1>7, <2>3, <3>1 DEF Links
  <2>5. CASE Len(wire) # 1
    <3>1. Len(wire) \in Nat /\ Len(wire) > 1 /\ wire' # <<>>
      BY <1>3, <1>7, <2>5
    <3>2. Link(sent, expect[1].view, expect[1].got, wire[1 + 1], expect[1 + 1])
      BY <2>1, <3>1
    <3>3. wire'[1] = wire[1 + 1] /\ expect'[1] = expect[1 + 1]
      BY <1>7, <3>1
    <3>4. Link(sent', reader', Len(delivered'), wire'[1], expect'[1])
      BY <1>5, <1>6, <3>2, <3>3 DEF n
    <3>5. expect'[Len(wire')] = expect[Len(wire)]
      BY <1>7, <3>1
    <3> QED BY <1>5, <1>7, <2>2, <2>3, <3>1, <3>4, <3>5 DEF Links
  <2> QED BY <2>4, <2>5
<1>11. InPayload'
  BY <1>5 DEF InPayload
<1> QED BY <1>8, <1>9, <1>10, <1>11 DEF IInv

-----------------------------------------------------------------------------
\* Initially nothing is on the wire and both sides know nothing of any csid.
LEMMA InitHolds == Init => IInv
<1> SUFFICES ASSUME Init PROVE IInv
  OBVIOUS
<1>1. NoHeader \in Header
  BY WireFormat DEF NoHeader, Header, Timestamp, ExtBytes
<1>2. /\ writer = [hdr |-> [c \in Csid |-> NoHeader], flight |-> [c \in Csid |-> Idle],
                   size |-> DefaultChunkSize]
      /\ reader = [hdr |-> [c \in Csid |-> NoHeader], partial |-> [c \in Csid |-> <<>>],
                   size |-> DefaultChunkSize]
      /\ phase = "boundary" /\ wire = <<>> /\ expect = <<>>
      /\ sent = <<>> /\ delivered = <<>>
  BY DEF Init
<1>3. TypeOK
  BY <1>1, <1>2, WireFormat DEF TypeOK, Phase
<1>4. \A c \in Csid : writer.flight[c] = Idle
  BY <1>2
<1>5. FlightsOK
  BY <1>4 DEF FlightsOK, FlightsOKIn
<1>6. reader = Mirror(writer)
  <2>1. [c \in Csid |-> IF writer.flight[c] = Idle THEN writer.hdr[c] ELSE writer.flight[c].hdr]
          = [c \in Csid |-> NoHeader]
    BY <1>2
  <2>2. [c \in Csid |-> IF writer.flight[c] = Idle THEN <<>>
                        ELSE SubSeq(writer.flight[c].msg.payload, 1, writer.flight[c].off)]
          = [c \in Csid |-> <<>>]
    BY <1>2
  <2> QED BY <1>2, <2>1, <2>2 DEF Mirror
<1>7. Links
  BY <1>2, <1>6 DEF Links
<1>8. InPayload /\ DeliveredInOrder
  BY <1>2 DEF InPayload, DeliveredInOrder
<1> QED BY <1>3, <1>5, <1>7, <1>8 DEF IInv

\* No step of either side breaks the invariant.
LEMMA NextPreserves == ASSUME IInv, [Next]_vars PROVE IInv'
<1>1. ASSUME NEW t \in Traffic, WriteHead(t[1], t[2]) PROVE IInv'
  <2>1. t[1] \in Csid /\ <<t[1], t[2]>> \in Traffic
    BY TrafficFits
  <2>2. TypeOK
    BY DEF IInv
  <2>3. PICK f, fmt : MayWrite(t[1], f, fmt) /\ Write(t[1], f, fmt)
    BY <1>1, <2>1, <2>2, HeadMayWrite
  <2> QED BY <2>3, WritePreserves
<1>2. ASSUME NEW c \in Csid, WriteContinuation(c) PROVE IInv'
  <2>1. FlightsOK
    BY DEF IInv
  <2>2. PICK f, fmt : MayWrite(c, f, fmt) /\ Write(c, f, fmt)
    BY <1>2, <2>1, ContinuationMayWrite
  <2> QED BY <2>2, WritePreserves
<1>3. ASSUME ReadHeader PROVE IInv'
  BY <1>3, ReadHeaderPreserves
<1>4. ASSUME ReadPayload PROVE IInv'
  BY <1>4, ReadPayloadPreserves
<1>5. ASSUME TimeoutBeforePayload PROVE IInv'
  <2>1. phase = "payload" /\ phase' = "torn" /\ ReadTimeouts
        /\ UNCHANGED <<writer, reader, wire, sent, delivered, expect>>
    BY <1>5 DEF TimeoutBeforePayload
  <2>2. TypeOK' /\ FlightsOK' /\ DeliveredInOrder'
    BY <2>1 DEF IInv, TypeOK, Phase, FlightsOK, FlightsOKIn, DeliveredInOrder
  <2>3. Links' /\ InPayload'
    BY <2>1 DEF IInv, Links, InPayload
  <2> QED BY <2>2, <2>3 DEF IInv
<1>6. ASSUME RetryAfterTimeout PROVE IInv'
  <2>1. phase = "torn" /\ phase' = "misframed"
        /\ UNCHANGED <<writer, reader, wire, sent, delivered, expect>>
    BY <1>6 DEF RetryAfterTimeout
  <2>2. TypeOK' /\ FlightsOK' /\ DeliveredInOrder'
    BY <2>1 DEF IInv, TypeOK, Phase, FlightsOK, FlightsOKIn, DeliveredInOrder
  <2>3. Links' /\ InPayload'
    BY <2>1 DEF IInv, Links, InPayload
  <2> QED BY <2>2, <2>3 DEF IInv
<1>7. ASSUME UNCHANGED vars PROVE IInv'
  BY <1>7 DEF vars, IInv, TypeOK, FlightsOK, FlightsOKIn, Links, InPayload, DeliveredInOrder
<1> QED BY <1>1, <1>2, <1>3, <1>4, <1>5, <1>6, <1>7 DEF Next, Writes, Reads

LEMMA Invariance == Spec => []IInv
<1>1. IInv /\ [Next]_vars => IInv'
  BY NextPreserves
<1> QED BY InitHolds, <1>1, PTL DEF Spec

\* The state of both sides stays well typed: the sizes in range, the timestamps
\* wrapped, every chunk's fields within their widths.
THEOREM TypeCorrect == Spec => []TypeOK
<1>1. IInv => TypeOK
  BY DEF IInv
<1> QED BY <1>1, Invariance, PTL

\* Without read timeouts the reader never loses the framing (read_message never
\* takes payload bytes for a header or the reverse), whatever csids a peer
\* interleaves, wherever timestamps wrap and chunk sizes change.
THEOREM FramingHolds == ASSUME ReadTimeouts = FALSE PROVE Spec => []FramingAgrees
<1>1. IInv => FramingAgrees
  BY DEF IInv, InPayload, FramingAgrees
<1> QED BY <1>1, Invariance, PTL

\* With read timeouts the only loss of framing is that of a read_message call
\* that ended between a chunk's header and its payload.
THEOREM OnlyTimeouts == Spec => OnlyTimeoutsTear
<1>1. IInv /\ [Next]_vars => [phase' = "misframed" => phase = "torn"]_phase
  <2> SUFFICES ASSUME IInv, [Next]_vars, phase' = "misframed", phase' # phase
               PROVE  phase = "torn"
    OBVIOUS
  <2>1. ASSUME NEW t \in Traffic, WriteHead(t[1], t[2]) PROVE FALSE
    BY <2>1 DEF WriteHead, Write
  <2>2. ASSUME NEW c \in Csid, WriteContinuation(c) PROVE FALSE
    BY <2>2 DEF WriteContinuation, Write
  <2>3. ASSUME ReadHeader PROVE FALSE
    <3>1. phase = "boundary" /\ wire # <<>> /\ wire \in Seq(Chunk)
          /\ Link(sent, reader, Len(delivered), wire[1], expect[1])
      BY <2>3 DEF ReadHeader, IInv, TypeOK, Links
    <3>2. Head(wire) = wire[1]
      BY <3>1
    <3>3. HeaderFits(reader, wire[1])
      BY <3>1, Zenon DEF Link
    <3> QED BY <2>3, <3>2, <3>3 DEF ReadHeader
  <2>4. ASSUME ReadPayload PROVE FALSE
    <3>1. wire # <<>> /\ wire \in Seq(Chunk)
          /\ PayloadLink(sent, reader, Len(delivered), wire[1], expect[1])
      BY <2>4 DEF ReadPayload, IInv, TypeOK, InPayload
    <3>2. Head(wire) = wire[1]
      BY <3>1
    <3>3. Take(reader, wire[1]) = Len(wire[1].data)
      BY <3>1, Zenon DEF PayloadLink
    <3> QED BY <2>4, <3>2, <3>3 DEF ReadPayload
  <2>5. ASSUME TimeoutBeforePayload PROVE FALSE
    BY <2>5 DEF TimeoutBeforePayload
  <2>6. ASSUME RetryAfterTimeout PROVE phase = "torn"
    BY <2>6 DEF RetryAfterTimeout
  <2>7. ASSUME UNCHANGED vars PROVE FALSE
    BY <2>7 DEF vars
  <2> QED BY <2>1, <2>2, <2>3, <2>4, <2>5, <2>6, <2>7 DEF Next, Writes, Reads
<1> QED BY <1>1, Invariance, PTL DEF Spec, OnlyTimeoutsTear

\* read_message returns the messages given to write_message, in order and
\* unchanged.
THEOREM OrderHolds == Spec => []DeliveredInOrder
<1>1. IInv => DeliveredInOrder
  BY DEF IInv
<1> QED BY <1>1, Invariance, PTL

\* The chunks on the wire always lead the reader's state to the writer's.
THEOREM WireLeads == Spec => []WireLeadsToWriter
<1>1. ASSUME NEW r, NEW got, NEW k, NEW e, Link(sent, r, got, k, e)
      PROVE  Replays(r, k, e) /\ e.got = GotAfter(r, k, got)
  BY <1>1, Zenon DEF Link, PayloadLink, Replays, GotAfter
<1>2. IInv => WireLeadsToWriter
  BY <1>1 DEF IInv, Links, WireLeadsToWriter
<1> QED BY <1>2, Invariance, PTL

\* Every step of the chunk stream is a step of the abstract channel: a write that
\* ends its message sends it, a read that completes a message delivers the next.
LEMMA StepRefines ==
    ASSUME IInv, [Next]_vars
    PROVE  [Pipe!Next]_<<sent, delivered>>
<1>0. sent \in Seq(Message) /\ TypeOK /\ FlightsOK
  BY DEF IInv, TypeOK
<1>1. ASSUME NEW c, NEW f, NEW fmt, MayWrite(c, f, fmt), Write(c, f, fmt)
      PROVE  Pipe!Send \/ UNCHANGED <<sent, delivered>>
  <2>1. delivered' = delivered
    BY <1>1 DEF Write
  <2>2. sent' = sent \/ \E m \in Message : sent' = Append(sent, m)
    BY <1>0, <1>1, NewLink
  <2>3. ASSUME NEW m \in Message, sent' = Append(sent, m) PROVE Pipe!Send
    <3>1. sent' \in Seq(Message) /\ Len(sent') = Len(sent) + 1
      BY <1>0, <2>3
    <3>2. SubSeq(sent', 1, Len(sent)) = sent
      BY <1>0, <2>3
    <3> QED BY <2>1, <3>1, <3>2 DEF Pipe!Send
  <2> QED BY <2>1, <2>2, <2>3
<1>2. ASSUME ReadPayload PROVE Pipe!Deliver \/ UNCHANGED <<sent, delivered>>
  <2> DEFINE k == wire[1]
             n == expect[1].got
  <2>1. phase = "payload" /\ wire # <<>> /\ wire \in Seq(Chunk)
        /\ PayloadLink(sent, reader, Len(delivered), k, expect[1])
    BY <1>2 DEF ReadPayload, InPayload, IInv, TypeOK
  <2>2. Head(wire) = k
    BY <2>1
  <2>3. /\ Take(reader, k) = Len(k.data)
        /\ Completes(reader, k) => n \in 1 .. Len(sent) /\ MessageOf(reader, k) = sent[n]
        /\ n = Len(delivered) + (IF Completes(reader, k) THEN 1 ELSE 0)
    BY <2>1, Zenon DEF PayloadLink
  <2> HIDE DEF k, n
  <2>4. /\ sent' = sent
        /\ delivered' = IF Completes(reader, k) THEN Append(delivered, MessageOf(reader, k))
                        ELSE delivered
    BY <1>2, <2>2, <2>3 DEF ReadPayload
  <2>5. delivered \in Seq(Message) /\ Len(delivered) \in Nat
    BY DEF IInv, TypeOK
  <2>6. CASE Completes(reader, k)
    <3>1. n = Len(delivered) + 1 /\ n \in 1 .. Len(sent)
          /\ delivered' = Append(delivered, sent[n])
      BY <2>3, <2>4, <2>6
    <3>2. Len(delivered) < Len(sent)
      BY <1>0, <2>5, <3>1
    <3> QED BY <2>4, <3>1, <3>2 DEF Pipe!Deliver
  <2>7. CASE ~ Completes(reader, k)
    BY <2>4, <2>7
  <2> QED BY <2>6, <2>7
<1>3. ASSUME NEW t \in Traffic, WriteHead(t[1], t[2])
      PROVE  Pipe!Send \/ UNCHANGED <<sent, delivered>>
  <2>1. t[1] \in Csid /\ <<t[1], t[2]>> \in Traffic
    BY TrafficFits
  <2>2. PICK f, fmt : MayWrite(t[1], f, fmt) /\ Write(t[1], f, fmt)
    BY <1>0, <1>3, <2>1, HeadMayWrite
  <2> QED BY <1>1, <2>2
<1>4. ASSUME NEW c \in Csid, WriteContinuation(c)
      PROVE  Pipe!Send \/ UNCHANGED <<sent, delivered>>
  <2>1. PICK f, fmt : MayWrite(c, f, fmt) /\ Write(c, f, fmt)
    BY <1>0, <1>4, ContinuationMayWrite
  <2> QED BY <1>1, <2>1
<1>5. ASSUME ReadHeader \/ TimeoutBeforePayload \/ RetryAfterTimeout \/ UNCHANGED vars
      PROVE  UNCHANGED <<sent, delivered>>
  BY <1>5 DEF ReadHeader, TimeoutBeforePayload, RetryAfterTimeout, vars
<1> QED BY <1>2, <1>3, <1>4, <1>5 DEF Next, Writes, Reads, Pipe!Next

\* The chunk stream implements the abstract channel of MessagePipe.
THEOREM ImplementsPipe == Spec => PipeSpec
<1>1. Init => Pipe!Init
  BY DEF Init, Pipe!Init
<1>2. IInv /\ [Next]_vars => [Pipe!Next]_Pipe!vars
  BY StepRefines DEF Pipe!vars
<1> QED BY <1>1, <1>2, Invariance, PTL DEF Spec, PipeSpec, Pipe!Spec

=============================================================================
