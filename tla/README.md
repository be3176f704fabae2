# A TLA+ development of oxideav-rtmp

This directory holds a formal model of the `oxideav-rtmp` crate: TLA+ modules
translated from `src/src/*.rs`, TLC configurations that check them on small
instances, and TLAPS proofs of what matters most for every instance.
`PROJECT.json` lists the components, the runs, the mutants each property
catches, the source lines of every definition, the findings, the hazards and
the theorems. All line numbers refer to the commit in `src/`.

## 1. The system

The crate is a synchronous RTMP endpoint library. Four session types sit on one
pair of chunk-stream codecs over one TCP socket:

| end of the connection | publishing | playing |
| --- | --- | --- |
| client | `RtmpClient` (client.rs) | `RtmpPlayer` (player.rs) |
| server | `RtmpSession` (server.rs) | `PlaySession` (server.rs) |

There is no runtime: every operation is a blocking call of the application. A
session owns its socket; two threads meet only through the socket, except that
`RtmpServer` may run one thread per connection (`serve`, `serve_sessions`).

### Components, their state and operations

**Chunk stream** (chunk.rs). `ChunkWriter` keeps, per chunk stream id (csid), the
header of the last message (`OutState`) and the chunk size; `write_message`
picks the densest of four header formats, splits the payload into chunks,
repeats an extended timestamp on each, and commits the new header at the end.
`ChunkReader` keeps the mirror image (`InState`) plus half-assembled payloads
and the count of received bytes; `read_message` reads chunks until a message is
complete. Nothing on the wire marks a chunk's end: the two copies of the state
must agree on every field that decides a length. *Correct when* the messages
come out whole, unchanged, once, in order, and framing is never lost.

**Connection setup** (client.rs `connect_parsed`, player.rs
`connect_with_options`, server.rs `drive_until_request`, `accept*`, `serve*`,
`PublishRequest`, `PlayRequest`; handshake.rs). The client sends its commands,
matches answers by transaction id, and waits for a status; the server answers
them, builds a request, and hands it to its application for a verdict. *Correct
when* the two ends that come out live hold the same session, chunk sizes and
the acknowledgement window are known before the first media message, refusals
arrive, and nobody waits for ever but behind a client that holds the only thread.

**Teardown** (`close` of the four sessions, netutil.rs). A goodbye message, a
write-half FIN, then `drain_until_fin` discards input until the peer's FIN, 300 ms
of silence or a two-second budget, so that closing the socket does not cause a
reset that discards the goodbye at the peer. *Correct when* the last messages of
an orderly close arrive, two closing ends do not wait for each other, and a live
end learns of the end.

**Session dispatch** (`handle_message`, `handle_event_message`,
`classify_message`, `classify_status`; message.rs). Each session reads a message,
owes an acknowledgement, applies protocol control, parses commands and data into
packets or events, and unpacks aggregates (aggregate.rs) into a queue
`pending_subs` that later polls serve before the wire. *Correct when* each
message of the peer becomes its event exactly once and in order, pings are
answered, and an ended session stays ended.

**Flow control** (chunk.rs counters, message.rs `PeerBandwidthLimiter`, the
window and limit arms of every handler). A 32-bit count of received bytes, the
window, the last acknowledged count, and the limit the peer set. The crate
acknowledges but never waits for an acknowledgement; another implementation may.
*Correct when* a sender that stops at the window is always acknowledged, an
acknowledgement names what has arrived, limits are adopted as their type says,
and the traffic of acknowledgements dies out.

**Packet sources** (adapter.rs). `RtmpPacketSource` and `RtmpPlayerPacketSource`
turn a session's media events into packets on numbered streams. A bounded probe
reads the first events to find the streams and queues the packets; `next_packet`
serves that queue, then the rest of a multitrack message, then the session.
`TimestampUnwrapper` extends 32-bit times. *Correct when* each packet comes out
once, in order, with the meaning its publisher gave it, on the stream of its
track, on a clock that does not jump.

**FLV tags** (flv.rs). A codec without state: legacy and enhanced headers, a chain
of ModEx modifiers, three layouts of several tracks in one message, and typed
views of what metadata and some bodies mean. *Correct when* what is built is what
is parsed, and the demultiplexer gives each track the tag it was built from.

**FLV files** (flv_file.rs, with the envelope of encrypted tags in flv_crypt.rs).
`FlvWriter` frames payloads in tags with a back-pointer each; `FlvReader` reads
the chain, checks it, and says whether it ended between two tags or inside one.
*Correct when* every read returns the tag written there, whatever the disk lost.

**AMF0 and AMF3** (amf.rs, amf3.rs), **shared objects** (shared_object.rs),
**capabilities** (caps.rs). Codecs of values, with tables of references built up
while a message is read, a switch from AMF0 into AMF3, and a conversion back.
*Correct when* an application is told what its peer meant, in whichever encoding it
came, and metadata survives being recorded.

**Cryptographic helpers** (hmac.rs, AES in flv_crypt.rs): byte arithmetic.

### What is hard here

* framing by agreement of two hidden states, with compressed headers, wrap-around
  of 32-bit times, the extended-timestamp boundary and changes of chunk size;
* blocking reads with optional read timeouts, in the middle of anything;
* commands in flight together, matched by number; loops bounded in messages, not
  in time; one thread that serves every connection during setup;
* TCP's own rules at the end: resets overtake data;
* messages that contain messages, queued across polls of an ending session;
* counters that wrap, restarted from four places by messages of either end;
* packets read ahead, on clocks that run apart and streams found as they turn up;
* files cut off, damaged or still growing under their reader;
* reference tables that depend on the order in which everything was read.

The full list, each at its line, is in `PROJECT.json` under `hazards`.

## 2. The modules

| module | models | role |
| --- | --- | --- |
| `MessagePipe` | what one direction of a connection promises | abstract specification |
| `ChunkStream` | chunk.rs `ChunkWriter`, `ChunkReader` | implements `MessagePipe` |
| `ChunkStreamProofs` | | proofs about `ChunkStream` |
| `MCChunkStream` | | small instances |
| `Handover` | what setup promises to both applications | abstract specification |
| `Negotiation` | handshake, setup of both clients and of the server | implements `Handover`; its channels are message pipes |
| `NegotiationProofs` | | proofs about `Negotiation` |
| `MCNegotiation` | | small instances |
| `Teardown` | close, drain and drop of the four sessions over TCP | a run module itself |
| `TeardownProofs` | | proofs about `Teardown` |
| `Dispatch` | what each session does with one message; aggregates; stored data frames | operators |
| `Session` | the polls of live sessions, and the relay from a publisher to subscribers | composes `Dispatch`; its connections are message pipes |
| `Flattening` | | proofs about `FlattenSeq` and numbers modulo a width, the induction they need included |
| `SessionProofs` | | proofs about `Session` and `Dispatch` |
| `MCSession` | | small instances |
| `FlowControl` | byte counter, acknowledgements, windows and limits of both ends | a run's specification |
| `FlowControlProofs` | | proofs about `FlowControl` |
| `MCFlowControl` | | small instances |
| `FlvTags` | flv.rs: tags, ModEx chains, multitrack | operators |
| `PacketSource` | adapter.rs over the polls of a session | composes `FlvTags` with a publisher |
| `PacketSourceProofs` | | proofs about `PacketSource` |
| `MCPacketSource` | | publishers of every shape of tag |
| `Amf` | amf.rs, amf3.rs | operators |
| `SharedObject` | shared_object.rs | operators over `Amf` |
| `TypedViews` | caps.rs, the typed views of flv.rs | operators over `Amf` and `FlvTags` |
| `FlvFile` | flv_file.rs, flv_crypt.rs; a recording application and its disk | composes `FlvTags` with a file; what is recorded is a parameter |
| `FlvFileProofs` | | proofs about `FlvFile` and `FlvTags` |
| `Recording` | what sessions hand out to be recorded or heard, and what is made of it when it is read | gives `FlvFile` its parameters from the four codecs |
| `MCFlvFile` | | what is recorded and heard |

### ChunkStream

`writer.hdr` and `reader.hdr` are the two maps of `OutState` and `InState`, one
`Header` record each; `writer.flight[c]` holds the locals of a `write_message`
call between two of its chunks, `reader.partial[c]` the half-assembled payload.
The wire carries chunks as records. A chunk keeps the two facts that fix its
size: whether it carries an extended timestamp (`ext`) and its payload. The
reader derives both from its own state (`ExtRead`, `Take`); when it derives
something else it would take bytes for what they are not, and `phase` becomes
`"misframed"`. One chunk is written per step (`WriteHead`, `WriteContinuation`)
and read in two (`ReadHeader`, `ReadPayload`), because the reader's state is
already changed when the payload is awaited; `TimeoutBeforePayload` and
`RetryAfterTimeout` are what a read timeout between the two does. This crate's
writer finishes one message before it starts the next; `Interleaving = TRUE`
adds peers that do not. The chunk size is adopted where the code adopts it: by
the writer's caller after the `SetChunkSize` is written, by the session's
handler after it is read.

`sent`, `delivered` and `expect` are history variables: what was written, what
was returned, and for each chunk on the wire the reader state it must lead to.

### Negotiation

One `client[c]` is one `connect` call, with its place in the setup (`at`), its
stream id, the turns its waiting loop has taken, and what it has applied; one
`server[c]` is one `drive_until_request` call and the request it returns. `up`
and `down` are the two directions of a connection. A message is its kind and
the two numbers that setup reads. `api` is the entry point the server's
application uses: with `accept` and `accept_any` one connection at a time is
driven to its request (`Busy`), with `serve` and `serve_sessions` each has a
thread. `ClientReads`, `ServerReads`, `ClientCloses` and `ServerCloses` are the
socket: a write to a closed peer, and a close with unread input, cause a reset
that may discard what the other side has not read. `Foreign*` actions are
servers and clients that are not this crate's; `*Dies` is a local failure at any
point; `ClientHangs` a peer that stops in silence, in front of any entry point.

A server that is not this crate's may send another chunk size or window after the
publish or play command, before its status or behind it (`Changeable`). The history
fields `server[c].changes` and `client[c].adopted` say what it sent and what the
client's reader took in: `wait_for_play_start` applies such a message,
`wait_for_publish_start` drops it (see Observations). Only its messages of setup are modelled,
so what a live session does with one is the matter of `Session` and `FlowControl`.

### Teardown

The two ends are symmetric. `inbox[e]` is everything on its way to `e`, whether
in flight or in its receive queue; `Writes` and `ClosesSocket` are the rules of
TCP on which netutil.rs relies. `Read`, `ReadAndReply`, `ReplyFails` and
`ReadEnd` are the outcomes of one poll; `Close`, `DrainData`, `DrainEnds` and
`DrainGivesUp` one `close` call; `Drop` a session dropped without it. `flushed`,
`got` and `how` are history.

### Dispatch and Session

`Dispatch` gives, for each session type, what ends it (`Ends`), what its polls
return something for (`Surfacing`), what it writes by itself (`Answers`) and its
state afterwards (`After`); `ParseAggregate` and `BuildAggregate` are
aggregate.rs; `FramesAfter`, `DataMessage` and `Forwarded` are the stored data
frames and the relay. A message is its kind (`Kinds`), the handler name of a data
message (`Names`), the one value that matters in it, its timestamp and, for an
aggregate, its sub-messages: `Leaf` holds no others, `Sub` may be in an aggregate,
`Message` may be on the wire.

`Session` connects a publisher (`Upstream`) and players, each with its server
side. `session[e]` holds what a session keeps between polls (`pending_subs`,
`ended`, the reader's chunk size, `is_recorded`, `next_tx`). One turn of a poll
loop is `PollSub` when a sub-message is queued and `PollWire` when not. `Send`,
`SendShifted` and `Call` are what applications write, or what another
implementation would; `Answer` replies to a call. A call or a reply travels by itself
or in an aggregate (`Wrapped`). `Join` and `Forward` are the
server's application as tests/play_relay.rs and tests/data_frame.rs write it:
replay the stored frames to a new subscriber, forward each packet to all of them,
then poll the publisher again. `sent` (what the peer wrote to an end) and `handled`
(what the end's polls have handled, aggregates apart) are history; `Meant` opens the
aggregates of the former, `Surfaced` is what the latter returned to the application.

`TrafficIsBuilt` says that applications pack aggregates with `build_aggregate`
(`SendShifted` is another packer). Three conditions on the traffic are not assumptions
of the module but of single properties, and named by the theorems that need them:
`NestedLast` (order, chunk sizes, media; see finding 4), `OnlyRelayed` (a player gets
media and data from the relay and from nothing else: relay and stored frames) and
`BareIsMetadata` (stored frames; see finding 5). The traffic of the `session` run has
all three, which TLC evaluates; the runs of findings 4 and 5 break one each.

Two properties are about the stored frames. `SubscribersAgree` compares them, name by
name, with the data messages written to a subscriber; `MetadataAgrees` compares the
stored metadata with the last `Metadata` that its player surfaced. A player forgets the
name of a frame (see Observations), so the second speaks of streams whose only data frame is
`onMetaData`.

### FlowControl

`reader[e]` is the `ChunkReader`'s three fields (`received_bytes`,
`window_ack_size`, `last_ack_bytes`), `limiter[e]` the `PeerBandwidthLimiter`. The
handlers differ and are two actions: `PollInSetup` is a turn of a setup loop, which
tells the limiter nothing and acknowledges nothing, and adopts every window and limit
alike, but for `wait_for_publish_start`, which drops both (`Drops`); `PollLive` is a
session: the acknowledgement first, then the message,
which may be answered by a window. `Write` is whatever an end sends of its own
accord; only an end in `other` announces windows and limits after setup, and waits
when `unacked` has reached what it announced. Sizes count bytes, and a control
message has size 1. A client that publishes enters `wait_for_publish_start` (it is then
in `starting`) when it reads `Created`, the answer to createStream; a server that is not
this crate's may announce a window or a limit behind that (`Lates`). `fresh` and
`missed`, the ends that dropped a window and have been sent none since, are history;
`AcksSoonEnough` and `Released` except those ends (see Observations).

What is required of the other implementation is stated in the module's head: it
counts afresh whenever it sends a window or a limit, because the crate keeps one
window for both, and its limits do not exceed the window it announced. Both are
needed: with a limit above its window it would wait for an acknowledgement that
comes later than it expects. The late limit keeps to this too. Windows inside aggregates
are not modelled.

### FlvTags and PacketSource

A payload is a sequence of fields (a FourCC, a length, a body byte), and `Build`
and `Parse` are the two directions of each header, with the first byte's bits. The
value that makes a ModEx length escape to sixteen bits is a constant
(`ModExEscape`, 256 in the code). `FromTags` and `DemuxTracks` are the three
layouts of several tracks.

In `PacketSource`, `src` is the state the source keeps, `probe` the locals of
`probe_source`, `buffered` and `pending` its two queues. `Ingested` is the whole of
one event: clock, tracks, streams, packets, errors. `Open`, `ProbeRead`,
`ProbeTimeout` and `ProbeEnds` are the opener; `NextBuffered`, `NextPending`,
`NextEof` and `SteadyRead` one turn of `next_packet` each. `Send` is a publisher:
it builds an item of a menu at its own time, and `inbox` holds what the session's
polls will return; the parse is done when the message is sent, which makes no
difference to a pure function. An item also says what is meant by it
(a keyframe, a codec header), and `owed` keeps that for `PacketsAsSent`: `Fits`
compares the packet with what the publisher meant, not with the code's own
conversion. `chatter` stands for the messages that a session deals with by itself (pings,
acknowledgements, windows, limits, chunk sizes): `Chatter` sends one, and `Swallow` is
the turn of the session's loop that takes it, returns nothing, starts the read timeout
again and counts as no probe read. Only when there is none under way can the timeout
expire.

### Amf, SharedObject, TypedViews, FlvFile and Recording

Both codecs work on sequences of fields; a text is a sequence of characters, a
number one field. `Reader` is what a decoder carries along: the rest of the input
and the tables of references, which `ReadString`, `ReadTraits` and `Tabled` fill
in the order of the code. `Decode0` and `Decode3` are recursive with the code's
depth limit (`MaxDepth`), `ToAmf0` is the conversion. `SharedObject` and
`TypedViews` are the parsers and builders of messages and views over them.

`FlvFile` is the file: an application records entries, each a type, a payload and
what it is to be read back as. `Entries`, how the body of a script tag is read
(`ReadScript`) and what AMF0 can carry (`Sayable`) are constants, so that the
recursive codecs of AMF stay out of the module that is proved about; `Recording`
computes them. There, an application records items of a menu (`EntryOf`: tags,
data messages in both encodings, encrypted and raw tags) or hears them (shared
objects, capabilities). `WritePayload` hands a tag and its back-pointer to the sink;
`Sink` lets any part of what is pending reach the disk, `Stop` is a crash or a
write that failed. `Damage` changes a field that a reader checks (of the header the
signature, the version, DataOffset or PreviousTagSize0; of a tag the stream id or the
back-pointer), `Garble` one that it takes as it is (the header's flags; of a tag the
type, the time or the body). `TagAt` is `read_tag`: it says what is
returned, how many fields are taken and how many are counted, since the code
counts late. A reader that has met a tear, or a tag whose body it did not read,
is `"lost"`: the code would go on from wherever it stands, and an application that
goes on is not modelled; behind a refused back-pointer the framing is intact, and
reading goes on (see Observations). `tags`, `misheard`, `hurt` and `garbled` are history.

## 3. The runs

| run | question | result |
| --- | --- | --- |
| `chunk_stream` | Does the reader return what was written, whatever formats, timestamps, sizes and interleavings carry it? Does everything written arrive? | holds |
| `chunk_timeout` | May a read timeout be set on a session, as the docs recommend? | refuted, finding 1 |
| `negotiation` | Do the two ends agree, does every refusal and failure arrive, does every `connect` return that is not behind a client that hangs in front of the only thread? | holds |
| `silent_server` | Does `connect` return when a server sends no status? | refuted, finding 2 |
| `teardown` | Does the last message of an orderly close arrive, do drains meet, is the end seen? | holds |
| `quiet_peer` | Does a peer lose nothing when the drain stops after silence? | refuted, finding 3 |
| `session` | Is each message handled once, in order, at its time and with the right chunk size, however it is bundled? Do subscribers get what was published and hold the stored metadata, early or late? Is every call answered once, in or out of an aggregate, and every ping? | holds |
| `flow_control` | Is every window respected around the wrap, does an acknowledgement name what arrived, is a waiting sender released whose window its peer did not drop in setup, do acknowledgements die out? | holds |
| `packet_source` | Do packets come out as they were meant, once and in order, each track on its own settled stream, whatever was probed, bundled or wrapped? Does an opener with a timeout return, unless the peer sends control messages for ever? Is everything delivered? | holds |
| `recording` | Does the file read back what was recorded, on a cut, damaged or growing file? Are metadata, shared objects and capabilities told as their sender meant them? | holds |
| `nested_aggregate` | Does the order also hold for an aggregate between the messages of another one? | refuted, finding 4 |
| `bare_cue` | Do subscribers agree about the metadata when a bare data message of another name is relayed? | refuted, finding 5 |

### Bounds, and why they are enough

*ChunkStream.* 32-bit time is `0..7` with 3 as the 24-bit marker, so that equal,
growing, shrinking and wrapping timestamps occur below, at and above the
boundary. Payloads have 0 or 3 bytes and chunk sizes are 1, 2 and 3 (5 is cut to
the maximum of 3), so that messages take one, two or three chunks. Three
messages are enough for every pair of consecutive headers on one csid (the state
the code keeps reaches back one message) and one on another csid in between,
and for a change of size before, between or within them. The read timeout may expire
inside any chunk (`ReadTimeouts = TRUE`). `OnlyTimeoutsTear` says that nothing else
loses the framing; a reader that has lost it stops, and `EventuallyDelivered` excepts it.

*Negotiation.* Two connections, the smallest number with a queue in front of a
one-thread server; the second one is a player. Either may hang: then the other waits
for ever, which `ConnectReturns` excepts by name (`Blocks`) and nothing else. The waiting loops look at 3 and 4
messages instead of 20 and 50: enough for the statuses of this server, and
exceeded by the five media messages of a chatty one. A third server changes its chunk
size before its status and its window behind it: one of each is enough, since a change is
taken in or dropped by itself. The publish-only entry points
`accept` and `serve` differ from the others in which verdicts are possible.

*Teardown.* Two application messages and two replies each way (one reply in
`quiet_peer`): a message before and after the peer's close, a reply that meets
an open and a closed socket.

*Session.* One publisher and one subscriber, who may join at any time: the server
keeps nothing that two subscribers share, except the stored frames, with which
each is compared. Timestamps wrap at 4, so every offset and both sides of the wrap
occur. Each instance is one of four scenes with a menu and two or three
application writes, enough for a message before and after an aggregate, for a
frame to be set, replaced and cleared, and for two calls under way at once. Nested
aggregates in `session` stand last in the outer one, where queueing at the back is
right; finding 4 is about the other place.

*FlowControl.* The counter wraps at 11 and windows are 0 (off), 4 and 8; messages
have sizes 1 and 3, so that the counter stands on both sides of the wrap, in front
of and behind the last acknowledged count, with a window crossed exactly and
overshot. `Budgets` trades media against control messages: enough media for two
acknowledgements across the wrap, enough limits for a Hard, a Soft and a
Dynamic one in any order. `FlowConstants` keeps a window away from the modulus by one
message, as a window within one message of 2^32 is never seen full, and excludes
windows of one to three control messages: no more than three follow a window in setup,
which acknowledges nothing, and with a window of one, acknowledgements would acknowledge
each other without end.

*PacketSource.* Time wraps at 8 and a clock steps by 3 in either direction, less
than half a turn, as `unwrap_ms` requires. The probe reads two events instead of
32: it ends at its limit, with both kinds seen, at the end and by its timeout. Two
messages of the full menu (every shape of tag, with metadata, silence and a broken
multitrack body) meet each pair of shapes in either order; three of the small menu
meet two kinds and two tracks around the wrap. The four scenes are the four ways to
open a source. The escape of a ModEx length is 4, below and above which the menu has
lengths.

*FlvFile.* `MaxSize = 70` and `TimeLow = 16` stand for 2^24 - 1 and 2^24, and one
raw payload is larger. `MaxDepth = 4` has values at and beyond it; `ShortMax = 4`
has keys at, below and above it; `MaxMask = 300` has masks above the saturation.
Five scenes: three with wide menus (media and encrypted tags; data messages in both
encodings; views, shared objects and capabilities) on an honest disk, since what one
tag holds does not depend on how the disk fails; and two with few tags, one with
every cut, crash and a reader at work meanwhile, one with every damage of one field but
DataSize, by one up or down, and a reader whose cap refuses a tag.

### Fairness, and why the code justifies it

*ChunkStream*: weak fairness of the reader and of a writer in mid-message. A
session's thread sits in `read_message`; `write_message` is a loop. Starting a
message is not fair. *Negotiation*: weak fairness of each connection's client and
server steps, as each is one thread's next step, and of the application's
verdict, which `accept_any`'s contract asks for; nobody must dial, fail or hang.
*Teardown*: weak fairness of polling a live session (the application's duty in a
poll-based library) and of the drain's reads. The drain's two time limits are
not fair: `DrainsMeet` must not need them. *Session*: weak fairness of polling
each live session, of answering a call in hand and of forwarding a packet in hand;
all are the application's duties. Nobody must write or join. *FlowControl*: weak fairness of each end's
poll; an application that stops polling stops everything. Nobody must send.
*PacketSource*: weak fairness of the opener, which runs in one call with the session's
loop inside it (`Swallow`), and of `next_packet`, which the application keeps calling. That
includes the read timeout of a probe, which is a real timer: it is only enabled while
nothing arrives. `Chatter` is not fair, and `OpenReturns` excepts behaviours with
infinitely many of it. Nobody
must publish, and a source without a timeout may probe for ever: `OpenReturns`
speaks of the others. *FlvFile* has safety properties only.

`CHECK_DEADLOCK FALSE` is set everywhere: each instance ends, with all messages
read, with every connection settled or with both sockets closed.

### Findings

1. `chunk_timeout`. `set_read_timeout` is recommended so that polls return
   periodically (server.rs:1094-1096, client.rs:801-806), but `read_message`
   keeps nothing of a half-read chunk: a timeout between a chunk's header and
   its payload loses the framing for good.
2. `silent_server`. `wait_for_publish_start` says "don't block forever, just wait
   briefly" (client.rs:434-435) and sets no timeout: its error arm for timeouts is
   never reached and `connect` waits as long as the server is silent.
3. `quiet_peer`. The drain's idle cutoff assumes that "a peer that has gone quiet
   without closing has nothing more in flight to protect" (netutil.rs:75-76). A
   peer that is not polling has not read the goodbye yet; its next write meets a
   closed socket, and the reset discards it.
4. `nested_aggregate`. "Sub ordering is preserved verbatim" (server.rs:1454-1455),
   but a nested aggregate's sub-messages are appended behind what is still queued
   of the outer one.
5. `bare_cue`. "A bare `onCuePoint` is live-only traffic" (server.rs:1372-1373), but
   it surfaces as `Metadata` without its name and `forward` sends it on as
   `onMetaData`: the subscribers that are connected lose the stream's metadata.

### Observations

Met while modelling, with no run of their own. The first six are places where the code
departs from its documentation: the model follows the code, and where a property that holds
of the code would not hold of the documentation, or the other way round, its comment says so.

* *Control messages behind the publish command.* chunk.rs:20 says that "`SetChunkSize` is
  applied live on the reader when observed", and the crate's README.md, 366-369, that "both
  peers honour the §5.3 obligation to acknowledge". `wait_for_publish_start`
  (client.rs:1243-1259) drops a `SetChunkSize`, a window or a limit that comes between
  the publish command and the status; the other waiting loops and the sessions apply
  it. A server that changes its chunk size there is misread from the next long message on; one
  that announces a smaller window there, or its first, waits for ever. Both happen in
  the models (`Change`, `Lates`), and `ReadyForMedia` promises a publisher nothing of
  such changes; `AcksSoonEnough` and `Released` except the ends in `missed`. This crate's
  server announces everything in answer to connect.
* *A probe's timeout.* adapter.rs:599-601 says that `read_timeout` is there so that a
  publisher "doesn't stall probing indefinitely". Each message that the session keeps to
  itself (player.rs:372-406, server.rs:1263-1295) starts the timeout again and counts as no probe
  read: a peer that sends a ping before every timeout, and no media, holds the opener
  for ever. `OpenReturns` excepts exactly that.
* *Names of data frames.* player.rs:90 calls `PlayerPacket::Metadata` "An `onMetaData` data
  message". A player surfaces every data message with an object in it as `Metadata`, without
  its name (424-431): of a stream with a stored frame of another name, the last `Metadata` that
  an early and a late subscriber see may differ. `MetadataAgrees` excepts such streams.
* *Later replies.* player.rs:663-666 says that replies after setup "are swallowed", and
  server.rs:1507-1510 that "anything else is consumed silently". Both sessions surface them
  (player.rs:669-679, server.rs:1521-1530), as `send_call` and `call` need and `CallsReturn` asks.
* *Times of plain video.* adapter.rs:77-78 says that pts and dts of non-NALU video are both
  "timestamp_ms * 1_000_000 + nano_offset". The code (905-910), its comment (867-875) and its
  test (1887-1891) add the offset to the pts alone. `PacketsAsSent` (`FitsAt`) asks for what
  the code gives; the menu has an AV1 tag with such an offset.
* *A wrong back-pointer.* flv_file.rs:489-492 says that on a mismatch of PreviousTagSize "the
  reader refuses to advance past it", and a test (1548-1550) that it "must refuse rather than
  re-sync mid-stream". `read_tag` has taken the tag and the pointer when it refuses them
  (676-695), and its next call returns the next tag: `ReadsBack` asks for that tag to be the
  right one.

Those that follow are excluded from a property by name, or lie outside what a document
promises.

* An end that sends a limit larger than its own window, or that does not start its
  count again with a window, may wait for longer than it expects (see
  FlowControl above). A Soft limit narrows only what an earlier limit set: the
  window adopted in setup can be widened by it, against message.rs:93-95 read
  literally; `SoftNeverWidens` says what holds.
* A zero-length audio message, which some encoders send as silence, is an error of
  `parse_audio` (flv.rs:2757-2760): each poll returns it and goes on, but the opener
  of a packet source fails. Both are modelled; `PacketsAsSent` excepts a failed
  opener.
* A probe that times out in mid-message carries on with a torn framing. This is
  finding 1; `PacketSource` lets reads time out between messages only.
* `PROBE_LIMIT` is documented as a number of packets and counts events.
* AMF3 allows empty keys and keys above 65535 bytes, and an AMF0 value that switches
  to AMF3 may nest deeper than AMF0 alone: recorded, these read back as something
  else. `Recordable` excepts them. A reference from inside an AMF3 array or object
  to itself resolves to Null.
* A legacy AMF3 data message whose first value is a dictionary begins with 0x11, like
  one that switches from AMF0.
* `OnMetaData` promises a lossless round trip (flv.rs:927-929), but a known property
  of another type is dropped, and of a repeated name the last one is kept.
* A read of a file that is still growing latches the end when it meets it between
  two tags, and loses framing inside one; both are modelled (`live`). `read_all`
  returns nothing when one body cannot be parsed.

## 4. The proofs

`ChunkStreamProofs` proves about `ChunkStream`, for every set of csids, messages
and payload bytes, every chunk size, marker and modulus, every number of messages,
with and without interleaving:

| theorem | statement |
| --- | --- |
| `TypeCorrect` | `Spec => []TypeOK` |
| `FramingHolds` | without read timeouts, `Spec => []FramingAgrees` |
| `OnlyTimeouts` | `Spec => OnlyTimeoutsTear` |
| `OrderHolds` | `Spec => []DeliveredInOrder` |
| `WireLeads` | `Spec => []WireLeadsToWriter` |
| `ImplementsPipe` | `Spec => PipeSpec`, the refinement of `MessagePipe` |

*Assumptions*: `WireFormat` (the marker lies below the modulus, sizes are
positive), `TrafficFits` (each message fits the 24-bit length field, and a
`SetChunkSize` body encodes a number; `write_message` checks neither, so it is
the caller's obligation) and `IdleIsNoFlight` (a model value is not a record).
TLC evaluates all three in every run.

*The argument.* `DeliveredInOrder` is not inductive: it says nothing about the
chunks still on the wire nor about the header state with which the reader will
decode them. The inductive invariant is

    IInv == TypeOK /\ FlightsOK /\ Links /\ InPayload /\ DeliveredInOrder

`FlightsOK` says that a write in progress holds the header it will commit and a
chunk boundary of its payload. `Links` says that the chunks on the wire form a
chain: reading each in the state its predecessor leads to yields the state that
`expect` recorded, and the last one is `Mirror(writer)`, the reader state that
matches the writer. `InPayload` is the same between a chunk's header and its
payload. The heart is `HeadDecodes` (the header format chosen by `HeadFmt` is
decoded, from the same old header, into the header the writer commits, at every
extended-timestamp boundary and wrap), `HeaderReplays` and `PayloadReplays` (so a
new chunk extends the chain); reading a chunk consumes the first link.

`FlowControlProofs` proves about `FlowControl`, for every width of the counter, every
set of windows and message sizes, every window or limit sent late in setup, and any amount
of traffic:

| theorem | statement |
| --- | --- |
| `TypeCorrect` | `Spec => []TypeOK` |
| `InTime` | `Spec => []AckedInTime` |
| `SoonEnough` | `Spec => []AcksSoonEnough` |
| `NameWhatArrived` | with `WithinATurn`, `Spec => []AcksNameWhatArrived` |
| `SoftNarrows` | `Spec => SoftNeverWidens`, which no run repeats |

*Assumption*: `FlowConstants`, whose restrictions of substance are that a window and one
message fit into the counter, and that a window is larger than three control messages (see
the bounds above): `AckedInTime` needs the latter because a setup loop acknowledges
nothing, so that what follows a window there is still unacknowledged when the session
begins.

*The argument.* `AckedInTime` speaks of bytes, the code of two counters. The inductive
invariant is

    IInv == TypeOK /\ SetupFirst /\ Counting /\ AckedInTime

`Counting` says that the wrapped difference of the counters is the number of fresh
bytes; `SinceGrows` carries it across the wrap, as long as the distance is less than a
turn, which is what `AckedInTime` and the assumption on the windows guarantee together.
`SetupFirst` says that an end in setup still has the peer's setup in front of
everything else, so that counting starts at a window and a session begins with less
than a window read. `AcksSoonEnough` speaks of silent directions only; its
invariant is `Promised`: of the messages under way to an end there is one, or
else the window it already has, that settles what its peer announced last, and no
later limit widens it. Reading the settling message moves the promise to the reader,
writing a window starts a new one, and one that `wait_for_publish_start` will drop
promises nothing, until the reader is sent another (`missed`).

`AcksNameWhatArrived` compares a wrapped counter with bytes under way. `WithinATurn` is
what makes the comparison mean anything: no step writes so much that a turn of the counter
lies between an end and its peer, or between an end and an acknowledgement on its way to
it. Nothing in the crate sees to that: it never waits for an acknowledgement, and may write
2^32 bytes ahead if the buffers of TCP take them. So it is a hypothesis of the theorem, on
behaviours, and not an assumption of the module. With `CounterMod = 14` every behaviour of the
`flow_control` instance satisfies it; the run keeps 11, where the counter comes closer to the
windows, and finds the property to hold there too. The invariant `Balanced` says
that what an end has written is what its peer has read and what is under way, modulo the
width. Each step is one `Moves` (take a message, write some, an acknowledgement first),
and what it writes names exactly what has been read: `MoverNamed` and `PeerNamed` carry the
order of the acknowledgements for either end.

`TeardownProofs` proves about `Teardown`, for any number of messages and replies:

| theorem | statement |
| --- | --- |
| `TypeCorrect` | `Spec => []TypeOK` |
| `ResetsHaveCause` | `Spec => []ResetsExplained` |
| `OrderlyCloseKeepsAll` | `Spec => []NothingLost` |

*Assumptions*: none beyond the module's TCP, which is `Writes` and `ClosesSocket`.

*The argument.* The inductive invariant adds to `TypeOK`, for each end, five facts
(`Sound`). `HowAgrees`: only a closed socket was closed in some way. `LastWords`:
nothing but a FIN follows a goodbye in an inbox, nothing follows a FIN, and whoever wrote
either has begun to close. `PeerGone`: an end that drained to the FIN, failed, or came to
the end of its polls has a peer that is closing. `Explained` is `ResetsExplained`.
`Kept`: before an end closes, what it got and what is in its inbox make up all that was
written to it, unless the peer gave up. The
heart is `StillOpen`: while an end has not begun to close, its peer cannot have closed
without giving up, so a write that is refused, and with it a reset that discards,
always has one of the excuses the property names. The actions then are instances of
three kinds of step: an end takes and writes (`MovesKeep`), discards (`SkipsKeep`), or
closes its socket (`ClosesKeep`). What is counted is the cardinality of a set of indices,
so that no induction over sequences is needed.

`NegotiationProofs` proves about `Negotiation`, for any number of connections, whatever
the callers ask for, every choice of entry points, all bounds of the waiting loops, and
any servers that answer a request differently:

| theorem | statement |
| --- | --- |
| `TypeCorrect` | `Spec => []TypeOK` |
| `StreamIdsAllocated` | `Spec => []StreamIdAllocated` |
| `BothEndsAgree` | `Spec => []EndsAgree` |
| `MediaCanFlow` | `Spec => []ReadyForMedia` |
| `KeepsContract` | `Spec => HandoverSpec`, the refinement of `Handover` |

*Assumptions*: `SetupConstants` (types and positive loop bounds) and `ForeignServers`: a
server that accepts sends no refusal, and names a stream recorded before it says that
it starts. The second is needed by `EndsAgree` only: `is_recorded` is what
`wait_for_play_start` has seen by the time it returns, so after a later announcement a
player would hold another flag than its server. This crate's `accept_recorded` sends the
flag first.

*The argument.* All four invariants speak about what one end knows of the other, and what
it knows came by messages. The inductive invariant `IInv` is `TypeOK` and, for each
connection, `Good(cl, sv, u, d)` of its two ends and two pipes: what each end knows
(`ClientGood`, `ServerGood`), what the state of the sockets is (`PipesGood`), and, for
each message under way, what it says (`UpFact`, `DownFact`) and what comes before or behind
it (`UpOrder`, `DownOrder`). For example: a `_result` that the client would take for the
answer to its createStream is the last message on its way and nothing is on its way back,
so it carries a stream id that the server has allocated since, and the window and the
chunk size were announced before it. `Led(ms, i, K)` (a message of one of the kinds K
precedes the i-th) turns "has been applied" into a fact that survives reading: the lemmas
`LedAfterRead`, `LedAfterWrite` and `LedByWrite` say how. Reading is one relation, `Reads`,
whether or not a reset discards the end of what was sent. For each action there is a lemma
about the four components (`...Good`) and one that puts them back into the variables
(`Step...`). For the refinement, each step changes the verdict or one outcome or neither
(`ContractStep`), and `IInv` supplies what the abstract step asks for: a verdict behind
every status.

`MediaCanFlow` promises what the server announced in answer to connect, and to a player also
what the server changed with its verdict: the invariant `Following` says that a player in its last wait, or
live, has taken each change in or finds it on its way. For a publisher the theorem
claims nothing of such changes: they are dropped.

`SessionProofs` proves about `Session`, for any number of connections, every menu and
budget of traffic, and every width of the timestamps:

| theorem | statement |
| --- | --- |
| `TypeCorrect` | `Spec => []TypeOK` |
| `InOrder` | with `NestedLast`, `Spec => []HandledInOrder` |
| `SizeIsInForce` | with `NestedLast`, `Spec => SizeInForce` |
| `Agreement` | with `OnlyRelayed` and `BareIsMetadata`, `Spec => []SubscribersAgree` |
| `RelayedMedia` | with `NestedLast` and `OnlyRelayed`, `Spec => []RelayKeepsMedia` |

*Assumptions*: `TimestampModulus`, `HandlerNames`, `SessionConstants` and
`TrafficIsBuilt`, which TLC evaluates in every run of `Session`. The hypotheses of the
theorems are needed: without `NestedLast` order fails (finding 4), and a chunk size
changed from inside a nested aggregate can be in force too late; without `BareIsMetadata`
agreement fails (finding 5); an application that writes data or media of its own to a
player can tell it anything. `Agreement` is about the data messages written to
subscribers; `MetadataAgrees`, about what players make of them, is checked by TLC.

*The argument.* Aggregates make histories differ from what travels: a message becomes many
when it is handled. `Bring(f, ms)` is the flattening of what each message of `ms` becomes
under `f`, and `Flattening` proves that it distributes over append and concatenation
(`BringLaws`). Those laws are about sequences of any length, hence by induction, of
which the provers only have the library's principle for sets of numbers
(well-foundedness): a property of sequences is the set of those that have it, and
`InductionOnAppend` puts every sequence in it. With the laws, `HandledInOrder` and
`SizeInForce` follow from one invariant of each direction, `Channel`:

* `Accounted`: what the peer wrote, opened, is what has been handled, then the queue of
  sub-messages, then the inbox, both opened;
* `Sized`: replaying the size changes of the queue from the size in force gives the size
  that the next message in the inbox was written with; replaying those of each message
  gives the size of the next one, and the last one that of the writer;
* nested aggregates stand last in the queue and in every message of the inbox.

The last conjunct is why `NestedLast` is needed and why it is enough: a nested aggregate
that is served when nothing follows it in the queue is appended behind nothing. The
timestamps are the other half: `ParseAggregate` gives back what `BuildAggregate` packed,
from whatever zero the wire counts (`BuiltParsed`, `ShiftedParsed`), by arithmetic modulo
any width.

For the stored frames, `Informed` says that a subscriber has been told the value of every
stored frame, or the packet under way to it tells it; joins and polls fall between
forwards, so the packet in hand belongs to the invariant. `OnePacket` bounds it and
`BareOnly` says of all that is queued or on the way to the publish session that a bare
object in it is metadata. For the media, `Relayed` says that what the publish session has
handled, of media, ends with what was written to a subscriber and the packet under way
to it, and that nothing was written before it joined. `RelayKeepsMedia` puts it between
two instances of `Accounted`: the subscriber has handled a beginning of that, and the
publish session a beginning of what the publisher sent.

`PacketSourceProofs` proves about `PacketSource`, for any publishers, tags, track ids, clocks
and half-turn steps, each of the four openers, and every probe limit:

| theorem | statement |
| --- | --- |
| `TypeCorrect` | `Spec => []TypeOK` |
| `AsSent` | `Spec => []PacketsAsSent` |
| `Settled` | `Spec => StreamsSettled` |

*Hypotheses*: each theorem is about menus with `WellRead`, `ReadAsMeant` and `ClockKept`,
which TLC evaluates on the menus of the run (`MenusAreFit` in `MCPacketSource`). `WellRead` types
what a session hands out. `ReadAsMeant` says of each message alone, read at time 0 and by
itself, that its tags are converted to what the publisher meant; this is the part of
`PacketsAsSent` that is about codecs, which have been checked on every tag of the
menus. What is proved is the rest, which depends on the order of things: that it stays true
for every message when tags have been probed, queued, bundled, and stamped on a clock that has
wrapped any number of times. `ClockKept` is needed: a message whose tag does not parse does not
move the source's clock, so too many of them in a row carry the publisher more than half a
turn away, where `unwrap_ms` cannot tell forwards from backwards. The menus of the runs either
have no such message or steps too short for that.

*The argument.* The inductive invariant is

    IInv == Shaped /\ Queued /\ Ending /\ Clock /\ Owing /\ Returned /\ Homes

`PacketsAsSent` compares what is queued with the front of what is owed. `Owing` says where the
rest is: what is owed is what the queued packets mean, followed by what each message in the
inbox stands for, flattened; a message of three tracks stands for three packets, one
whose demultiplexer fails for none. `Clock` puts the source's last time, the real times of the messages
in the inbox and the publisher's present in one chain (`Chain`), each less than half a turn from
the one before; so each unwraps to its real time plus one constant, a multiple of the turn, which
is `epoch`. Messages that do not move the clock stretch the last link by what `ClockKept`
allows (`Slack`). `Homes` and the parts about streams say that a packet's stream is that of its
track, for which `Table` (no track is listed twice) is enough. `Ingested` is the heart: the lemmas
about it go from one track to all by `InductionOver` of `Flattening`.

`FlvFileProofs` proves about `FlvFile`, for any entries, sizes, times, caps, cuts and damage of
one field, whether a reader checks it or not, but DataSize:

| theorem | statement |
| --- | --- |
| `TypeCorrect` | with `EntriesRead`, `Spec => []TypeOK` |
| `Recorded` | with `EntriesRead`, `Spec => []ReadsBack` |
| `TagsReadBack` | a `Plain` tag is read as it was built, for every value of its fields |
| `MediaReadBack` | so an entry with such a tag satisfies what `EntriesRead` asks |

*Hypothesis*: `EntriesRead` says of each entry alone that `read_tag`, given its type, time and
payload, yields what the entry is to be read back as, or that AMF0 cannot carry it. TLC
evaluates it on every entry of the run (`EntriesAreRead` in `MCFlvFile`). For media tags
without a ModEx chain and without tracks it is proved: `Plain` ranges over every codec, frame
type, packet type (the reserved ones too), FourCC, 24-bit composition time and body. The fields a
layout does not carry are absent in `Plain`, as they are in what the parser returns; an AVC
tag without a packet type is built as a coded frame and is not `Plain`.

*The argument.* The difficulty is that the disk can stop anywhere, and that a reader may be at
work while more arrives. The invariant therefore speaks about `Fields`, the fields that are on
the disk or pending, by their number: each says, of a field or a range of fields, "if it is still there,
it is this" (`Good`, `Header`). Losing any end of them keeps that (`Kept`), and so does handing over
a part (`Handed`). `Writing` and `Reading` place the writer and the reader: the reader is between the
tags it has read and the next one, at the position its own count says unless something was damaged.
`GoodRead` is the result already returned. With `EndOf` and `Start` the tags lie one behind the
other without a gap (`InOrder`), so a read that stops in front of, in, or behind a tag's body
or back-pointer decides between a clean end, a tear and a whole tag by comparing
numbers (`ReadRight`). Damage of one field spoils one `Good` and leaves the others
(`TagDamaged`, `HeaderDamaged`); where nobody looks, it leaves the framing of its own tag too
(`TagGarbled`), so that tag is read as another one and not refused.

## 5. Checked by TLC only

`MetadataAgrees`: what a caught-up player surfaced last. The parts of a proof are there
(`Accounted` and `Informed`); it would need that no stored frame is younger than the data
on its way to the player.

`ScriptKept`: what a session hands out and what is made of a script tag are computed by the
codecs of AMF (`Amf`), shared objects and views (`SharedObject`, `TypedViews`) and by
`Recordable`, which recurse over values; what a recursion over data computes for every input
is out of reach of the provers (the library's induction principles take an operator as a
parameter), and they say nothing of a module with RECURSIVE operators. TLC checks the
values of the menus. For the same reason the ModEx chain and the bodies of several tracks
are read back on the menus only, though `FlvTags` and `PacketSource` recurse by functions and
folds: a theorem about them would be an induction over the parser.

Liveness everywhere (`EventuallyDelivered`, `ConnectReturns`, `ServerSettles`, `DrainsMeet`,
`EndIsSeen`, `CallsReturn`, `PingsAnswered`, `Released`, `AcksDieOut`, `OpenReturns`,
`AllDelivered`) rests on fairness and ENABLED, which tlapm does not treat.

## 6. Not modelled, and why

* basic-header encodings of csids above 63, `abort_partial` (no session calls it),
  payloads of 16 MiB and more (masked by `write_message`);
* the digest handshake's arithmetic, HMAC and AES: a digest verifies or it does not, an
  encrypted body is opaque;
* the content of tokens, URLs and host names; UTF-8 errors, fractions, NaN and
  infinities, and dates' time zones in AMF values; handlers of externalizable AMF3
  classes, which an application would have to install;
* fields of a tag that the crate writes and nothing reads back; lookup tables of names;
* the questions an application asks of capabilities it holds (`effective_mask`,
  `has_fourcc`);
* damage of a tag's DataSize, behind which a reader takes payload bytes for headers;
* windows and limits that travel inside aggregates; an encrypted tag whose
  parameters contradict its filter's name, which `EncryptedTag` can be built with;
* error.rs and lib.rs: types and re-exports;
* real time: a timeout is a step that may happen whenever its condition holds.

## 7. Plan

Every safety and action property of the passing runs but `ScriptKept` and `MetadataAgrees` is
proved. A next step
for proofs is `EntriesRead` for tags with a ModEx chain or with tracks: the lemma would be that
`ReadModEx` undoes `ModExChain`, by induction on the number of entries with `InductionOver`.

To be modelled, when the code grows: windows inside aggregates (by giving
`FlowControl` the queue of `Session`), and a session's reader that times out under a
packet source (by composing `ChunkStream` with `PacketSource`).
