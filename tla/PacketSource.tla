---------------------------- MODULE PacketSource ----------------------------
(***************************************************************************)
(* A packet source (src/adapter.rs) over a session: the opener, the        *)
(* bounded probe, the steady pump, the streams it registers and the clock  *)
(* it unwraps.  RtmpPacketSource (over an RtmpSession) and                 *)
(* RtmpPlayerPacketSource (over an RtmpPlayer) are the same code twice.    *)
(*                                                                         *)
(* A publisher builds tags (FlvTags) and sends them; inbox holds what the  *)
(* session's polls will return.  That a poll returns each message once and *)
(* in order is what Session shows; that a read timeout inside a message    *)
(* tears the framing is what ChunkStream shows, so here a read times out   *)
(* only between messages.  Messages that the session deals with by itself  *)
(* never come out of a poll, but they start its read timeout again         *)
(* (chatter).                                                              *)
(*                                                                         *)
(* owed, epoch and homes are history: the packets the publisher means and  *)
(* the application has not got, how far the publisher's clock is from the  *)
(* source's, and the track for which each stream was used first.           *)
(***************************************************************************)
EXTENDS FlvTags, FiniteSets

CONSTANTS
    TimeMod,     \* 2^32: message timestamps are modulo this
    ProbeLimit,  \* PROBE_LIMIT (32)
    Menus,       \* name -> set of messages a publisher may send (see The publisher)
    Scenes,      \* what happens: [opener, timed, start, steps, menu, total], see Init
    Names        \* application and stream names; "" in a URL accepts any

ASSUME SourceConstants ==
    /\ TimeMod \in Nat \ {0} /\ TimeMod % 2 = 0 /\ ProbeLimit \in Nat \ {0}
    /\ \A s \in Scenes : /\ s.opener \in {"bare", "probe", "listen", "dial"}
                         /\ s.menu \in DOMAIN Menus /\ s.start \in Int /\ s.total \in Nat
                         /\ \A d \in s.steps : d \in Int /\ -TimeMod < 2 * d /\ 2 * d < TimeMod

MsToNs == 1000000   \* RTMP_MS_TO_NS

Kinds == {"audio", "video"}
Tracks == Kinds \X (0 .. 255)

VARIABLES
    scene,     \* the scene, fixed
    phase,     \* opening, probing, steady, or failed: the opener has returned an error
    src,       \* streams, tracks, metadata, ts and ended of the packet source
    probe,     \* the probe's locals: the kinds it has seen and the events it has read
    buffered,  \* packets read while probing
    pending,   \* packets of a multitrack message behind the one that was returned
    result,    \* what next_packet returned last
    inbox,     \* what the polls of the session will return, in order
    now,       \* the publisher's clock in milliseconds, as far as it likes
    chatter,   \* a message that the session deals with by itself is under way
    closed,    \* the publisher has ended the stream
    left,      \* how many messages it may still send
    owed, epoch, homes

source == <<phase, src, probe, buffered, pending, result>>
publisher == <<inbox, chatter, now, closed, left>>
vars == <<scene, source, publisher, owed, epoch, homes>>

Init ==
    /\ scene \in Scenes
    /\ phase = "opening"
    /\ src = [streams |-> {}, tracks |-> <<>>, metadata |-> <<>>, ts |-> <<>>, ended |-> FALSE]
    /\ probe = [kinds |-> {}, reads |-> 0]
    /\ buffered = <<>> /\ pending = <<>> /\ result = [what |-> "none", packet |-> <<>>, meant |-> <<>>]
    /\ inbox = <<>> /\ chatter = FALSE /\ now = scene.start /\ closed = FALSE /\ left = scene.total
    /\ owed = <<>> /\ epoch = {} /\ homes = {}

-----------------------------------------------------------------------------
(* Clock, streams and packets. *)

\* Fault: the clock counts full turns from how often the raw time has gone backwards.
FaultEveryDropWraps(ts, raw) ==
    IF ts = <<>> THEN <<raw, raw>>
    ELSE <<raw, ts[2] + IF raw >= ts[1] THEN raw - ts[1] ELSE raw - ts[1] + TimeMod>>

\* unwrap_ms: the last raw time and the extended one; the wrapping difference is a signed
\* step, whichever track the message belongs to.
Unwrapped(ts, raw) ==
    IF ts = <<>> THEN <<raw, raw>>
    ELSE LET d == (raw - ts[1]) % TimeMod
         IN  <<raw, ts[2] + IF 2 * d < TimeMod THEN d ELSE d - TimeMod>>

\* Fault: the index of a track is counted after the track has been appended.
FaultIndexAfterAppend(tracks, kind, id) ==
    IF id = 0 THEN IF kind = "audio" THEN 0 ELSE 1 ELSE 2 + Len(tracks)

\* TrackStreams::index ...
StreamIndex(tracks, kind, id) ==
    IF id = 0 THEN IF kind = "audio" THEN 0 ELSE 1
    ELSE IF \E i \in DOMAIN tracks : tracks[i] = <<kind, id>>
         THEN 1 + CHOOSE i \in DOMAIN tracks : tracks[i] = <<kind, id>>
         ELSE 2 + Len(tracks)

\* ... and the table it leaves.
WithTrack(tracks, kind, id) ==
    IF id = 0 \/ \E i \in DOMAIN tracks : tracks[i] = <<kind, id>> THEN tracks
    ELSE Append(tracks, <<kind, id>>)

IsKeyframe(t) == t.frame \in {Keyframe, GeneratedKey}

\* is_avc_sequence_header, is_aac_sequence_header, is_ex_sequence_header
IsSequenceHeader(t) ==
    \/ t.kind = "video" /\ t.codec = AVC /\ t.sub = 0
    \/ t.kind = "audio" /\ t.codec = AAC /\ t.sub = 0
    \/ t.fourcc # None /\ t.pt = SequenceStart

IsMetadata(t) == t.kind = "video" /\ t.fourcc # None /\ t.pt = Metadata

\* audio_codec_id_for_tag, video_codec_id_for_tag; codecs the model does not use have the
\* name of their number.
CodecName(t) ==
    CASE t.kind = "video" /\ (t.fourcc = Avc1 \/ (t.fourcc = None /\ t.codec = AVC)) -> 264
      [] t.kind = "audio" /\ (t.fourcc = Mp4a \/ (t.fourcc = None /\ t.codec = AAC)) -> 14496
      [] OTHER -> IF t.fourcc # None THEN t.fourcc ELSE t.codec

\* audio_codec_params, video_codec_params
ParamsOf(t) ==
    [codec |-> CodecName(t),
     sound |-> IF t.kind = "audio" /\ t.fourcc = None /\ t.codec # AAC THEN t.sound ELSE None,
     extradata |-> IF IsSequenceHeader(t) THEN t.body ELSE <<>>]

\* Fault: the parameters of a stream follow its latest tag.
FaultParamsFollow(streams, index, t) ==
    {s \in streams : s.index # index} \cup {[index |-> index, params |-> ParamsOf(t)]}

\* ensure_stream: the first tag of a stream settles its parameters.  The list the code keeps
\* is this set in the order of the indices.
WithStream(streams, index, t) ==
    IF \E s \in streams : s.index = index THEN streams
    ELSE streams \cup {[index |-> index, params |-> ParamsOf(t)]}

\* audio_to_packet_at, video_to_packet_at; nano is the offset of the whole message.
PacketOf(ms, t, index, nano) ==
    LET time == ms * MsToNs
        offset == NanoOffset(t) + nano
        cts == IF t.codec = AVC \/ t.fourcc # None THEN t.cts * MsToNs ELSE 0
        end == t.fourcc # None /\ t.pt = SequenceEnd
    IN  IF t.kind = "audio"
        THEN [stream |-> index, dts |-> time + offset, pts |-> time + offset, key |-> FALSE,
              header |-> IsSequenceHeader(t) \/ end,
              data |-> (IF t.fourcc = None /\ t.codec = AAC THEN <<t.sub>> ELSE <<>>) \o t.body]
        ELSE [stream |-> index, dts |-> time, pts |-> time + cts + offset,
              key |-> ~IsMetadata(t) /\ IsKeyframe(t),
              header |-> IsSequenceHeader(t) \/ IsMetadata(t), data |-> t.body]

\* The tracks of one tag: the tag itself on track 0, or those of the message.
TracksOf(t) == IF IsMultitrack(t) THEN DemuxTracks(t) ELSE <<[id |-> 0, tag |-> t]>>

\* The table of tracks after a message.
WithTracks(table, tracks) ==
    LET upTo[i \in 0 .. Len(tracks)] ==
            IF i = 0 THEN table ELSE WithTrack(upTo[i - 1], tracks[i].tag.kind, tracks[i].id)
    IN  upTo[Len(tracks)]

\* audio_packets, video_packets: the packets of one message.
PacketsOf(table, tracks, ms, nano) ==
    [i \in DOMAIN tracks |->
        LET t == tracks[i].tag IN PacketOf(ms, t, StreamIndex(table, t.kind, tracks[i].id), nano)]

\* ... and the streams, registered track by track.
WithStreams(streams, table, tracks) ==
    LET index(i) == StreamIndex(table, tracks[i].tag.kind, tracks[i].id)
        upTo[i \in 0 .. Len(tracks)] ==
            IF i = 0 THEN streams ELSE WithStream(upTo[i - 1], index(i), tracks[i].tag)
    IN  upTo[Len(tracks)]

\* flatten_metadata: the scalar fields, appended to what is there.
Flattened(metadata, pairs) == metadata \o SelectSeq(pairs, LAMBDA p : p.scalar)

\* The nanoseconds that a multitrack message adds to those of its tracks.
NanoOf(m) == IF IsMultitrack(m.tag) THEN NanoOffset(m.tag) ELSE 0

\* One media event, with the tag the session has parsed and the tags of its tracks: what the
\* source has become, the packets, and whether the session's poll or the demultiplexer failed.
\* The clock has moved even when the demultiplexer fails.
Ingested(s, m) ==
    LET timed == [s EXCEPT !.ts = Unwrapped(@, m.time)]
        table == WithTracks(s.tracks, m.tracks)
    IN  CASE m.kind = "metadata" ->
                [src |-> [s EXCEPT !.metadata = Flattened(@, m.pairs)], packets |-> <<>>, ok |-> TRUE]
          [] m.kind = "other" -> [src |-> s, packets |-> <<>>, ok |-> TRUE]
          [] m.kind = "end" -> [src |-> [s EXCEPT !.ended = TRUE], packets |-> <<>>, ok |-> TRUE]
          [] m.kind \in Kinds /\ m.tag = Err -> [src |-> s, packets |-> <<>>, ok |-> FALSE]
          [] m.kind \in Kinds /\ m.tag # Err ->
                IF \E i \in DOMAIN m.tracks : m.tracks[i].tag = Err
                THEN [src |-> timed, packets |-> <<>>, ok |-> FALSE]
                ELSE [src |-> [timed EXCEPT !.tracks = table,
                                            !.streams = WithStreams(@, table, m.tracks)],
                      packets |-> PacketsOf(table, m.tracks, timed.ts[2], NanoOf(m)), ok |-> TRUE]

-----------------------------------------------------------------------------
(* The publisher.  A menu item is [kind, mode, modEx, tracks, payload, pairs]: mode is None   *)
(* for one tag, a multitrack type for several, Raw for a payload this crate does not build.  *)
(* A track is [id, tag, means]; means says whether the tag is a keyframe or a codec header.  *)

Raw == -2

Payload(item) ==
    LET tag == IF item.mode = None THEN item.tracks[1].tag ELSE FromTags(item.mode, item.tracks)
    IN  IF item.mode = Raw THEN item.payload ELSE Build([tag EXCEPT !.modEx = item.modEx])

\* The packets the publisher means, at the time of the message.
Meant(item) ==
    [i \in DOMAIN item.tracks |->
        LET t == item.tracks[i] IN
        [track |-> <<item.kind, t.id>>, time |-> 0, cts |-> t.tag.cts,
         nano |-> NanoOffset(item), means |-> t.means, body |-> t.tag.body]]

\* What a message is to the session that receives it: the tag it parses, and the tags of its
\* tracks.  real and meant are history.
ReceivedAs(item, tag) ==
    [kind |-> item.kind, time |-> 0, real |-> 0, pairs |-> item.pairs, tag |-> tag,
     tracks |-> IF tag = Err THEN <<>> ELSE TracksOf(tag), meant |-> Meant(item)]

Received(item) ==
    ReceivedAs(item, IF item.kind \in Kinds THEN Parse(item.kind, Payload(item)) ELSE Err)

Traffic == [menu \in DOMAIN Menus |-> {Received(item) : item \in Menus[menu]}]

\* send_video_tag, send_audio_tag, send_video_multitrack, send_audio_multitrack and the
\* messages that are not media.
Send(m, d) ==
    /\ phase \in {"probing", "steady"}
    /\ ~closed /\ left > 0
    /\ m.kind \notin Kinds => d = 0
    /\ left' = left - 1
    /\ now' = now + d
    /\ inbox' = Append(inbox, [m EXCEPT !.time = now' % TimeMod, !.real = now', !.meant = <<>>])
    /\ owed' = owed \o [i \in DOMAIN m.meant |-> [m.meant[i] EXCEPT !.time = now']]
    /\ UNCHANGED <<scene, source, chatter, closed, epoch, homes>>

End == [kind |-> "end", time |-> 0, real |-> 0, pairs |-> <<>>, tag |-> Err,
        tracks |-> <<>>, meant |-> <<>>]

SendEnd ==
    /\ phase \in {"probing", "steady"}
    /\ ~closed /\ closed' = TRUE
    /\ inbox' = Append(inbox, End)
    /\ UNCHANGED <<scene, source, chatter, now, left, owed, epoch, homes>>

\* A ping, an acknowledgement, a window, a limit or a chunk size, which the session answers or
\* takes in without returning it.  They change nothing here, so one of them stands for all
\* that are under way, and where it stands among the messages of inbox does not matter.
Chatter ==
    /\ phase \in {"probing", "steady"}
    /\ ~closed /\ ~chatter /\ chatter' = TRUE
    /\ UNCHANGED <<scene, source, inbox, now, closed, left, owed, epoch, homes>>

-----------------------------------------------------------------------------
(* Opening and probing. *)

Accepts(expected, actual) == expected = "" \/ expected = actual

\* from_session and from_player; from_session_with_probe and from_player_with_probe;
\* open_rtmp, which accepts one publisher and rejects it when its names are not the URL's;
\* open_rtmp_play, whose connect can fail.
Open ==
    /\ phase = "opening"
    /\ CASE scene.opener = "bare" -> phase' = "steady"
         [] scene.opener = "probe" -> phase' = "probing"
         [] scene.opener = "listen" ->
                \E app, stream, urlApp, urlStream \in Names :
                    /\ app # "" /\ stream # ""
                    /\ phase' = IF Accepts(urlApp, app) /\ Accepts(urlStream, stream)
                                THEN "probing" ELSE "failed"
         [] scene.opener = "dial" -> phase' \in {"probing", "failed"}
    /\ UNCHANGED <<scene, src, probe, buffered, pending, result, publisher, owed, epoch, homes>>

\* The openers probe with a timeout.
Timed == scene.opener \in {"listen", "dial"} \/ scene.timed

ProbeDone == probe.kinds = Kinds \/ probe.reads = ProbeLimit \/ src.ended

\* The source's clock is ahead of the publisher's by what it was at the first message.
Epoch(m, s) == IF epoch = {} /\ s.ts # <<>> THEN {s.ts[2] - m.real} ELSE epoch

\* One turn of probe_source.  An error ends the opener; what was read is lost with it.
ProbeRead ==
    /\ phase = "probing" /\ ~ProbeDone
    /\ inbox # <<>> /\ inbox' = Tail(inbox)
    /\ LET m == Head(inbox)
           e == Ingested(src, m)
       IN  /\ phase' = IF e.ok THEN "probing" ELSE "failed"
           /\ src' = e.src
           /\ buffered' = buffered \o e.packets
           /\ probe' = [kinds |-> probe.kinds \cup ({m.kind} \cap Kinds), reads |-> probe.reads + 1]
           /\ epoch' = Epoch(m, e.src)
    /\ UNCHANGED <<scene, pending, result, chatter, now, closed, left, owed, homes>>

\* Fault: a read that times out is tried again.
FaultTimeoutRetried == phase = "probing" /\ Timed /\ inbox = <<>> /\ ~chatter /\ UNCHANGED vars

\* The loop of the session's next_packet goes round without returning: the read timeout starts
\* again, and the probe counts no read.  So it is while probing and afterwards.
Swallow ==
    /\ chatter /\ chatter' = FALSE
    /\ inbox = <<>>
    /\ \/ phase = "probing" /\ ~ProbeDone
       \/ phase = "steady" /\ buffered = <<>> /\ pending = <<>> /\ ~src.ended
    /\ UNCHANGED <<scene, source, inbox, now, closed, left, owed, epoch, homes>>

\* The read times out, and what was read so far has to do.
ProbeTimeout ==
    /\ phase = "probing" /\ Timed /\ ~ProbeDone
    /\ inbox = <<>> /\ ~chatter
    /\ phase' = "steady"
    /\ UNCHANGED <<scene, src, probe, buffered, pending, result, publisher, owed, epoch, homes>>

ProbeEnds ==
    /\ phase = "probing" /\ ProbeDone
    /\ phase' = "steady"
    /\ UNCHANGED <<scene, src, probe, buffered, pending, result, publisher, owed, epoch, homes>>

-----------------------------------------------------------------------------
(* next_packet. *)

Result(what, packet, meant) == [what |-> what, packet |-> packet, meant |-> meant]

\* A packet is returned; it stands for the next one the publisher meant.
Returns(p) ==
    /\ result' = Result("packet", <<p>>, SubSeq(owed, 1, 1))
    /\ owed' = From(owed, 2)
    /\ homes' = homes \cup {<<p.stream, owed[i].track>> : i \in DOMAIN owed \cap {1}}

\* Fault: the end of the session is looked at first.
FaultEndFirst ==
    /\ phase = "steady" /\ buffered # <<>> /\ ~src.ended
    /\ buffered' = Tail(buffered)
    /\ Returns(Head(buffered))
    /\ UNCHANGED <<scene, phase, src, probe, pending, publisher, epoch>>

NextBuffered ==
    /\ phase = "steady" /\ buffered # <<>>
    /\ buffered' = Tail(buffered)
    /\ Returns(Head(buffered))
    /\ UNCHANGED <<scene, phase, src, probe, pending, publisher, epoch>>

NextPending ==
    /\ phase = "steady" /\ buffered = <<>> /\ pending # <<>>
    /\ pending' = Tail(pending)
    /\ Returns(Head(pending))
    /\ UNCHANGED <<scene, phase, src, probe, buffered, publisher, epoch>>

NextEof ==
    /\ phase = "steady" /\ buffered = <<>> /\ pending = <<>> /\ src.ended
    /\ result' = Result("eof", <<>>, <<>>)
    /\ UNCHANGED <<scene, phase, src, probe, buffered, pending, publisher, owed, epoch, homes>>

\* One turn of steady_next.  Metadata and the like make it read again; the first packet of a
\* message is returned, the others wait in pending.
SteadyRead ==
    /\ phase = "steady" /\ buffered = <<>> /\ pending = <<>> /\ ~src.ended
    /\ inbox # <<>> /\ inbox' = Tail(inbox)
    /\ LET m == Head(inbox)
           e == Ingested(src, m)
       IN  /\ src' = e.src
           /\ epoch' = Epoch(m, e.src)
           /\ pending' = From(e.packets, 2)
           /\ IF e.packets # <<>> THEN Returns(Head(e.packets))
              ELSE /\ result' = IF ~e.ok THEN Result("error", <<>>, <<>>)
                                ELSE IF e.src.ended THEN Result("eof", <<>>, <<>>) ELSE result
                   /\ UNCHANGED <<owed, homes>>
    /\ UNCHANGED <<scene, phase, probe, buffered, chatter, now, closed, left>>

Opener == Open \/ ProbeRead \/ ProbeTimeout \/ ProbeEnds

NextPacket == NextBuffered \/ NextPending \/ NextEof \/ SteadyRead

Next ==
    \/ \E m \in Traffic[scene.menu], d \in scene.steps : Send(m, d)
    \/ SendEnd
    \/ Chatter
    \/ Swallow
    \/ Opener
    \/ NextPacket

Spec == Init /\ [][Next]_vars

\* The opener runs to its end and the application keeps asking for packets; nobody has to
\* publish.
FairSpec == Spec /\ WF_vars(Opener \/ Swallow) /\ WF_vars(NextPacket)

-----------------------------------------------------------------------------
(* Properties. *)

Packets == [stream : Nat, dts : Int, pts : Int, key : BOOLEAN, header : BOOLEAN, data : Seq(Nat)]

TypeOK ==
    /\ phase \in {"opening", "probing", "steady", "failed"}
    /\ src.tracks \in Seq(Kinds \X (1 .. 255)) /\ src.ended \in BOOLEAN
    /\ \A s \in src.streams : s.index \in 0 .. 1 + Len(src.tracks)
    /\ src.ts # <<>> => src.ts[1] \in 0 .. TimeMod - 1 /\ (src.ts[2] - src.ts[1]) % TimeMod = 0
    /\ probe.kinds \subseteq Kinds /\ probe.reads \in 0 .. ProbeLimit
    /\ buffered \in Seq(Packets) /\ pending \in Seq(Packets)
    /\ result.what \in {"none", "packet", "eof", "error"}

\* Packet p is what the publisher meant by m, if its message came at time dts: of a video tag
\* of any codec, the nanoseconds are of its presentation (README, Observations).
FitsAt(p, m, dts) ==
    /\ p.pts = dts + m.cts * MsToNs + m.nano
    /\ p.dts = IF m.track[1] = "video" THEN dts ELSE dts + m.nano
    /\ p.key <=> "key" \in m.means
    /\ p.header <=> "header" \in m.means
    /\ IsSuffix(m.body, p.data)

\* ... on the source's clock.
Fits(p, m) == \E e \in epoch : FitsAt(p, m, (m.time + e) * MsToNs)

\* What is asked of the menus.  A message that the source reads has tracks of its kind, with a
\* byte for an id, and packets whose fields have their types.
Meanings == [track : Tracks, time : Int, cts : Int, nano : Int,
             means : SUBSET {"key", "header"}, body : Seq(Nat)]

Delivers(m) == m.kind \in Kinds /\ m.tag # Err /\ \A i \in DOMAIN m.tracks : m.tracks[i].tag # Err

WellRead ==
    \A s \in Scenes : \A m \in Traffic[s.menu] :
        /\ m.kind \in Kinds \cup {"metadata", "other"}
        /\ m.meant \in Seq(Meanings)
        /\ Delivers(m) =>
              /\ Len(m.tracks) \in Nat /\ DOMAIN m.tracks = 1 .. Len(m.tracks)
              /\ NanoOf(m) \in Int
              /\ \A i \in DOMAIN m.tracks :
                    LET t == m.tracks[i].tag IN
                    /\ m.tracks[i].id \in 0 .. 255 /\ t.kind = m.kind
                    /\ t.cts \in Int /\ NanoOffset(t) \in Int
                    /\ PacketOf(0, t, 0, NanoOf(m)) \in Packets

\* Each message, read by itself at time 0, is what its publisher meant.
ReadAsMeant ==
    \A s \in Scenes : \A m \in Traffic[s.menu] :
        IF ~Delivers(m) THEN m.meant = <<>>
        ELSE /\ Len(m.meant) = Len(m.tracks)
             /\ \A i \in DOMAIN m.tracks :
                   LET t == m.tracks[i].tag IN
                   /\ m.meant[i].track = <<t.kind, m.tracks[i].id>>
                   /\ FitsAt(PacketOf(0, t, 0, NanoOf(m)), m.meant[i], 0)

\* A message whose tag does not parse leaves the source's clock where it is.  So there are
\* none, or all the steps of the scene together are less than half a turn.
ClockKept ==
    \A s \in Scenes :
        \/ \A m \in Traffic[s.menu] : m.kind \in Kinds => m.tag # Err
        \/ \E most \in 0 .. TimeMod : /\ 2 * (s.total * most) < TimeMod
                                     /\ \A d \in s.steps : -most <= d /\ d <= most

\* What the publisher sent comes out as it was meant, once and in order: whether it was read
\* while probing or later, alone or in a message of several tracks, on whichever side of the
\* clock's wrap; and the end comes last.
PacketsAsSent ==
    LET got == buffered \o pending IN
    phase # "failed" =>
        /\ \A i \in DOMAIN got : i <= Len(owed) /\ Fits(got[i], owed[i])
        /\ result.what = "packet" =>
              result.meant # <<>> /\ Fits(result.packet[1], result.meant[1])
        /\ result.what = "eof" => owed = <<>> /\ closed

\* Every track has a stream of its own, registered before its first packet is returned, and
\* the stream keeps its place and its parameters (ensure_stream, TrackStreams).
StreamsSettled ==
    [][/\ src.streams \subseteq src'.streams
       /\ \A h, g \in homes' : h[1] = g[1] <=> h[2] = g[2]
       /\ \A h \in homes' : \E s \in src'.streams : s.index = h[1]]_vars

\* An opener that probes with a timeout returns, however little the peer sends, unless the peer
\* goes on for ever with messages that the session keeps to itself.
OpenReturns == []<><<Chatter>>_vars \/ ((phase = "probing" /\ Timed) ~> (phase # "probing"))

\* What was sent to an open source is delivered, also when the stream ended while probing.
AllDelivered == (phase = "steady" /\ owed # <<>>) ~> (owed = <<>>)
=============================================================================
