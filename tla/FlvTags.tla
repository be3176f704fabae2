------------------------------ MODULE FlvTags ------------------------------
(***************************************************************************)
(* The audio and video tags of src/flv.rs: build_video, build_audio,       *)
(* parse_video, parse_audio, the ModEx chain, the multitrack body, and the *)
(* two directions between a multitrack tag and the tags of its tracks.     *)
(*                                                                         *)
(* A payload is a sequence of numbers, one for each field of the layout: a *)
(* byte is one, and so is a FourCC or a number of two or three bytes; a    *)
(* size counts fields.  The reserved and defined values are the code's,    *)
(* except that FourCCs are numbers from 1000 and that the size byte of a   *)
(* ModEx entry escapes at ModExEscape (256 in the code).                   *)
(*                                                                         *)
(* A tag of either kind is one record.  kind is "video" or "audio"; codec  *)
(* is codec_id or sound_format, sub the packet type that only AVC and AAC  *)
(* have, sound the rate, size and channel bits, pt the enhanced packet     *)
(* type; None stands for an absent field.                                  *)
(***************************************************************************)
EXTENDS Integers, Sequences, SequencesExt

CONSTANT ModExEscape
ASSUME EscapeAssumption == ModExEscape \in Nat /\ ModExEscape > 3

None == -1

SequenceStart == 0
CodedFrames == 1
SequenceEnd == 2
CodedFramesX == 3
Metadata == 4
ModEx == 7
MultitrackOf(kind) == IF kind = "video" THEN 6 ELSE 5

Keyframe == 1
Inter == 2
GeneratedKey == 4
Command == 5

AVC == 7
AAC == 10
ExHeader == 9

Avc1 == 1000
Hvc1 == 1001
Vvc1 == 1002
Av01 == 1003
Mp4a == 1010
Opus == 1011
NaluFourCCs == {Avc1, Hvc1, Vvc1}

OneTrack == 0
ManyTracks == 1
ManyTracksManyCodecs == 2

NoTracks == [type |-> None, tracks |-> <<>>]

Tag(kind) ==
    [kind |-> kind, frame |-> 0, codec |-> IF kind = "audio" THEN ExHeader ELSE 0,
     sub |-> None, cts |-> 0, sound |-> 0, pt |-> None, fourcc |-> None,
     modEx |-> <<>>, mt |-> NoTracks, body |-> <<>>]

\* What a failed parse returns.
Err == [kind |-> "error"]

IsMultitrack(t) == t.mt.type # None

\* The suffix of a payload from position i.
From(p, i) == SubSeq(p, i, Len(p))

-----------------------------------------------------------------------------
(* The ModEx chain. *)

\* timestamp_offset_nano of a tag: the three-byte values of its entries of type 0.
NanoOffset(t) ==
    LET nano(e) == IF e.type = 0 /\ Len(e.data) >= 3
                   THEN (e.data[1] * 256 + e.data[2]) * 256 + e.data[3] ELSE 0
        sum[i \in 0 .. Len(t.modEx)] == IF i = 0 THEN 0 ELSE sum[i - 1] + nano(t.modEx[i])
    IN  sum[Len(t.modEx)]

ModExSize(n) ==
    IF n \in 1 .. ModExEscape - 1 THEN <<n - 1>>
    ELSE <<ModExEscape - 1, IF n = 0 THEN 0 ELSE n - 1>>

\* Each entry ends in a byte that holds its type and the packet type to read next.
ModExChain(chain, pt) ==
    FlattenSeq([i \in DOMAIN chain |->
        ModExSize(Len(chain[i].data)) \o chain[i].data
            \o <<chain[i].type * 16 + IF i < Len(chain) THEN ModEx ELSE pt>>])

Chained(ok, chain, pt, rest) == [ok |-> ok, chain |-> chain, pt |-> pt, rest |-> rest]

\* parse_mod_ex_chain.
ReadModEx(p) ==
    LET read[q \in Seq(Int)] ==
            LET escaped == q[1] = ModExEscape - 1
                start == IF escaped THEN 3 ELSE 2
                size == q[start - 1] + 1
                last == q[start + size]
                entry == [type |-> last \div 16, data |-> SubSeq(q, start, start + size - 1)]
                rest == From(q, start + size + 1)
            IN  IF q = <<>> \/ (escaped /\ Len(q) < 2) \/ Len(q) < start + size
                THEN Chained(FALSE, <<>>, None, <<>>)
                ELSE IF last % 16 = ModEx THEN [read[rest] EXCEPT !.chain = <<entry>> \o @]
                ELSE Chained(TRUE, <<entry>>, last % 16, rest)
    IN  read[p]

-----------------------------------------------------------------------------
(* The multitrack body. *)

\* Multitrack::encode; with OneTrack only the first track, without its size.
TrackList(mt) ==
    FlattenSeq([i \in 1 .. IF mt.type = OneTrack THEN 1 ELSE Len(mt.tracks) |->
        LET track == mt.tracks[i] IN
            (IF mt.type = ManyTracksManyCodecs
             THEN <<IF track.fourcc = None THEN 0 ELSE track.fourcc>> ELSE <<>>)
            \o <<track.id>>
            \o (IF mt.type = OneTrack THEN <<>> ELSE <<Len(track.body)>>)
            \o track.body])

\* Multitrack::parse; <<>> when it fails.
ReadTracks(p, type) ==
    LET many == type = ManyTracksManyCodecs
        id == IF many THEN 2 ELSE 1
        start == IF type = OneTrack THEN id + 1 ELSE id + 2
        read[q \in Seq(Int)] ==
            LET size == IF type = OneTrack THEN Len(q) - id ELSE q[id + 1]
                track == [fourcc |-> IF many THEN q[1] ELSE None, id |-> q[id],
                          body |-> SubSeq(q, start, start + size - 1)]
                rest == From(q, start + size)
            IN  IF Len(q) < start - 1 \/ Len(q) < start + size - 1 THEN <<>>
                ELSE IF rest = <<>> THEN <<track>>
                ELSE IF read[rest] = <<>> THEN <<>> ELSE <<track>> \o read[rest]
    IN  read[p]

-----------------------------------------------------------------------------
(* Building. *)

\* The composition time of an enhanced video tag is on the wire only for these.
CarriesCts(kind, frame, pt, fourcc) ==
    /\ kind = "video" /\ frame # Command
    /\ pt = CodedFrames /\ fourcc \in NaluFourCCs

SI24(v) == v % (2^24)
SignExtend(v) == IF v >= 2^23 THEN v - 2^24 ELSE v

BuildEnhanced(t) ==
    LET real == IF t.pt = None THEN CodedFrames ELSE t.pt
        outer == IF IsMultitrack(t) THEN MultitrackOf(t.kind) ELSE real
        head == (IF t.kind = "video" THEN 128 + (t.frame % 8) * 16 ELSE ExHeader * 16)
                + IF t.modEx = <<>> THEN outer ELSE ModEx
        shared == t.mt.type # ManyTracksManyCodecs
    IN  <<head>> \o ModExChain(t.modEx, outer)
        \o (IF IsMultitrack(t) THEN <<t.mt.type * 16 + real>> ELSE <<>>)
        \o (IF shared THEN <<IF t.fourcc = None THEN 0 ELSE t.fourcc>> ELSE <<>>)
        \o (IF IsMultitrack(t) THEN TrackList(t.mt)
            ELSE (IF CarriesCts(t.kind, t.frame, real, t.fourcc) THEN <<SI24(t.cts)>> ELSE <<>>)
                 \o t.body)

\* The packet type byte of AVC and AAC; without one, a coded frame.
Sub(t) == IF t.sub = None THEN 1 ELSE t.sub

BuildLegacyVideo(t) ==
    <<t.frame * 16 + t.codec>>
    \o (IF t.codec = AVC /\ t.frame # Command THEN <<Sub(t), SI24(t.cts)>> ELSE <<>>)
    \o t.body

BuildLegacyAudio(t) ==
    <<t.codec * 16 + t.sound>> \o (IF t.codec = AAC THEN <<Sub(t)>> ELSE <<>>) \o t.body

\* build_video and build_audio.
Build(t) ==
    IF t.fourcc # None \/ IsMultitrack(t) THEN BuildEnhanced(t)
    ELSE IF t.kind = "video" THEN BuildLegacyVideo(t) ELSE BuildLegacyAudio(t)

-----------------------------------------------------------------------------
(* Parsing. *)

\* Behind the first byte of an enhanced tag, the same for both kinds: the ModEx chain mx, the
\* multitrack byte, the shared FourCC, and the fields that are left.
HeaderAfter(mx, kind) ==
    LET multi == mx.pt = MultitrackOf(kind)
        type == IF multi THEN mx.rest[1] \div 16 ELSE None
        real == IF multi THEN mx.rest[1] % 16 ELSE mx.pt
        after == IF multi THEN Tail(mx.rest) ELSE mx.rest
        shared == type # ManyTracksManyCodecs
    IN  IF \/ ~mx.ok
           \/ multi /\ (mx.rest = <<>> \/ real = MultitrackOf(kind))
           \/ shared /\ after = <<>>
        THEN [ok |-> FALSE]
        ELSE [ok |-> TRUE, modEx |-> mx.chain, type |-> type, pt |-> real,
              fourcc |-> IF shared THEN after[1] ELSE None,
              rest |-> IF shared THEN Tail(after) ELSE after]

EnhancedHeader(p, kind, pt) ==
    HeaderAfter(IF pt = ModEx THEN ReadModEx(p) ELSE Chained(TRUE, <<>>, pt, p), kind)

Multiplexed(tag, type, tracks) ==
    IF tracks = <<>> THEN Err ELSE [tag EXCEPT !.mt = [type |-> type, tracks |-> tracks]]

EnhancedTag(h, kind, frame) ==
    LET tag == [Tag(kind) EXCEPT !.frame = frame, !.pt = h.pt, !.fourcc = h.fourcc,
                                 !.modEx = h.modEx]
    IN  CASE ~h.ok -> Err
          [] h.ok /\ h.type # None -> Multiplexed(tag, h.type, ReadTracks(h.rest, h.type))
          [] h.ok /\ h.type = None ->
                IF ~CarriesCts(kind, frame, h.pt, h.fourcc) THEN [tag EXCEPT !.body = h.rest]
                ELSE IF h.rest = <<>> THEN Err
                ELSE [tag EXCEPT !.cts = SignExtend(h.rest[1]), !.body = Tail(h.rest)]

ParseEnhanced(p, kind, frame) == EnhancedTag(EnhancedHeader(Tail(p), kind, p[1] % 16), kind, frame)

ParseLegacyVideo(p) ==
    LET tag == [Tag("video") EXCEPT !.frame = p[1] \div 16, !.codec = p[1] % 16]
    IN  IF tag.codec # AVC \/ tag.frame = Command THEN [tag EXCEPT !.body = Tail(p)]
        ELSE IF Len(p) < 3 THEN Err
        ELSE [tag EXCEPT !.sub = p[2], !.cts = SignExtend(p[3]), !.body = From(p, 4)]

ParseLegacyAudio(p) ==
    LET tag == [Tag("audio") EXCEPT !.codec = p[1] \div 16, !.sound = p[1] % 16]
    IN  IF tag.codec # AAC THEN [tag EXCEPT !.body = Tail(p)]
        ELSE IF Len(p) < 2 THEN Err
        ELSE [tag EXCEPT !.sub = p[2], !.body = From(p, 3)]

\* parse_video and parse_audio.
Parse(kind, p) ==
    CASE p = <<>> -> Err
      [] p # <<>> /\ kind = "video" ->
            IF p[1] >= 128 THEN ParseEnhanced(p, kind, (p[1] \div 16) % 8)
            ELSE ParseLegacyVideo(p)
      [] p # <<>> /\ kind = "audio" ->
            IF p[1] \div 16 = ExHeader THEN ParseEnhanced(p, kind, 0)
            ELSE ParseLegacyAudio(p)

-----------------------------------------------------------------------------
(* Tracks of one message.  tracks is a sequence of records [id, tag]. *)

\* plan_multitrack, and the frame type that build_video writes once per message.
CanMultiplex(type, tracks) ==
    LET first == tracks[1].tag IN
    /\ tracks # <<>> /\ (type = OneTrack => Len(tracks) = 1)
    /\ first.pt \notin {None, MultitrackOf(first.kind), ModEx}
    /\ \A i \in DOMAIN tracks :
          LET t == tracks[i].tag IN
          /\ ~IsMultitrack(t) /\ t.modEx = <<>>
          /\ t.pt = first.pt /\ t.frame = first.frame /\ t.fourcc # None
          /\ type = ManyTracksManyCodecs \/ t.fourcc = first.fourcc

\* multitrack_from_tags: each track's body is its built tag without the first two fields.
FromTags(type, tracks) ==
    LET first == tracks[1].tag
        many == type = ManyTracksManyCodecs
    IN  IF ~CanMultiplex(type, tracks) THEN Err
        ELSE [Tag(first.kind) EXCEPT
                !.frame = first.frame, !.pt = first.pt,
                !.fourcc = IF many THEN None ELSE first.fourcc,
                !.mt = [type |-> type,
                        tracks |-> [i \in DOMAIN tracks |->
                            [fourcc |-> IF many THEN tracks[i].tag.fourcc ELSE None,
                             id |-> tracks[i].id,
                             body |-> From(Build(tracks[i].tag), 3)]]]]

\* demux_tracks: each body, behind a header of its own, is parsed as a tag; some tag is Err
\* when it fails.  The ModEx chain stays with the message.
DemuxTracks(t) ==
    [i \in DOMAIN t.mt.tracks |->
        LET track == t.mt.tracks[i]
            fourcc == IF track.fourcc # None THEN track.fourcc ELSE t.fourcc
            head == (IF t.kind = "video" THEN 128 + (t.frame % 8) * 16 ELSE ExHeader * 16) + t.pt
        IN  [id |-> track.id, tag |-> Parse(t.kind, <<head, fourcc>> \o track.body)]]
=============================================================================
