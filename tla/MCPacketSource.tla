-------------------------- MODULE MCPacketSource --------------------------
(* Small instances of PacketSource: what publishers of different kinds send. *)
EXTENDS PacketSource

Frame(kind, fourcc, pt, frame, cts, body) ==
    [Tag(kind) EXCEPT !.fourcc = fourcc, !.pt = pt, !.frame = frame, !.cts = cts, !.body = body]
LegacyVideo(frame, sub, cts, body) ==
    [Tag("video") EXCEPT !.frame = frame, !.codec = AVC, !.sub = sub, !.cts = cts, !.body = body]
Aac(sub, body) == [Tag("audio") EXCEPT !.codec = AAC, !.sub = sub, !.body = body]
OfTrack(id, tag, means) == [id |-> id, tag |-> tag, means |-> means]

Item(kind, mode, modEx, tracks) ==
    [kind |-> kind, mode |-> mode, modEx |-> modEx, tracks |-> tracks,
     payload |-> <<>>, pairs |-> <<>>]
Single(tag, means) == Item(tag.kind, None, <<>>, <<OfTrack(0, tag, means)>>)
Several(kind, mode, tracks) == Item(kind, mode, <<>>, tracks)
Foreign(kind, payload) == [Item(kind, Raw, <<>>, <<>>) EXCEPT !.payload = payload]

Late == <<[type |-> 0, data |-> <<0, 1, 2>>]>>
LateAndMore == <<[type |-> 3, data |-> <<1, 7, 7, 7, 7>>], [type |-> 0, data |-> <<0, 0, 9>>]>>

Hevc(frame, cts, body) == Frame("video", Hvc1, CodedFrames, frame, cts, body)
Av(body) == Frame("video", Av01, CodedFrames, Inter, 0, body)
OpusOf(body) == Frame("audio", Opus, CodedFrames, 0, 0, body)
Mp4aOf(body) == Frame("audio", Mp4a, CodedFrames, 0, 0, body)
KeyNalu == LegacyVideo(Keyframe, 1, -3, <<11, 12>>)
RawAac == Aac(1, <<21>>)

Metadatas == [Item("metadata", None, <<>>, <<>>) EXCEPT
                !.pairs = <<[name |-> "width", scalar |-> TRUE], [name |-> "list", scalar |-> FALSE]>>]

\* Every shape of tag.
Shapes == {
    Single(LegacyVideo(Keyframe, 0, 0, <<10>>), {"key", "header"}),
    Single(KeyNalu, {"key"}),
    Single(LegacyVideo(Command, None, 0, <<1>>), {}),
    Single([LegacyVideo(Inter, None, 0, <<13, 14, 15>>) EXCEPT !.codec = 2], {}),
    Single(Frame("video", Avc1, SequenceStart, Keyframe, 0, <<16>>), {"key", "header"}),
    Single(Frame("video", Hvc1, CodedFramesX, Keyframe, 0, <<17>>), {"key"}),
    Single(Frame("video", Av01, Metadata, Command, 0, <<18>>), {"header"}),
    Single(Frame("video", Vvc1, CodedFrames, Command, 0, <<1>>), {}),
    Single(Frame("video", Av01, SequenceEnd, Inter, 0, <<>>), {}),
    Item("video", None, Late, <<OfTrack(0, Hevc(Inter, 2, <<19>>), {})>>),
    Single(Aac(0, <<20>>), {"header"}), Single(RawAac, {}),
    Single([Aac(None, <<22>>) EXCEPT !.codec = 2, !.sound = 14], {}),
    Single(Frame("audio", Opus, SequenceEnd, 0, 0, <<>>), {"header"}),
    Item("audio", None, LateAndMore, <<OfTrack(0, OpusOf(<<23>>), {})>>),
    Several("video", OneTrack, <<OfTrack(1, Hevc(Keyframe, 1, <<30>>), {"key"})>>),
    Several("video", ManyTracks,
        <<OfTrack(1, Hevc(Inter, -2, <<31, 32>>), {}), OfTrack(0, Hevc(Inter, 4, <<>>), {})>>),
    Item("video", ManyTracksManyCodecs, Late,
        <<OfTrack(2, Av(<<33>>), {}), OfTrack(1, Hevc(Inter, 3, <<34>>), {})>>),
    Item("audio", ManyTracks, LateAndMore,
        <<OfTrack(1, OpusOf(<<24>>), {}), OfTrack(2, OpusOf(<<25, 26>>), {})>>),
    Several("audio", ManyTracksManyCodecs,
        <<OfTrack(2, OpusOf(<<27>>), {}), OfTrack(1, Mp4aOf(<<28>>), {}), OfTrack(0, OpusOf(<<29>>), {})>>),
    Metadatas, Item("other", None, <<>>, <<>>),
    Foreign("audio", <<>>),                                       \* silence
    Foreign("video", <<128 + 32 + 6, ManyTracks * 16 + CodedFrames, Hvc1, 1, 0>>)
    }

\* Two kinds and two tracks whose clocks run apart.
Clocks == {
    Single(KeyNalu, {"key"}), Single(RawAac, {}),
    Several("video", ManyTracks,
        <<OfTrack(1, Hevc(Inter, 1, <<31>>), {}), OfTrack(0, Hevc(Inter, 0, <<32>>), {})>>) }

MCMenus == [shapes |-> Shapes, clocks |-> Clocks]

SceneOf(opener, timed, start, steps, menu, total) ==
    [opener |-> opener, timed |-> timed, start |-> start, steps |-> steps, menu |-> menu,
     total |-> total]

MCScenes == {
    SceneOf("bare", FALSE, 0, {0}, "shapes", 2),
    SceneOf("listen", FALSE, 0, {1}, "shapes", 2),
    SceneOf("probe", FALSE, 6, {-3, 0, 3}, "clocks", 3),
    SceneOf("dial", FALSE, 1, {-3, 3}, "clocks", 3) }

\* What the theorems about PacketSource ask of the menus.
ASSUME MenusAreFit == WellRead /\ ReadAsMeant /\ ClockKept
=============================================================================
