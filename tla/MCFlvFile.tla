----------------------------- MODULE MCFlvFile -----------------------------
(* Small instances of Recording: what a session of each kind brings to a recorder. *)
EXTENDS Recording

\* Tags as a session hands them out.
Video1 == [Tag("video") EXCEPT !.frame = Keyframe, !.codec = AVC, !.sub = 1, !.cts = -3, !.body = <<11, 12>>]
Audio1 == [Tag("audio") EXCEPT !.codec = AAC, !.sub = 0, !.body = <<20>>]
Enhanced(kind, fourcc, pt, cts, body) ==
    [Tag(kind) EXCEPT !.fourcc = fourcc, !.pt = pt, !.frame = IF kind = "video" THEN Inter ELSE 0,
                      !.cts = cts, !.body = body]
Late == <<[type |-> 0, data |-> <<0, 1, 2>>]>>
LateAndMore == <<[type |-> 3, data |-> <<1, 7, 7, 7, 7>>], [type |-> 0, data |-> <<0, 0, 9>>]>>
Multi(kind, type, fourcc, tracks) ==
    [Enhanced(kind, fourcc, CodedFrames, 0, <<>>) EXCEPT !.mt = [type |-> type, tracks |-> tracks]]
TrackOf(id, fourcc, body) == [id |-> id, fourcc |-> fourcc, body |-> body]

MediaTags == {
    Video1, Audio1,
    [Tag("video") EXCEPT !.frame = Command, !.codec = AVC, !.body = <<1>>],
    [Tag("video") EXCEPT !.frame = Inter, !.codec = 2, !.body = <<13, 14>>],
    [Tag("audio") EXCEPT !.codec = 2, !.sound = 14, !.body = <<22>>],
    Enhanced("video", Hvc1, CodedFrames, -2, <<15>>), Enhanced("video", Av01, CodedFrames, 0, <<>>),
    Enhanced("video", Avc1, SequenceStart, 0, <<16>>), Enhanced("audio", Opus, SequenceEnd, 0, <<>>),
    [Enhanced("video", Hvc1, CodedFramesX, 0, <<17>>) EXCEPT !.modEx = Late],
    [Enhanced("audio", Opus, CodedFrames, 0, <<23>>) EXCEPT !.modEx = LateAndMore],
    Multi("video", OneTrack, Hvc1, <<TrackOf(3, None, <<1, 30>>)>>),
    Multi("audio", ManyTracks, Opus, <<TrackOf(1, None, <<24>>), TrackOf(0, None, <<>>)>>),
    [Multi("video", ManyTracksManyCodecs, None, <<TrackOf(1, Av01, <<31>>), TrackOf(2, Avc1, <<2, 32>>)>>)
        EXCEPT !.modEx = Late] }

MediaItem(tag) == [kind |-> "media", tag |-> tag, view |-> NoView]
Raw(type, payload, said) == [kind |-> "raw", type |-> type, payload |-> payload, said |-> said]

\* What an application writes as it is.
Bodies == {
    Raw(Audio, <<>>, Unreadable),                                       \* silence
    Raw(Video, <<AVC + 16, 1>>, Unreadable),
    Raw(Video, <<128 + 16 + 6, ManyTracks * 16, Hvc1, 1, 9>>, Unreadable),
    Raw(15, <<1, 2>>, Unknown(15, 0, <<1, 2>>)),
    Raw(Script, <<>>, Unknown(Script, 0, <<>>)),
    Raw(Script, <<0, 5, 2, 1, 7>>, Unknown(Script, 0, <<0, 5, 2, 1, 7>>)),
    Raw(Script, <<2, 1, 7>>, Unknown(Script, 0, <<2, 1, 7>>)),
    Raw(Script, <<2, 1, 7, 5, 9, 9>>, ScriptData(0, <<7>>, Null)),        \* padded
    Raw(Video, [i \in 1 .. MaxSize + 2 |-> 16], End) }

Crypt(name, iv, body) == [name |-> name, iv |-> iv, body |-> body]
Sealed(type, crypt, said) == [kind |-> "crypt", type |-> type, crypt |-> crypt, said |-> said]
Crypts == {
    Sealed(t, c, Encrypted(t, 0, c)) :
        t \in {Audio, Script},
        c \in {Crypt(Encryption, 77, <<1, 0, 2>>), Crypt(Selective, 78, <<>>), Crypt(Selective, None, <<3>>)} }
    \cup {Sealed(Video, Crypt(<<322>>, 79, <<4>>), Unreadable)}

-----------------------------------------------------------------------------
(* Data messages. *)

Wd == <<1>>
Ht == <<2, 3>>
Text(s) == Scalar("string", s)
Num(n) == Scalar("number", <<n>>)
Obj(pairs) == Pairs("object", <<>>, pairs)
Ecma(pairs) == Pairs("ecma", <<>>, pairs)

Data(type, payload, handler, value) ==
    [kind |-> "data", type |-> type, payload |-> payload, means |-> Frame(handler, value), view |-> NoView]
Nothing(type, payload) ==
    [kind |-> "data", type |-> type, payload |-> payload, means |-> NoFrame, view |-> NoView]

\* send_data_frame, and send_metadata_amf3.
Set(handler, value) ==
    Data(DataAmf0, Encode0(Text(SetDataFrame)) \o Encode0(Text(handler)) \o Encode0(value), handler, value)
Amf3(v, means) ==
    Data(DataAmf3, <<0, AvmPlus>> \o Encode3(Text(OnMetaData)) \o <<AvmPlus>> \o Encode3(v), OnMetaData, means)

Dynamic(pairs) ==
    [t |-> "instance", class |-> <<>>, dynamic |-> TRUE, sealed |-> <<>>, members |-> pairs]
Array(dense, assoc) == [t |-> "array", dense |-> dense, assoc |-> assoc]
Dict(entries) == [t |-> "dictionary", weak |-> FALSE, entries |-> entries]
Amount(n) == Scalar("integer", <<n>>)

\* Whole numbers on both sides of every step of the encoding.
Edges == {0, 127, 128, 2^14 - 1, 2^14, 2^21 - 1, 2^21, 2^22 + 5, 2^28 - 1, -1, -(2^28), 2^28, -(2^28) - 1}

Nested0(v) == Obj(<<<<Wd, v>>>>)
Nested3(v) == Dynamic(<<<<Wd, v>>>>)

Own == {
    Set(OnMetaData, Obj(<<<<Wd, Num(4)>>, <<Ht, Text(<<>>)>>>>)),
    Set(<<9>>, Strict(<<Null, Scalar("boolean", <<1>>), Scalar("date", <<5, -60>>), Scalar("undefined", <<>>)>>)),
    Set(OnMetaData, Ecma(<<<<Wd, Pairs("typed", <<4>>, <<<<Ht, Scalar("unsupported", <<>>)>>>>)>>,
                           <<Ht, Scalar("xml", <<5, 5>>)>>>>)),
    Set(OnMetaData, Obj(<<<<Wd, Text(<<1, 2, 3, 4, 5, 6>>)>>>>)),
    Set(OnMetaData, Nested0(Nested0(Nested0(Num(1))))),
    Set(OnMetaData, Nested0(Nested0(Nested0(Nested0(Num(1)))))),
    Nothing(DataAmf0, Encode0(Text(ClearDataFrame)) \o Encode0(Text(OnMetaData))),
    Amf3(Array(<<Amount(7), Text(<<8>>)>>, <<<<Wd, Amount(3)>>>>),
         Ecma(<<<<<<48>>, Num(7)>>, <<<<49>>, Text(<<8>>)>>, <<Wd, Num(3)>>>>)),
    Amf3([t |-> "instance", class |-> <<6>>, dynamic |-> TRUE, sealed |-> <<<<Wd, Amount(1)>>>>,
          members |-> <<<<Ht, Scalar("boolean", <<0>>)>>>>],
         Obj(<<<<Wd, Num(1)>>, <<Ht, Scalar("boolean", <<0>>)>>>>)),
    Amf3(Dynamic(<<<<Wd, Vector("bytes", FALSE, <<1, 255>>)>>, <<Ht, Vector("ints", TRUE, <<-1, 70000>>)>>,
                   <<<<4>>, [t |-> "objects", fixed |-> FALSE, class |-> <<6>>, items |-> <<Amount(2), Null>>]>>>>),
         Obj(<<<<Wd, Strict(<<Num(1), Num(255)>>)>>, <<Ht, Strict(<<Num(-1), Num(70000)>>)>>,
               <<<<4>>, Strict(<<Num(2), Null>>)>>>>)),
    Amf3(Dict(<<<<Amount(-12), Scalar("date", <<5>>)>>, <<Scalar("boolean", <<1>>), Scalar("xml", <<8>>)>>,
                <<Null, Scalar("double", <<9>>)>>>>),
         Ecma(<<<<<<45, 49, 50>>, Scalar("date", <<5, 0>>)>>, <<<<Word.true>>, Text(<<8>>)>>,
                <<<<Word.null>>, Num(9)>>>>)),
    \* what AMF0 cannot carry: an empty key, a long one, and what is nested too deep
    Amf3(Dict(<<<<Text(<<>>), Amount(1)>>>>), Ecma(<<<<<<>>, Num(1)>>>>)),
    Amf3(Dynamic(<<<<<<1, 2, 3, 4, 5>>, Amount(1)>>>>), Obj(<<<<<<1, 2, 3, 4, 5>>, Num(1)>>>>)),
    Data(DataAmf0, Encode0(Text(OnMetaData)) \o <<3, 1, 1, AvmPlus>>
                       \o Encode3(Nested3(Nested3(Nested3(Amount(1))))) \o <<0, 9>>,
         OnMetaData, Nested0(Nested0(Nested0(Nested0(Num(1)))))) }
    \cup {Amf3(Nested3(Amount(n)), Nested0(Num(n))) : n \in Edges}

\* What other encoders send: references of every kind, in legacy frames and behind a selector.
Foreign == {
    \* a bare one, and one with no name
    Data(DataAmf0, Encode0(Text(OnMetaData)) \o Encode0(Nested0(Num(2))), OnMetaData, Nested0(Num(2))),
    Data(DataAmf0, Encode0(Nested0(Num(3))), OnMetaData, Nested0(Num(3))),
    Nothing(DataAmf0, Encode0(Text(<<7>>)) \o Encode0(Num(3))),
    \* AMF0: the first and the second complex value of the message again
    Data(DataAmf0, Encode0(Text(OnMetaData)) \o <<8, 0, 1, 1>> \o Encode0(Nested0(Num(4)))
                       \o <<2, 2, 3, 7, 1, 0, 9>>,
         OnMetaData, Ecma(<<<<Wd, Nested0(Num(4))>>, <<Ht, Nested0(Num(4))>>>>)),
    Data(DataAmf0, Encode0(Text(SetDataFrame)) \o Encode0(Text(OnMetaData)) \o Encode0(Ecma(<<<<Wd, Null>>>>))
                       \o <<7, 0>>,
         OnMetaData, Ecma(<<<<Wd, Null>>>>)),
    Nothing(DataAmf0, Encode0(Text(OnMetaData)) \o <<7, 0>>),
    \* AMF3: name and value share the tables; the texts 1 and 2 are OnMetaData and Wd
    Data(DataAmf3, <<6>> \o WriteString(OnMetaData) \o <<10, 11, 1>> \o WriteString(Wd) \o <<6, 2, 1>>,
         OnMetaData, Obj(<<<<Wd, Text(Wd)>>>>)),
    \* three objects of one class: traits once, then by reference, then a whole object again
    Data(DataAmf3, <<AvmPlus, 6>> \o WriteString(OnMetaData) \o <<AvmPlus, 9, 7, 1>>
                       \o <<10, 16 + 3>> \o WriteString(<<6>>) \o WriteString(Wd) \o <<4, 1>>
                       \o <<10, 1, 4, 2>> \o <<10, 4>>,
         OnMetaData, Ecma(<<<<<<48>>, Nested0(Num(1))>>, <<<<49>>, Nested0(Num(2))>>,
                            <<<<50>>, Nested0(Num(2))>>>>)),
    \* XML, a date, bytes and the XML again as the other kind of XML
    Data(DataAmf3, <<6>> \o WriteString(OnMetaData) \o <<9, 1>> \o WriteString(Wd) \o <<11>> \o WriteString(<<8>>)
                       \o WriteString(Ht) \o <<8, 1, 5>> \o WriteString(<<4>>) \o <<7, 2>>
                       \o WriteString(<<5>>) \o <<8, 4>> \o <<1>>,
         OnMetaData, Ecma(<<<<Wd, Text(<<8>>)>>, <<Ht, Scalar("date", <<5, 0>>)>>, <<<<4>>, Text(<<8>>)>>,
                            <<<<5>>, Scalar("date", <<5, 0>>)>>>>)),
    \* malformed: a reference to nothing, a class that reads itself, a marker nobody knows
    Nothing(DataAmf3, <<6>> \o WriteString(OnMetaData) \o <<10, 6>>),
    Nothing(DataAmf3, <<10, 7>> \o WriteString(<<6>>) \o <<1>>),
    Nothing(DataAmf3, <<18>>) }

-----------------------------------------------------------------------------
(* Typed views. *)

Viewed(item, view) == [item EXCEPT !.view = view]
With(table, pairs) == [i \in DOMAIN table |-> Latest(pairs, Named(pairs, table[i][1]))]

Codec == Num(1752589105)   \* hvc1 as a number
CodecText == <<104, 118, 99, 49>>

TrackA == [view |-> "track", extra |-> <<<<Ht, Text(<<5>>)>>>>,
           known |-> With(TrackTable, <<<<Key.width, Num(1024)>>, <<Key.videocodecid, Codec>>>>)]
TrackB == [view |-> "track", extra |-> <<<<Key.channels, Text(<<5>>)>>>>,
           known |-> With(TrackTable, <<<<Key.samplerate, Num(48)>>>>)]

Meta(pairs, extra) == [view |-> "metadata", known |-> With(MetaTable, pairs), extra |-> extra]
MetaAs(m, audio, video, audioTracks, videoTracks) ==
    [view |-> "metadata", meta |-> m, audio |-> audio, video |-> video,
     audioTracks |-> audioTracks, videoTracks |-> videoTracks]

Plain == Meta(<<<<Key.creationdate, Text(<<7, 7>>)>>, <<Key.stereo, Scalar("boolean", <<1>>)>>,
                <<Key.audiocodecid, Num(10)>>, <<Key.videocodecid, Codec>>>>,
              <<<<Wd, Null>>, <<Ht, Num(1)>>>>)

\* Tracks 2, 1 and 2 again are set.
Tracks == SetTrackInfo(SetTrackInfo(SetTrackInfo(<<>>, 2, TrackA), 1, TrackB), 2, TrackB)
Tracked == Meta(<<<<Key.videoTrackIdInfoMap, Tracks[1]>>, <<Key.audioTrackIdInfoMap, Null>>>>, <<>>)
Relaid == [Tracked EXCEPT !.known[16] = SetTrackInfo(@, 12, TrackA)]

Metas == {
    Viewed(Set(OnMetaData, OnMetaDataValue(Plain)), MetaAs(Plain, <<>>, CodecText, {}, {})),
    Viewed(Set(OnMetaData, OnMetaDataValue(Tracked)),
           MetaAs(Tracked, <<>>, <<>>, {}, {<<1, TrackB>>, <<2, TrackB>>})),
    Viewed(Set(OnMetaData, OnMetaDataValue(Relaid)),
           MetaAs(Relaid, <<>>, <<>>, {<<12, TrackA>>}, {<<1, TrackB>>, <<2, TrackB>>})),
    \* from elsewhere: in AMF3, doubled, mistyped, with tracks nobody can name
    Viewed(Amf3(Array(<<>>, <<<<Key.width, Amount(4)>>, <<Wd, Amount(5)>>, <<Key.width, Amount(6)>>>>),
                Ecma(<<<<Key.width, Num(4)>>, <<Wd, Num(5)>>, <<Key.width, Num(6)>>>>)),
           MetaAs(Meta(<<<<Key.width, Num(6)>>>>, <<<<Wd, Num(5)>>>>), <<>>, <<>>, {}, {})),
    Viewed(Set(OnMetaData, Obj(<<<<Key.width, Num(4)>>, <<Key.width, Text(<<4>>)>>,
                                 <<Key.audiocodecid, Num(-1)>>>>)),
           MetaAs(Meta(<<<<Key.audiocodecid, Num(-1)>>>>, <<>>), <<>>, <<>>, {}, {})),
    LET map == Ecma(<<<<<<48, 49>>, TrackInfoValue(TrackA)>>, <<<<49>>, Num(0)>>, <<<<43, 50>>, Null>>,
                      <<Wd, Null>>, <<<<50, 53, 54>>, Null>>>>) IN
    Viewed(Set(OnMetaData, Obj(<<<<Key.audioTrackIdInfoMap, map>>>>)),
           MetaAs(Meta(<<<<Key.audioTrackIdInfoMap, map>>>>, <<>>), <<>>, <<>>,
                  {<<1, Rejected>>, <<2, Absent>>}, {})),
    Viewed(Set(OnMetaData, Num(3)), Rejected) }

Some(numbers) == <<[i \in DOMAIN numbers |-> <<Num(numbers[i])>>]>>
Colors == {
    Reset,
    ColorInfo(<<Some(<<10, 9, 16, 9>>), Some(<<400, 1000>>), Some(<<1, 2, 3, 4, 5, 6, 7, 8, 9, 10>>)>>),
    ColorInfo(<<<<<<<<Num(8)>>, <<>>, <<>>, <<Num(1)>>>>>>, <<>>, <<>>>>),
    ColorInfo(<<<<>>, <<<<<<>>, <<>>>>>>, <<>>>>) }
ColorBody(values) == [ColorTag(Av01, Reset) EXCEPT !.body = FlattenSeq([i \in DOMAIN values |-> Encode0(values[i])])]
Colored(tag, view) == Viewed(MediaItem(tag), view)

Orders == {Channels(Unspecified, 2, <<>>), Channels(Native, 6, <<63>>), Channels(Custom, 2, <<0, 1>>),
           Channels(Custom, 0, <<>>), Channels(7, 1, <<8, 8, 8>>)}
Ordered(body, view) == Viewed(MediaItem([ChannelsTag(Opus, Channels(0, 0, <<>>)) EXCEPT !.body = body]), view)

TagViews ==
    {Colored(ColorTag(Hvc1, c), c) : c \in Colors}
    \cup {Viewed(MediaItem(ChannelsTag(Opus, c)), c) : c \in Orders}
    \cup {
    Colored(ColorBody(<<Text(<<9>>), Text(Key.colorInfo), Text(Key.colorInfo), Obj(<<>>)>>), Reset),
    Colored(ColorBody(<<Text(Key.colorInfo), Ecma(<<<<Key.hdrCll, Num(1)>>, <<Key.hdrCll, Null>>>>)>>),
            ColorInfo(<<<<>>, <<<<<<>>, <<>>>>>>, <<>>>>)),
    Colored(ColorBody(<<Text(Key.colorInfo)>>), Absent),
    Colored(ColorBody(<<Text(Key.colorInfo), Num(3)>>), Rejected),
    Colored([ColorTag(Av01, Reset) EXCEPT !.body = <<2, 9>>], Rejected),
    Colored([ColorTag(Av01, Reset) EXCEPT !.pt = SequenceEnd], Absent),
    Ordered(<<>>, Rejected), Ordered(<<Unspecified, 2, 0>>, Rejected), Ordered(<<Native, 2>>, Rejected),
    Ordered(<<Custom, 3, 0, 1>>, Rejected) }

-----------------------------------------------------------------------------
(* What is heard and not recorded. *)

Shared(type, payload, means) == [kind |-> "shared", type |-> type, payload |-> payload, means |-> means]
OneName(code) == Event(code, <<Wd>>, <<>>, <<>>)
Bare(code) == Event(code, <<>>, <<>>, <<>>)

\* Every event, its values in v.
EveryEvent(v, w) == SharedMessage(<<7, 7>>, 3, 2, <<
    Bare(1), Bare(2), Event(3, <<Wd>>, <<v>>, <<>>), Event(4, <<Wd, Ht>>, <<v, w>>, <<>>),
    OneName(5), Event(5, <<<<>>>>, <<>>, <<>>), Event(6, <<Ht>>, <<w, v, v>>, <<>>), Event(6, <<Wd>>, <<>>, <<>>),
    Event(7, <<Ht, Wd>>, <<>>, <<>>), Bare(8), OneName(9), OneName(10), Bare(11),
    Event(0, <<>>, <<>>, <<5, 5>>), Event(12, <<>>, <<>>, <<>>), Event(4, <<>>, <<>>, <<>>)>>)

Header == <<1, 7, 3, 2, 0>>
Says(events) == SharedMessage(<<7>>, 3, 2, events)

SharedItems == {
    Shared(Amf0Object, BuildMessage(Amf0Object, EveryEvent(Nested0(Num(1)), Null)), EveryEvent(Nested0(Num(1)), Null)),
    Shared(Amf3Object, BuildMessage(Amf3Object, EveryEvent(Nested3(Text(Wd)), Amount(2))),
           EveryEvent(Nested0(Text(Wd)), Num(2))),
    \* padded events, and messages cut short
    Shared(Amf0Object, Header \o <<1, 2, 9, 9, 3, 4, 1, 1, 5, 9>>, Says(<<Bare(1), Event(3, <<Wd>>, <<Null>>, <<>>)>>)),
    Shared(Amf0Object, Header, Says(<<>>)),
    Shared(Amf0Object, <<1, 7, 3, 2>>, Unheard), Shared(Amf0Object, Header \o <<1>>, Unheard),
    Shared(Amf3Object, Header \o <<9, 2, 1, 1>> \o <<4, 3, 1, 1, 2, 1, 3>>, Unheard),
    Shared(Amf0Object, Header \o <<7, 2, 1, 1>>, Unheard),
    \* a text of the first value is not one of the second's
    Shared(Amf3Object, Header \o <<6, 8, 0, 6>> \o WriteString(<<5, 5>>) \o <<2, 6, 0>>, Unheard) }

Says3 == Capabilities(<<3>>, <<<<5>>, <<6>>>>, <<<<<<5>>, 1>>, <<<<42>>, 7>>>>, <<<<<<6>>, MaxMask>>>>, 8)
Asks(caps) == [kind |-> "connect", payload |-> ConnectPayload(caps), means |-> caps]
Tells(caps, means) == [kind |-> "result", payload |-> ResultPayload(caps), means |-> means]
Odd(pairs, means) ==
    [kind |-> "connect", means |-> means,
     payload |-> Encode0(Text(Key.connect)) \o Encode0(Num(1)) \o Encode0(Ecma(pairs))]

Connects ==
    {Asks(c) : c \in {NoCapabilities, Says3, Capabilities(<<0>>, <<>>, <<>>, <<>>, 0)}}
    \cup {
    Tells(NoCapabilities, NoCapabilities), Tells(Says3, Says3),
    Tells(Capabilities(<<>>, <<>>, <<>>, <<>>, 4), Capabilities(<<0>>, <<>>, <<>>, <<>>, 4)),
    Tells(Capabilities(<<3>>, <<>>, <<>>, <<>>, 0), NoCapabilities),
    Odd(<<<<Key.capsEx, Num(MaxMask + 4)>>, <<Key.capsEx, Text(<<8>>)>>, <<Key.objectEncoding, Num(3)>>,
          <<Key.objectEncoding, Num(256)>>, <<Key.fourCcList, Strict(<<Num(1), Text(<<5>>)>>)>>,
          <<Key.videoFourCcInfoMap, Ecma(<<<<<<5>>, Num(1)>>, <<<<6>>, Num(-1)>>, <<<<5>>, Num(2)>>>>)>>,
          <<Key.audioFourCcInfoMap, Obj(<<<<<<6>>, Num(1)>>>>)>>, <<Key.audioFourCcInfoMap, Null>>>>,
        Capabilities(<<3>>, <<<<5>>>>, <<<<<<5>>, 2>>>>, <<>>, MaxMask)),
    [kind |-> "connect", payload |-> Encode0(Text(Key.connect)) \o Encode0(Num(1)), means |-> Rejected] }

\* A few of them, one of each kind.
Few == {
    MediaItem(Video1), MediaItem(Audio1), Raw(Audio, <<>>, Unreadable),
    Set(OnMetaData, Nested0(Num(4))), Raw(Video, [i \in 1 .. MaxSize + 1 |-> 16], End),
    Sealed(Audio, Crypt(Selective, 78, <<>>), Encrypted(Audio, 0, Crypt(Selective, 78, <<>>))) }

MCMenus == [media |-> {MediaItem(t) : t \in MediaTags} \cup Bodies \cup Crypts,
            data |-> Own \cup Foreign,
            views |-> Metas \cup TagViews \cup SharedItems \cup Connects, few |-> Few]

Scene(menu, total, times, flags, cap, cuts, live, damage) ==
    [menu |-> menu, total |-> total, times |-> times, flags |-> flags, cap |-> cap,
     cuts |-> cuts, live |-> live, damage |-> damage]

MCScenes == {
    Scene("media", 2, {5, 3 * TimeLow + 2}, {"audio", "video"}, MaxSize, FALSE, FALSE, FALSE),
    Scene("data", 2, {0}, {}, MaxSize, FALSE, FALSE, FALSE),
    Scene("views", 2, {0}, {}, MaxSize, FALSE, FALSE, FALSE),
    Scene("few", 3, {TimeLow - 1}, {"video"}, MaxSize, TRUE, TRUE, FALSE),
    Scene("few", 3, {0, TimeLow}, {"audio"}, 5, FALSE, FALSE, TRUE) }

ASSUME EntriesAreRead == EntriesRead
=============================================================================
