----------------------------- MODULE TypedViews -----------------------------
(***************************************************************************)
(* What applications say with AMF values and tag bodies: the typed views   *)
(* OnMetaData, TrackInfo, ColorInfo and MultichannelConfig (src/flv.rs),   *)
(* and ConnectCapabilities (src/caps.rs) with the two commands that carry  *)
(* it (src/message.rs, src/client.rs).                                     *)
(*                                                                         *)
(* An optional value is <<>> or <<v>>.  A name the code spells out is one  *)
(* character.                                                              *)
(***************************************************************************)
EXTENDS FlvTags, Amf

CONSTANT MaxMask   \* the largest mask of 32 bits

Key == [
    audiocodecid |-> <<401>>, audiodatarate |-> <<402>>, audiodelay |-> <<403>>,
    audiosamplerate |-> <<404>>, audiosamplesize |-> <<405>>, canSeekToEnd |-> <<406>>,
    creationdate |-> <<407>>, duration |-> <<408>>, filesize |-> <<409>>, framerate |-> <<410>>,
    height |-> <<411>>, stereo |-> <<412>>, videocodecid |-> <<413>>, videodatarate |-> <<414>>,
    width |-> <<415>>, audioTrackIdInfoMap |-> <<416>>, videoTrackIdInfoMap |-> <<417>>,
    channels |-> <<418>>, samplerate |-> <<419>>,
    colorInfo |-> <<420>>, colorConfig |-> <<421>>, hdrCll |-> <<422>>, hdrMdcv |-> <<423>>,
    bitDepth |-> <<424>>, colorPrimaries |-> <<425>>, transferCharacteristics |-> <<426>>,
    matrixCoefficients |-> <<427>>, maxFall |-> <<428>>, maxCLL |-> <<429>>,
    redX |-> <<430>>, redY |-> <<431>>, greenX |-> <<432>>, greenY |-> <<433>>,
    blueX |-> <<434>>, blueY |-> <<435>>, whitePointX |-> <<436>>, whitePointY |-> <<437>>,
    maxLuminance |-> <<438>>, minLuminance |-> <<439>>,
    objectEncoding |-> <<440>>, fourCcList |-> <<441>>, videoFourCcInfoMap |-> <<442>>,
    audioFourCcInfoMap |-> <<443>>, capsEx |-> <<444>>,
    connect |-> <<445>>, result |-> <<446>>, app |-> <<447>>, capabilities |-> <<448>>,
    level |-> <<449>>, status |-> <<450>> ]

Rejected == [view |-> "rejected"]
Absent == [view |-> "absent"]

HasPairs(v) == v.t \in {"object", "ecma"}

Named(pairs, key) == {i \in DOMAIN pairs : pairs[i][1] = key}

\* The value of the last pair at these positions.
Latest(pairs, at) == IF at = {} THEN <<>> ELSE <<pairs[Max(at)][2]>>

\* Amf0Value::get: the first value of this name.
Get(v, key) ==
    LET at == IF HasPairs(v) \/ v.t = "typed" THEN Named(v.pairs, key) ELSE {}
    IN  IF at = {} THEN <<>> ELSE <<v.pairs[Min(at)][2]>>

\* as_f64, as_bool, as_str of an optional value.
As(option, type) == IF option # <<>> /\ (type = "any" \/ option[1].t = type) THEN option ELSE <<>>

\* The properties of a table that are there, in its order.
Present(table, known) ==
    FlattenSeq([i \in DOMAIN table |->
        IF known[i] = <<>> THEN <<>> ELSE <<<<table[i][1], known[i][1]>>>>])

-----------------------------------------------------------------------------
(* onMetaData. *)

MetaTable == <<
    <<Key.audiocodecid, "number">>, <<Key.audiodatarate, "number">>, <<Key.audiodelay, "number">>,
    <<Key.audiosamplerate, "number">>, <<Key.audiosamplesize, "number">>,
    <<Key.canSeekToEnd, "boolean">>, <<Key.creationdate, "string">>, <<Key.duration, "number">>,
    <<Key.filesize, "number">>, <<Key.framerate, "number">>, <<Key.height, "number">>,
    <<Key.stereo, "boolean">>, <<Key.videocodecid, "number">>, <<Key.videodatarate, "number">>,
    <<Key.width, "number">>, <<Key.audioTrackIdInfoMap, "any">>, <<Key.videoTrackIdInfoMap, "any">> >>

KeysOf(table) == {table[i][1] : i \in DOMAIN table}

\* The value of a property of the table.
Known(table, known, key) == known[CHOOSE i \in DOMAIN table : table[i][1] = key]

\* OnMetaData::from_amf0: of a name that comes twice the later value counts, of whatever type,
\* and a value of another type than the table's is dropped.
OnMetaDataOf(v) ==
    IF ~HasPairs(v) THEN Rejected
    ELSE [view |-> "metadata",
          known |-> [i \in DOMAIN MetaTable |->
                        As(Latest(v.pairs, Named(v.pairs, MetaTable[i][1])), MetaTable[i][2])],
          extra |-> SelectSeq(v.pairs, LAMBDA p : p[1] \notin KeysOf(MetaTable))]

\* OnMetaData::to_amf0
OnMetaDataValue(m) == Pairs("ecma", <<>>, Present(MetaTable, m.known) \o m.extra)

TrackTable == <<
    <<Key.width, "number">>, <<Key.height, "number">>, <<Key.videodatarate, "number">>,
    <<Key.videocodecid, "number">>, <<Key.audiodatarate, "number">>, <<Key.channels, "number">>,
    <<Key.samplerate, "number">>, <<Key.audiocodecid, "number">> >>

\* TrackInfo::from_amf0: a value that is no number stays among the others.
TrackInfoOf(v) ==
    LET typed(p) == p[1] \in KeysOf(TrackTable) /\ p[2].t = "number"
        lifted == SelectSeq(v.pairs, typed)
    IN  IF ~HasPairs(v) THEN Rejected
        ELSE [view |-> "track",
              known |-> [i \in DOMAIN TrackTable |-> Latest(lifted, Named(lifted, TrackTable[i][1]))],
              extra |-> SelectSeq(v.pairs, LAMBDA p : ~typed(p))]

\* TrackInfo::to_amf0
TrackInfoValue(info) == Pairs("object", <<>>, Present(TrackTable, info.known) \o info.extra)

TrackPairs(map) == IF map # <<>> /\ HasPairs(map[1]) THEN map[1].pairs ELSE <<>>

\* A text as a number of 8 bits: a plus sign, if any, and digits.
ParsedU8(text) ==
    LET digits == IF text # <<>> /\ text[1] = 43 THEN Tail(text) ELSE text
        value == FoldLeft(LAMBDA n, c : 10 * n + c - 48, 0, digits)
    IN  IF digits = <<>> \/ (\E i \in DOMAIN digits : digits[i] \notin 48 .. 57) \/ value > 255
        THEN None ELSE value

\* track_ids
TrackIds(map) ==
    LET pairs == TrackPairs(map)
    IN  {ParsedU8(pairs[i][1]) : i \in DOMAIN pairs} \ {None}

\* track_info
TrackInfoAt(map, id) ==
    LET pairs == TrackPairs(map)
        at == Named(pairs, Decimal(id))
    IN  IF at = {} THEN Absent ELSE TrackInfoOf(pairs[Min(at)][2])

\* set_track_info
SetTrackInfo(map, id, info) ==
    LET at == Named(TrackPairs(map), Decimal(id))
        entry == <<Decimal(id), TrackInfoValue(info)>>
    IN  IF map = <<>> \/ ~HasPairs(map[1]) THEN <<Pairs("object", <<>>, <<entry>>)>>
        ELSE IF at = {} THEN <<[map[1] EXCEPT !.pairs = Append(@, entry)]>>
        ELSE <<[map[1] EXCEPT !.pairs[Min(at)] = entry]>>

\* num_to_fourcc: four bytes that can be printed.
FourccOf(option) ==
    LET n == option[1].v[1]
        bytes == <<n \div 2^24, (n \div 2^16) % 256, (n \div 2^8) % 256, n % 256>>
    IN  IF option # <<>> /\ n >= 0 /\ \A i \in 1 .. 4 : bytes[i] \in 32 .. 126 THEN bytes ELSE <<>>

\* What an application can ask of the metadata: the properties, the codecs (audio_fourcc,
\* video_fourcc), the tracks of each map.
TracksIn(map) == {<<id, TrackInfoAt(map, id)>> : id \in TrackIds(map)}
MetaViewOf(m) ==
    [view |-> "metadata", meta |-> m,
     audio |-> FourccOf(Known(MetaTable, m.known, Key.audiocodecid)),
     video |-> FourccOf(Known(MetaTable, m.known, Key.videocodecid)),
     audioTracks |-> TracksIn(Known(MetaTable, m.known, Key.audioTrackIdInfoMap)),
     videoTracks |-> TracksIn(Known(MetaTable, m.known, Key.videoTrackIdInfoMap))]
MetaView(v) == IF HasPairs(v) THEN MetaViewOf(OnMetaDataOf(v)) ELSE Rejected

-----------------------------------------------------------------------------
(* colorInfo, in the body of a metadata tag.                                  *)

SubKeys == <<Key.colorConfig, Key.hdrCll, Key.hdrMdcv>>
ColorKeys == <<
    <<Key.bitDepth, Key.colorPrimaries, Key.transferCharacteristics, Key.matrixCoefficients>>,
    <<Key.maxFall, Key.maxCLL>>,
    <<Key.redX, Key.redY, Key.greenX, Key.greenY, Key.blueX, Key.blueY, Key.whitePointX,
      Key.whitePointY, Key.maxLuminance, Key.minLuminance>> >>

\* subs: for colorConfig, hdrCll and hdrMdcv the numbers it has, if it is there at all.
ColorInfo(subs) == [view |-> "color", subs |-> subs]
Reset == ColorInfo(<<<<>>, <<>>, <<>>>>)

Numbers(v, keys) == [i \in DOMAIN keys |-> As(Get(v, keys[i]), "number")]

\* ColorInfo::from_amf0
ColorInfoOf(v) ==
    LET sub(s) == LET at == Get(v, SubKeys[s]) IN
                  IF at = <<>> THEN <<>> ELSE <<Numbers(at[1], ColorKeys[s])>>
    IN  CASE v.t \in {"undefined", "null"} -> Reset
          [] HasPairs(v) -> ColorInfo([s \in 1 .. 3 |-> sub(s)])
          [] OTHER -> Rejected

\* ColorInfo::to_amf0: an object that is there and empty stays, a reset is undefined.
ColorTable(s) == [i \in DOMAIN ColorKeys[s] |-> <<ColorKeys[s][i], "number">>]
ColorValue(c) ==
    LET sub(s) == IF c.subs[s] = <<>> THEN <<>>
                  ELSE <<<<SubKeys[s], Pairs("object", <<>>, Present(ColorTable(s), c.subs[s][1]))>>>>
    IN  IF c = Reset THEN Scalar("undefined", <<>>)
        ELSE Pairs("object", <<>>, sub(1) \o sub(2) \o sub(3))

\* VideoTag::color_info: the value behind the first name that says so, in a body of names and
\* values.
ColorIn(values) ==
    LET at == {i \in DOMAIN values : i % 2 = 1 /\ i < Len(values)
                                     /\ values[i] = Scalar("string", Key.colorInfo)}
    IN  IF at = {} THEN Absent ELSE ColorInfoOf(values[Min(at) + 1])
ColorOfBody(r) == IF r.ok THEN ColorIn(r.v) ELSE Rejected
ColorOfTag(t) ==
    IF t.pt # Metadata \/ t.fourcc = None THEN Absent ELSE ColorOfBody(DecodeAll(Reader(t.body)))

\* VideoTag::color_info_tag
ColorTag(fourcc, c) ==
    [Tag("video") EXCEPT !.frame = Command, !.pt = Metadata, !.fourcc = fourcc,
        !.body = Encode0(Scalar("string", Key.colorInfo)) \o Encode0(ColorValue(c))]

-----------------------------------------------------------------------------
(* The order of channels, in the body of an audio tag of its own packet type. *)

MultichannelConfig == 4
Unspecified == 0
Native == 1
Custom == 2

\* rest: nothing, the flags, a speaker for each channel, or what is behind a reserved order.
Channels(order, count, rest) == [view |-> "channels", order |-> order, count |-> count, rest |-> rest]

\* MultichannelConfig::parse; the flags are one field.
ChannelsOf(body) ==
    LET size == CASE body[1] = Unspecified -> 2
                  [] body[1] = Native -> 3
                  [] body[1] = Custom -> 2 + body[2]
                  [] OTHER -> Len(body)
    IN  IF Len(body) < 2 \/ Len(body) # size THEN Rejected
        ELSE Channels(body[1], body[2], From(body, 3))

\* MultichannelConfig::encode
ChannelsBody(c) == <<c.order, c.count>> \o c.rest

\* AudioTag::multichannel_config and multichannel_config_tag
ChannelsOfTag(t) ==
    IF t.pt # MultichannelConfig \/ t.fourcc = None THEN Absent ELSE ChannelsOf(t.body)
ChannelsTag(fourcc, c) ==
    [Tag("audio") EXCEPT !.pt = MultichannelConfig, !.fourcc = fourcc, !.body = ChannelsBody(c)]

-----------------------------------------------------------------------------
(* Capabilities, in connect and its answer. *)

\* FourCcInfoMap::insert
Inserted(entries, key, mask) ==
    LET at == Named(entries, key)
    IN  IF at = {} THEN Append(entries, <<key, mask>>) ELSE [entries EXCEPT ![Min(at)][2] = mask]

IsMask(v) == v.t = "number" /\ v.v[1] >= 0
Saturated(n) == IF n > MaxMask THEN MaxMask ELSE n

\* FourCcInfoMap::from_amf0
InfoMapOf(v) ==
    IF ~HasPairs(v) THEN <<>>
    ELSE FoldLeft(LAMBDA entries, p : IF IsMask(p[2]) THEN Inserted(entries, p[1], Saturated(p[2].v[1]))
                                      ELSE entries, <<>>, v.pairs)

\* FourCcInfoMap::to_amf0
InfoMapValue(entries) ==
    Pairs("object", <<>>,
          [i \in DOMAIN entries |-> <<entries[i][1], Scalar("number", <<entries[i][2]>>)>>])

Capabilities(encoding, list, video, audio, ex) ==
    [view |-> "capabilities", encoding |-> encoding, list |-> list, video |-> video, audio |-> audio,
     ex |-> ex]
NoCapabilities == Capabilities(<<>>, <<>>, <<>>, <<>>, 0)

\* The last value of this name that fits.
Fitting(pairs, key, Fits(_)) ==
    Latest(pairs, {i \in Named(pairs, key) : Fits(pairs[i][2])})

\* ConnectCapabilities::from_amf0: a value that does not fit is ignored, but for the two maps.
CapabilitiesOf(v) ==
    LET encoding == Fitting(v.pairs, Key.objectEncoding, LAMBDA e : IsMask(e) /\ e.v[1] <= 255)
        list == Fitting(v.pairs, Key.fourCcList, LAMBDA e : e.t = "strict")
        map(key) == LET at == Fitting(v.pairs, key, LAMBDA e : TRUE) IN
                    IF at = <<>> THEN <<>> ELSE InfoMapOf(at[1])
        ex == Fitting(v.pairs, Key.capsEx, IsMask)
        texts == IF list = <<>> THEN <<>> ELSE SelectSeq(list[1].items, LAMBDA e : e.t = "string")
    IN  IF ~HasPairs(v) THEN NoCapabilities
        ELSE Capabilities(IF encoding = <<>> THEN <<>> ELSE encoding[1].v,
                          [i \in DOMAIN texts |-> texts[i].v],
                          map(Key.videoFourCcInfoMap), map(Key.audioFourCcInfoMap),
                          IF ex = <<>> THEN 0 ELSE Saturated(ex[1].v[1]))

\* ConnectCapabilities::encode_into
CapabilityPairs(c) ==
    LET unless(default, field, key, value) == IF field = default THEN <<>> ELSE <<<<key, value>>>>
    IN  unless(<<>>, c.encoding, Key.objectEncoding, Scalar("number", c.encoding))
        \o unless(<<>>, c.list, Key.fourCcList,
                  Strict([i \in DOMAIN c.list |-> Scalar("string", c.list[i])]))
        \o unless(<<>>, c.video, Key.videoFourCcInfoMap, InfoMapValue(c.video))
        \o unless(<<>>, c.audio, Key.audioFourCcInfoMap, InfoMapValue(c.audio))
        \o unless(0, c.ex, Key.capsEx, Scalar("number", <<c.ex>>))

\* build_connect_with_caps; the other properties stand behind two of their names.
ConnectPayload(c) ==
    Encode0(Scalar("string", Key.connect)) \o Encode0(Scalar("number", <<1>>))
    \o Encode0(Pairs("object", <<>>,
           <<<<Key.app, Scalar("string", <<1>>)>>, <<Key.capabilities, Scalar("number", <<15>>)>>>>
           \o CapabilityPairs(c)))

\* build_connect_result_with_caps: an encoding of its own only when the capabilities name none.
ResultPayload(c) ==
    Encode0(Scalar("string", Key.result)) \o Encode0(Scalar("number", <<1>>))
    \o Encode0(Pairs("object", <<>>, <<<<Key.capabilities, Scalar("number", <<31>>)>>>>))
    \o Encode0(Pairs("object", <<>>,
           <<<<Key.level, Scalar("string", Key.status)>>>>
           \o (IF c.encoding = <<>> THEN <<<<Key.objectEncoding, Scalar("number", <<0>>)>>>> ELSE <<>>)
           \o CapabilityPairs(c)))

\* The client's capabilities as the server reads them from the command object of connect.
ClientCapabilities(r) ==
    IF r.ok /\ Len(r.v) >= 3 THEN CapabilitiesOf(r.v[3]) ELSE Rejected

\* extract_server_caps: the first object of the answer that has more than an encoding.
ServerCapabilities(r) ==
    LET at == {i \in DOMAIN r.v : /\ HasPairs(r.v[i])
                                  /\ [CapabilitiesOf(r.v[i]) EXCEPT !.encoding = <<>>] # NoCapabilities}
    IN  IF ~r.ok THEN Rejected ELSE IF at = {} THEN NoCapabilities ELSE CapabilitiesOf(r.v[Min(at)])
=============================================================================
