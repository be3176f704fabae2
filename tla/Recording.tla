----------------------------- MODULE Recording -----------------------------
(***************************************************************************)
(* Recording a session into an FLV file (FlvFile): what a session hands    *)
(* out and an application records, which is metadata that came in AMF0 or  *)
(* AMF3 (Amf) and goes to the file in AMF0, and tags of media; what is     *)
(* heard and not recorded, shared objects (SharedObject) and capabilities  *)
(* (TypedViews); and what is made of the script tags that are read back.   *)
(***************************************************************************)
EXTENDS FlvFile, TypedViews, SharedObject

CONSTANT Menus   \* name -> set of items an application may record (see What is recorded)

-----------------------------------------------------------------------------
(* The metadata a session hands out. *)

SetDataFrame == <<310>>
ClearDataFrame == <<311>>
OnMetaData == <<312>>

DataAmf3 == 15
DataAmf0 == 18

\* metadata_object: the positions of what may be the metadata.
Objects(values) == {i \in DOMAIN values : values[i].t \in {"object", "ecma"}}
LastOf(S) == CHOOSE i \in S : \A j \in S : j <= i

Texts(values, n) == Len(values) >= n /\ \A i \in 1 .. n : values[i].t = "string"

NoFrame == [handler |-> <<>>, value |-> Null]
Frame(handler, value) == [handler |-> handler, value |-> value]

\* parse_data_frame, then dispatch_data_values: the frame that is handed out to be recorded.
FrameOf(values) ==
    CASE Texts(values, 2) /\ values[1].v = ClearDataFrame -> NoFrame
      [] Texts(values, 2) /\ values[1].v = SetDataFrame /\ Len(values) >= 3 ->
            Frame(values[2].v, values[3])
      [] OTHER -> IF Objects(values) = {} THEN NoFrame
                  ELSE Frame(OnMetaData, values[LastOf(Objects(values))])

Decoded(r) == IF r.ok THEN FrameOf(r.v) ELSE NoFrame

\* handle_message for a data message.
DataMessage(type, payload) ==
    Decoded(IF type = DataAmf3 THEN DecodeMessageToAmf0(payload) ELSE DecodeAll(Reader(payload)))

-----------------------------------------------------------------------------
(* What is recorded.  An item is a tag to be recorded, a message that comes in and what its sender   *)
(* means by it, an encrypted tag, or a type and a payload that are written as they are.  Its  *)
(* view is what an application is to make of the tag that is read back, if it makes anything. *)

Unheard == [view |-> "unheard"]
NoView == [view |-> "none"]

Unrecorded(heard, means) == Entry(None, <<>>, FALSE, End, heard, means, NoView)

\* A frame is recorded at time 0; without one nothing is.
Framed(frame, item) ==
    IF frame = NoFrame THEN Unrecorded(NoFrame, item.means)
    ELSE Entry(Script, Encode0(Scalar("string", frame.handler)) \o Encode0(frame.value), FALSE,
               ScriptData(0, frame.handler, frame.value), frame, item.means, item.view)

Handed(r) == IF r.ok THEN r.v ELSE Unheard

\* write_video_tag, write_audio_tag, write_script_data, write_encrypted_tag, write_raw_tag: the
\* type and the payload they frame, and what is to be read back.
EntryOf(item) ==
    CASE item.kind = "media" ->
            Entry(TypeOf(item.tag.kind), Build(item.tag), TRUE, Media(item.tag.kind, 0, item.tag),
                  NoFrame, NoFrame, item.view)
      [] item.kind = "data" -> Framed(DataMessage(item.type, item.payload), item)
      [] item.kind = "crypt" ->
            Entry((item.type % 32) + 32, Envelope(item.crypt), TRUE, item.said,
                  NoFrame, NoFrame, NoView)
      [] item.kind = "raw" ->
            Entry(item.type, item.payload, TRUE, item.said, NoFrame, NoFrame, NoView)
      [] item.kind = "shared" ->
            Unrecorded(Handed(ParseSharedObject(item.type, item.payload)), item.means)
      [] item.kind = "connect" ->
            Unrecorded(ClientCapabilities(DecodeAll(Reader(item.payload))), item.means)
      [] item.kind = "result" ->
            Unrecorded(ServerCapabilities(DecodeAll(Reader(item.payload))), item.means)

RecordedEntries == [m \in DOMAIN Menus |-> {EntryOf(item) : item \in Menus[m]}]

-----------------------------------------------------------------------------
(* What is read. *)

NotScript == [ok |-> FALSE]

\* parse_script_body: what is behind the value is read, and no matter.
ScriptOf(body) ==
    LET name == Decode0(Reader(body), 0) IN
    IF ~name.ok THEN NotScript
    ELSE IF name.v.t # "string" THEN NotScript
    ELSE LET value == Decode0(Reader(name.s.p), 0) IN
         IF value.ok THEN [ok |-> TRUE, name |-> name.v.v, value |-> value.v] ELSE NotScript

Members(v) ==
    CASE v.t \in {"object", "ecma", "typed"} -> [i \in DOMAIN v.pairs |-> v.pairs[i][2]]
      [] v.t = "strict" -> v.items
      [] OTHER -> <<>>

\* What AMF0 can carry at depth d.
RECURSIVE Recordable(_, _)
Recordable(v, d) ==
    /\ d < MaxDepth
    /\ v.t \in {"object", "ecma", "typed"} =>
          \A i \in DOMAIN v.pairs : Len(v.pairs[i][1]) \in 1 .. ShortMax
    /\ \A i \in DOMAIN Members(v) : Recordable(Members(v)[i], d + 1)

ScriptSayable(said) == said.what = "script" => Recordable(said.value, 0)

\* What an application makes of a tag it reads.
Lifted(res) ==
    CASE res.what = "script" -> MetaView(res.value)
      [] res.what = "video" -> ColorOfTag(res.tag)
      [] res.what = "audio" -> ChannelsOfTag(res.tag)
      [] OTHER -> NoView

\* A session hands out what its peer meant, and metadata, colours and channel orders come back
\* from the file as their publisher meant them, whichever encoding they came in, with references
\* and without; what AMF0 cannot carry is excepted.
ScriptKept ==
    /\ \A m \in misheard : "value" \in DOMAIN m /\ ~Recordable(m.value, 0)
    /\ \A i \in DOMAIN got \cap DOMAIN tags :
          LET m == tags[i].means
              res == got[i].res
          IN  res \notin {End, Torn, Refused} /\ garbled # i =>
                /\ m # NoFrame /\ Recordable(m.value, 0) => res = ScriptData(0, m.handler, m.value)
                /\ tags[i].view # NoView => Lifted(res) = tags[i].view
=============================================================================
