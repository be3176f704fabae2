------------------------------ MODULE Dispatch ------------------------------
(***************************************************************************)
(* What each of the four sessions does with one message: handle_message    *)
(* and handle_command_values of RtmpSession, handle_event_message and      *)
(* classify_command_values of PlaySession (src/server.rs), handle_message  *)
(* and classify_status of RtmpPlayer (src/player.rs), classify_message and *)
(* classify_command of RtmpClient (src/client.rs), parse_aggregate and     *)
(* build_aggregate (src/aggregate.rs).                                     *)
(*                                                                         *)
(* A message is its kind (the type id and, for a command or a user control *)
(* event, its name), the number or value that matters in it, and for an    *)
(* aggregate its sub-messages.  WindowAckSize and SetPeerBandwidth belong  *)
(* to flow control and are not among the kinds.                            *)
(***************************************************************************)
EXTENDS Integers, Sequences, SequencesExt

CONSTANTS
    TsMod,     \* 2^32 in the code
    Names      \* the handler names of data messages; "" stands for none

ASSUME TimestampModulus == TsMod \in Nat \ {0}
ASSUME HandlerNames == {"", "onMetaData"} \subseteq Names

\* val is a transaction id, a ping's timestamp, a chunk size or the value of a data
\* message; a data message whose value is no object has val 0.
Named(k, n, v) == [kind |-> k, name |-> n, val |-> v, ts |-> 0, subs |-> <<>>]
Plain(k, v) == Named(k, "", v)
At(k, t) == [Plain(k, 0) EXCEPT !.ts = t]

Controls == {"play", "play2", "seek", "pause", "receiveAudio", "receiveVideo"}
Replies == {"_result", "_error"}
Rpc == Replies \cup {"call"}
Media == {"Audio", "Video"}
UserControls == {"StreamBegin", "StreamEof", "StreamDry", "SetBufferLength",
                 "StreamIsRecorded", "PingRequest", "PingResponse"}
Farewells == {"closeStream", "deleteStream", "close", "FCUnpublish"}
Kinds == Media \cup Rpc \cup Controls \cup UserControls \cup Farewells
         \cup {"Data", "SetDataFrame", "ClearDataFrame", "SharedObject", "onStatus",
               "SetChunkSize", "Malformed", "Other"}

\* A message that holds no others, and an aggregate of messages of the set S.  Aggregates
\* are nested at most once.
Leaf == [kind : Kinds, name : Names, val : Nat, ts : 0 .. TsMod - 1, subs : {<<>>}]
AggregateOf(S) ==
    [kind : {"Aggregate"}, name : {""}, val : {0}, ts : 0 .. TsMod - 1, subs : Seq(S)]
Sub == Leaf \cup AggregateOf(Leaf)
Message == Leaf \cup AggregateOf(Sub)

\* The members of ms that pass the test, in order (SelectSeq, of which the proofs know
\* nothing).
Those(ms, Test(_)) ==
    FlattenSeq([i \in DOMAIN ms |-> IF Test(ms[i]) THEN <<ms[i]>> ELSE <<>>])

-----------------------------------------------------------------------------
(* Aggregates. *)

\* Fault: the offset is taken afresh from each sub-message.
FaultOffsetOfEach(m) ==
    [i \in DOMAIN m.subs |-> [m.subs[i] EXCEPT !.ts = m.ts]]

\* The sub-messages, on the clock of the aggregate: the offset is that of the first.
ParseAggregate(m) ==
    [i \in DOMAIN m.subs |->
        [m.subs[i] EXCEPT !.ts = (@ + m.ts - m.subs[1].ts) % TsMod]]

\* Sub-messages keep their timestamps, the aggregate takes the first one's.
BuildAggregate(subs) ==
    [At("Aggregate", IF subs = <<>> THEN 0 ELSE subs[1].ts) EXCEPT !.subs = subs]

-----------------------------------------------------------------------------
(* The four handlers. *)

\* What ends the session of the reader.
Ends == [RtmpClient  |-> {},
         RtmpSession |-> {"closeStream", "deleteStream", "close", "FCUnpublish"},
         PlaySession |-> {"closeStream", "deleteStream", "close"},
         RtmpPlayer  |-> {"StreamEof"}]

\* Fault: a ping in the play direction is surfaced and not answered.
FaultPlayerSurfacesPing == {"RtmpClient", "PlaySession"}

\* The sessions that answer a ping.
AnswersPing == {"RtmpClient", "RtmpPlayer", "PlaySession"}

\* Fault: the player takes replies for those of setup and swallows them.
FaultPlayerSwallowsReplies ==
    [RtmpClient  |-> Rpc \cup {"onStatus", "StreamBegin", "StreamEof", "StreamDry",
                               "StreamIsRecorded", "PingResponse", "SharedObject"},
     RtmpSession |-> Rpc \cup Controls \cup {"Audio", "Video", "SetDataFrame",
                               "ClearDataFrame", "Data", "SharedObject"},
     PlaySession |-> Rpc \cup Controls \cup {"SetBufferLength", "SharedObject"},
     RtmpPlayer  |-> {"call", "Audio", "Video", "SetDataFrame", "Data", "onStatus",
                               "SharedObject", "StreamBegin", "StreamDry",
                               "StreamIsRecorded", "SetBufferLength", "PingResponse"}]

\* The kinds a poll returns an event or a packet for.  For a message that it cannot
\* parse ("Malformed") the poll returns an error; any other kind it consumes silently.
Surfacing ==
    [RtmpClient  |-> Rpc \cup {"onStatus", "StreamBegin", "StreamEof", "StreamDry",
                               "StreamIsRecorded", "PingResponse", "SharedObject"},
     RtmpSession |-> Rpc \cup Controls \cup {"Audio", "Video", "SetDataFrame",
                               "ClearDataFrame", "Data", "SharedObject"},
     PlaySession |-> Rpc \cup Controls \cup {"SetBufferLength", "SharedObject"},
     RtmpPlayer  |-> Rpc \cup {"Audio", "Video", "SetDataFrame", "Data", "onStatus",
                               "SharedObject", "StreamBegin", "StreamDry",
                               "StreamIsRecorded", "SetBufferLength", "PingResponse"}]

\* A data message without an object in it surfaces as nothing, but for the data frames
\* a publish session is told to set.
Surfaces(type, m) ==
    /\ m.kind \in Surfacing[type]
    /\ m.kind = "Data" \/ (m.kind = "SetDataFrame" /\ type = "RtmpPlayer") => m.val # 0

\* The messages written while a message is handled.
Answers(type, m) ==
    IF m.kind = "PingRequest" /\ type \in AnswersPing
    THEN <<Plain("PingResponse", m.val)>> ELSE <<>>

\* The session `s` once it has handled m.
After(type, s, m) ==
    [s EXCEPT
       !.subs     = IF m.kind = "Aggregate" THEN @ \o ParseAggregate(m) ELSE @,
       !.ended    = @ \/ m.kind \in Ends[type],
       !.size     = IF m.kind = "SetChunkSize" THEN m.val ELSE @,
       !.recorded = @ \/ (type = "RtmpPlayer" /\ m.kind = "StreamIsRecorded")]

-----------------------------------------------------------------------------
(* Data frames and the relay. *)

Frame == [name : Names, val : Nat]

\* Fault: a frame that is there already is stored a second time.
FaultStoresAgain(frames, n, v) == Append(frames, [name |-> n, val |-> v])

\* Fault: a frame that is there already keeps its old value.
FaultKeepsFirst(frames, n, v) ==
    IF \E i \in DOMAIN frames : frames[i].name = n THEN frames
    ELSE Append(frames, [name |-> n, val |-> v])

\* store_data_frame: the frame keeps its place when it is there already.
Upsert(frames, n, v) ==
    IF \E i \in DOMAIN frames : frames[i].name = n
    THEN [i \in DOMAIN frames |->
            IF frames[i].name = n THEN [name |-> n, val |-> v] ELSE frames[i]]
    ELSE Append(frames, [name |-> n, val |-> v])

\* dispatch_data_values on the stored frames.  A bare data message is metadata when
\* it is named so or not named at all.
FramesAfter(frames, m) ==
    CASE m.kind = "SetDataFrame" -> Upsert(frames, m.name, m.val)
      [] m.kind = "ClearDataFrame" -> Those(frames, LAMBDA f : f.name # m.name)
      [] m.kind = "Data" /\ m.val # 0 /\ m.name \in {"", "onMetaData"} ->
            Upsert(frames, "onMetaData", m.val)
      [] OTHER -> frames

\* send_data: a frame as a subscriber gets it.
DataMessage(f) == Named("Data", f.name, f.val)

\* Fault: media is forwarded without its timestamp.
FaultRestamped(m) ==
    CASE m.kind \in Media -> <<[m EXCEPT !.ts = 0]>>
      [] m.kind = "SetDataFrame" -> <<Named("Data", m.name, m.val)>>
      [] m.kind = "Data" -> <<Named("Data", "onMetaData", m.val)>>
      [] OTHER -> <<>>

\* PlaySession::forward of the packet that m surfaced as: Metadata, which is what a
\* bare data message of any name becomes, leaves as onMetaData.
Forwarded(m) ==
    CASE m.kind \in Media -> <<m>>
      [] m.kind = "SetDataFrame" -> <<Named("Data", m.name, m.val)>>
      [] m.kind = "Data" -> <<Named("Data", "onMetaData", m.val)>>
      [] OTHER -> <<>>
=============================================================================
