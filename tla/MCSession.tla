----------------------------- MODULE MCSession -----------------------------
(***************************************************************************)
(* Small instances of Session: a publisher and a subscriber.  Each of the  *)
(* scenes lets one part of the protocol meet itself.                       *)
(***************************************************************************)
EXTENDS Session

MCConn == {"up", "p1"}
MCNames == {"", "onMetaData", "onCuePoint"}

\* Only the ends in DOMAIN m have something to write.
Menu(m) == [e \in End |-> IF e \in DOMAIN m THEN m[e] ELSE {}]

Publisher == <<"up", "client">>
Player == <<"p1", "client">>
Server == <<"p1", "server">>

Agg(ms) == BuildAggregate(ms)

\* Bundles: times around the wrap, an aggregate at the end of another one, a chunk size
\* and a farewell inside one, and a message the handlers refuse.
Bundles == Menu(Publisher :>
    {At("Audio", 2), Plain("SetChunkSize", 2), Plain("Malformed", 0), Plain("deleteStream", 0),
     Agg(<<At("Audio", 3), At("Video", 1)>>),
     Agg(<<At("Audio", 0), Plain("SetChunkSize", 3), At("Video", 1)>>),
     Agg(<<At("Video", 3), Plain("deleteStream", 0), At("Audio", 3)>>),
     Agg(<<At("Video", 1), Agg(<<At("Audio", 1), At("Audio", 3)>>)>>)})

\* Data frames, set, replaced, cleared, bare, and in an aggregate.
DataFrames ==
    {Named("SetDataFrame", "onMetaData", 1), Named("SetDataFrame", "onMetaData", 2),
     Named("SetDataFrame", "onCuePoint", 3), Named("ClearDataFrame", "onMetaData", 0),
     Named("Data", "onMetaData", 4), Named("Data", "", 4), Named("Data", "onCuePoint", 0),
     Agg(<<Named("Data", "onMetaData", 5), At("Audio", 1)>>)}
Frames == Menu(Publisher :> DataFrames)

\* Calls and pings, both ways, between a publisher and its server...
Publish == Menu((Publisher :> {Plain("call", 0), Plain("SharedObject", 0)})
             @@ (Ingest :> {Plain("call", 0), Plain("PingRequest", 1), Plain("StreamEof", 0)}))

\* ... and between a player and its server.
Play == Menu((Player :> {Plain("call", 0), Plain("pause", 0), Plain("PingRequest", 3),
                         Plain("SetBufferLength", 0), Plain("closeStream", 0)})
          @@ (Server :> {Plain("call", 0), Plain("StreamIsRecorded", 0), Plain("StreamEof", 0),
                         Agg(<<Plain("PingRequest", 2), Plain("StreamDry", 0)>>)}))

Scene(m, n) == [menu |-> m, budget |-> n]

MCTraffic == {Scene(Bundles, 2), Scene(Frames, 3), Scene(Publish, 2), Scene(Play, 2)}

ASSUME Traffic = MCTraffic => NestedLast /\ OnlyRelayed /\ BareIsMetadata

\* A bare cue point, which is no metadata.
BareCue ==
    {Scene(Menu(Publisher :> (DataFrames \cup {Named("Data", "onCuePoint", 6)})), 3)}

\* An aggregate between the messages of another one.
Nested == {Scene(Menu(Publisher :>
    {Agg(<<At("Audio", 1), Agg(<<At("Video", 1), At("Video", 2)>>), At("Audio", 3)>>),
     At("Audio", 3)}), 2)}
=============================================================================
