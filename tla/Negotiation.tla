---------------------------- MODULE Negotiation ----------------------------
(***************************************************************************)
(* Connection setup, from the TCP connect to the point where both sides    *)
(* hold a session: the client's connect (src/client.rs, src/player.rs),    *)
(* the server's drive_until_request and accept loops (src/server.rs), the  *)
(* handshake (src/handshake.rs), and the server application's verdict.     *)
(*                                                                         *)
(* A connection carries messages both ways in order; MessagePipe states    *)
(* that promise and ChunkStream implements it.  A message is its kind and  *)
(* the fields setup reads: the transaction id and the stream id.           *)
(***************************************************************************)
EXTENDS Naturals, Sequences

CONSTANTS
    Conn,          \* connections
    Options,       \* Options[c]: what the caller of connect c may ask for
    Apis,          \* the server entry points its application may use
    ForeignTails,  \* what servers other than this one may answer a request with
    PublishTries,  \* 20: messages wait_for_publish_start looks at
    PlayTries,     \* 50: messages wait_for_play_start looks at
    ForeignErrors, \* TRUE: such a server may refuse a setup command
    Hangs          \* TRUE: a client may stop without closing its socket

\* connect_with_type, RtmpPlayer::connect_with_options: the direction, whether the
\* digest handshake is tried, and PlayOptions' buffer length and reset flag.
Option == [role : {"publisher", "player"}, digest : BOOLEAN,
           buffer : BOOLEAN, reset : BOOLEAN]

\* RtmpServer's entry points: one thread that calls accept or accept_any again and
\* again, or one thread per connection.  accept and serve are for publishers only.
Api == {"accept", "accept_any", "serve", "serve_sessions"}

Msg(k) == [kind |-> k, tx |-> 0, sid |-> 0]
Tx(k, t) == [kind |-> k, tx |-> t, sid |-> 0]
OnStream(k, s) == [kind |-> k, tx |-> 0, sid |-> s]

\* A _result: the client takes its last number for a stream id, and in one that
\* carries no stream id that is the transaction id.
Result(t, s) == [kind |-> "_result", tx |-> t, sid |-> s]

\* The handshake's flights, the control messages, the commands, the statuses, and media.
Kinds ==
    {"C0C1", "C0C1 digest", "S0S1S2", "S0S1S2 digest", "C2",
     "SetChunkSize", "WindowAckSize", "SetPeerBandwidth", "StreamBegin", "StreamIsRecorded",
     "SetChunkSize anew", "WindowAckSize anew",
     "PingRequest", "PingResponse", "SetBufferLength",
     "connect", "releaseStream", "FCPublish", "createStream", "publish", "play", "play reset",
     "_result", "_error", "Publish.Start", "Publish.BadName",
     "Play.Reset", "Play.Start", "Play.StreamNotFound", "Audio"}

Message == [kind : Kinds, tx : Nat, sid : Nat]

\* What a server may change once more after it has answered connect: it sends another chunk
\* size, or another window (by either of the two messages that carry one).
Changeable == {"size", "window"}
Change(k) == CASE k = "SetChunkSize anew" -> {"size"}
               [] k = "WindowAckSize anew" -> {"window"}
               [] OTHER -> {}

\* The changes on their way among msgs.
UnderWay(msgs) == {x \in Changeable : \E i \in 1 .. Len(msgs) : x \in Change(msgs[i].kind)}

ASSUME SetupConstants ==
    /\ Options \in [Conn -> SUBSET Option]
    /\ Apis \subseteq Api
    /\ ForeignTails \subseteq Seq(Message)
    /\ PublishTries \in Nat \ {0} /\ PlayTries \in Nat \ {0}
    /\ ForeignErrors \in BOOLEAN /\ Hangs \in BOOLEAN

VARIABLES
    api,     \* the entry point the server application uses
    client,  \* one connect call per connection
    server,  \* one drive_until_request call, and the request it returns
    up,      \* messages from client to server, and whether the client has closed
    down     \* messages from server to client, and whether the server has closed

vars == <<api, client, server, up, down>>

\* The chunk size a reader has been told: of the peer, or the default.
Sizes == {"default", "announced"}

Larger(a, b) == IF a < b THEN b ELSE a

ClientState ==
    [opts : Option,
     at : {"idle", "handshake", "connect", "create", "start",  \* inside connect
           "live", "refused", "failed",                        \* what it returned
           "hung"},
     kind : {"simple", "digest"},  \* handshake_kind
     sid : Nat,                    \* stream_id
     tries : 0 .. Larger(PublishTries, PlayTries),  \* turns of the wait_for_*_start loop
     window : BOOLEAN,             \* an acknowledgement window is set
     size : Sizes,                 \* chunk size of the reader
     adopted : SUBSET Changeable,  \* the later changes the reader has taken in
     recorded : BOOLEAN]           \* is_recorded

ServerState ==
    [at : {"listening", "c0c1", "c2", "connect", "setup",  \* drive_until_request
           "request",                                      \* waits for a verdict
           "live", "gone"},
     kind : {"simple", "digest"},
     next : Nat,                   \* next_stream_id
     sid : Nat,                    \* PendingSession::stream_id
     role : {"none", "publisher", "player"},
     reset : BOOLEAN,
     buffer : BOOLEAN,             \* buffer_length_ms was set
     size : Sizes,
     recorded : BOOLEAN,
     changes : SUBSET Changeable,  \* history: what it changed with its verdict
     verdict : {"none", "accepted", "rejected"}]   \* history: what the application said

Pipe == [msgs : Seq(Message), closed : BOOLEAN]

Init ==
    /\ api \in Apis
    /\ \E opts \in [Conn -> Option] :
          /\ \A c \in Conn : opts[c] \in Options[c]
          /\ client = [c \in Conn |->
                [opts |-> opts[c], at |-> "idle", kind |-> "simple", sid |-> 0, tries |-> 0,
                 window |-> FALSE, size |-> "default", adopted |-> {},
                 recorded |-> FALSE]]
    /\ server = [c \in Conn |->
                   [at |-> "listening", kind |-> "simple", next |-> 1, sid |-> 0,
                    role |-> "none", reset |-> FALSE, buffer |-> FALSE,
                    size |-> "default", recorded |-> FALSE, changes |-> {},
                    verdict |-> "none"]]
    /\ up = [c \in Conn |-> [msgs |-> <<>>, closed |-> FALSE]]
    /\ down = [c \in Conn |-> [msgs |-> <<>>, closed |-> FALSE]]

-----------------------------------------------------------------------------
(* The socket.  A write to a peer that has closed is answered by a reset, and a
   close with unread input sends one: either may discard what the other side of
   the reset has not read yet. *)

Some(msgs) == {SubSeq(msgs, 1, n) : n \in 0 .. Len(msgs)}

\* The client reads the next message and writes `out`.
ClientReads(c, out) ==
    IF down[c].closed
    THEN /\ down' \in {[down EXCEPT ![c].msgs = m] :
                         m \in IF out = <<>> THEN {Tail(down[c].msgs)}
                               ELSE Some(Tail(down[c].msgs))}
         /\ UNCHANGED up
    ELSE /\ down' = [down EXCEPT ![c].msgs = Tail(@)]
         /\ up' = [up EXCEPT ![c].msgs = @ \o out]

ServerReads(c, out) ==
    IF up[c].closed
    THEN /\ up' \in {[up EXCEPT ![c].msgs = m] :
                       m \in IF out = <<>> THEN {Tail(up[c].msgs)}
                             ELSE Some(Tail(up[c].msgs))}
         /\ UNCHANGED down
    ELSE /\ up' = [up EXCEPT ![c].msgs = Tail(@)]
         /\ down' = [down EXCEPT ![c].msgs = @ \o out]

\* The client closes its socket: an Err was returned and the stream dropped.
ClientCloses(c) ==
    /\ up' \in {[up EXCEPT ![c] = [msgs |-> m, closed |-> TRUE]] :
                  m \in IF down[c].msgs = <<>> THEN {up[c].msgs} ELSE Some(up[c].msgs)}
    /\ down' = [down EXCEPT ![c].msgs = <<>>]

\* The server writes `out` and closes its socket.
ServerCloses(c, out) ==
    /\ down' \in {[down EXCEPT ![c] = [msgs |-> m, closed |-> TRUE]] :
                    m \in IF up[c].msgs = <<>> THEN {down[c].msgs \o out}
                          ELSE Some(down[c].msgs \o out)}
    /\ up' = [up EXCEPT ![c].msgs = <<>>]

-----------------------------------------------------------------------------
(* The client. *)

Inside == {"handshake", "connect", "create", "start"}

\* What the client reads next; its kind is "none" when nothing is there.
NextDown(c) == IF down[c].msgs = <<>> THEN Msg("none") ELSE Head(down[c].msgs)
NextUp(c) == IF up[c].msgs = <<>> THEN Msg("none") ELSE Head(up[c].msgs)

IsPlayer(c) == client[c].opts.role = "player"

\* The transaction ids of the publisher are 1 connect, 2 releaseStream, 3 FCPublish,
\* 4 createStream, 5 publish; of the player 1 connect, 2 createStream.
CreateTx(c) == IF IsPlayer(c) THEN 2 ELSE 4

\* TcpStream::connect succeeds as soon as the kernel queues the connection.
Dial(c) ==
    /\ client[c].at = "idle"
    /\ client' = [client EXCEPT ![c].at = "handshake"]
    /\ up' = [up EXCEPT ![c].msgs =
                <<Msg(IF client[c].opts.digest THEN "C0C1 digest" ELSE "C0C1")>>]
    /\ UNCHANGED <<api, server, down>>

\* The server's S0, S1 and S2 arrive; C2, SetChunkSize and connect go out.
ClientHandshake(c) ==
    /\ client[c].at = "handshake"
    /\ NextDown(c).kind \in {"S0S1S2", "S0S1S2 digest"}
    /\ client' = [client EXCEPT ![c].at = "connect",
                     ![c].kind = IF NextDown(c).kind = "S0S1S2 digest"
                                 THEN "digest" ELSE "simple"]
    /\ ClientReads(c, <<Msg("C2"), Msg("SetChunkSize"), Tx("connect", 1)>>)
    /\ UNCHANGED <<api, server>>

\* Fault: the control updates that are not commands are skipped.
FaultSizeSkipped(s, k) ==
    [s EXCEPT !.window = @ \/ k \in {"WindowAckSize", "SetPeerBandwidth"}]

\* The protocol control updates wait_for_result and wait_for_play_start apply.
Applied(s, k) ==
    [s EXCEPT !.size = IF k = "SetChunkSize" THEN "announced" ELSE @,
              !.window = @ \/ k \in {"WindowAckSize", "SetPeerBandwidth"},
              !.adopted = @ \cup Change(k)]

\* One turn of wait_for_result that does not end it.
ClientWaitsForResult(c) ==
    /\ client[c].at \in {"connect", "create"}
    /\ LET msg == NextDown(c) IN
       /\ msg.kind \notin {"none", "_error"}
       /\ msg.kind = "_result" =>
             msg.tx # (IF client[c].at = "connect" THEN 1 ELSE CreateTx(c))
       /\ client' = [client EXCEPT ![c] = Applied(@, msg.kind)]
    /\ ClientReads(c, <<>>)
    /\ UNCHANGED <<api, server>>

\* The connect _result arrives: createStream goes out, after releaseStream and
\* FCPublish when publishing.
ClientConnected(c) ==
    /\ client[c].at = "connect"
    /\ NextDown(c).kind = "_result" /\ NextDown(c).tx = 1
    /\ client' = [client EXCEPT ![c].at = "create"]
    /\ ClientReads(c, (IF IsPlayer(c) THEN <<>>
                       ELSE <<Tx("releaseStream", 2), Tx("FCPublish", 3)>>)
                      \o <<Tx("createStream", CreateTx(c))>>)
    /\ UNCHANGED <<api, server>>

\* Fault: play is sent before the buffer length.
FaultPlayFirst(c, sid) ==
    IF ~IsPlayer(c) THEN <<[kind |-> "publish", tx |-> 5, sid |-> sid]>>
    ELSE <<OnStream(IF client[c].opts.reset THEN "play reset" ELSE "play", sid)>>
         \o (IF client[c].opts.buffer THEN <<OnStream("SetBufferLength", sid)>> ELSE <<>>)

\* What the client writes once it has a stream id: publish, or SetBufferLength and play.
Announcement(c, sid) ==
    IF ~IsPlayer(c) THEN <<[kind |-> "publish", tx |-> 5, sid |-> sid]>>
    ELSE (IF client[c].opts.buffer THEN <<OnStream("SetBufferLength", sid)>> ELSE <<>>)
         \o <<OnStream(IF client[c].opts.reset THEN "play reset" ELSE "play", sid)>>

\* Fault: the first _result is taken for the answer to createStream.
FaultAnyResultCreates(c) ==
    /\ client[c].at = "create" /\ NextDown(c).kind = "_result"
    /\ LET sid == NextDown(c).sid IN
       /\ client' = [client EXCEPT ![c].at = "start", ![c].sid = sid]
       /\ ClientReads(c, Announcement(c, sid))
    /\ UNCHANGED <<api, server>>

\* The stream id arrives: publish goes out, or SetBufferLength and play.
ClientCreated(c) ==
    /\ client[c].at = "create"
    /\ NextDown(c).kind = "_result" /\ NextDown(c).tx = CreateTx(c)
    /\ LET sid == NextDown(c).sid IN
       /\ client' = [client EXCEPT ![c].at = "start", ![c].sid = sid]
       /\ ClientReads(c, Announcement(c, sid))
    /\ UNCHANGED <<api, server>>

UserControl == {"StreamBegin", "StreamIsRecorded", "PingRequest"}
Refusals == {"Publish.BadName", "Play.StreamNotFound"}   \* level "error"
OnStatus == {"Publish.Start", "Play.Reset", "Play.Start"} \cup Refusals

\* Fault: the loop has no bound.
FaultNoLimit(c) ==
    /\ client[c].at = "start" /\ ~IsPlayer(c)
    /\ NextDown(c).kind # "none"
    /\ client' =
         [client EXCEPT ![c].tries = @ + 1,
            ![c].at = IF NextDown(c).kind \in UserControl \cup OnStatus \cup {"_result"}
                      THEN "live" ELSE "start"]
    /\ ClientReads(c, <<>>)
    /\ UNCHANGED <<api, server>>

\* One turn of wait_for_publish_start: any UserControl, onStatus or _result ends
\* it, and so does the last turn.  A chunk size or a window is dropped.
ClientWaitsForPublishStart(c) ==
    /\ client[c].at = "start" /\ ~IsPlayer(c)
    /\ NextDown(c).kind # "none"
    /\ client' =
         [client EXCEPT ![c].tries = @ + 1,
            ![c].at = IF \/ NextDown(c).kind \in UserControl \cup OnStatus \cup {"_result"}
                         \/ client[c].tries + 1 = PublishTries
                      THEN "live" ELSE "start"]
    /\ ClientReads(c, <<>>)
    /\ UNCHANGED <<api, server>>

\* Fault: any onStatus ends the wait, as it does for a publisher.
FaultAnyStatusStarts(c) ==
    /\ client[c].at = "start" /\ IsPlayer(c)
    /\ NextDown(c).kind \notin {"none", "_error"}
    /\ client[c].tries + 1 < PlayTries \/ NextDown(c).kind \in OnStatus
    /\ client' =
         [client EXCEPT ![c] = [Applied(client[c], NextDown(c).kind) EXCEPT
            !.tries = @ + 1,
            !.recorded = @ \/ NextDown(c).kind = "StreamIsRecorded",
            !.at = IF NextDown(c).kind \in OnStatus THEN "live" ELSE @]]
    /\ ClientReads(c, <<>>)
    /\ UNCHANGED <<api, server>>

\* One turn of wait_for_play_start that does not fail: Play.Start ends it, a ping is
\* answered, everything else that is no refusal is applied or skipped.
ClientWaitsForPlayStart(c) ==
    /\ client[c].at = "start" /\ IsPlayer(c)
    /\ NextDown(c).kind \notin {"none", "_error"} \cup Refusals
    /\ client[c].tries + 1 < PlayTries \/ NextDown(c).kind = "Play.Start"
    /\ client' =
         [client EXCEPT ![c] = [Applied(client[c], NextDown(c).kind) EXCEPT
            !.tries = @ + 1,
            !.recorded = @ \/ NextDown(c).kind = "StreamIsRecorded",
            !.at = IF NextDown(c).kind = "Play.Start" THEN "live" ELSE @]]
    /\ ClientReads(c, IF NextDown(c).kind = "PingRequest" THEN <<Msg("PingResponse")>> ELSE <<>>)
    /\ UNCHANGED <<api, server>>

\* wait_for_play_start returns Err(Rejected): the player learns of the refusal.
ClientRefused(c) ==
    /\ client[c].at = "start" /\ IsPlayer(c)
    /\ NextDown(c).kind \in Refusals
    /\ client' = [client EXCEPT ![c].at = "refused"]
    /\ ClientCloses(c)
    /\ UNCHANGED <<api, server>>

\* connect returns another Err: _error, the last turn of wait_for_play_start, or
\* the end of the stream.
ClientErrs(c) ==
    /\ client[c].at \in Inside
    /\ \/ NextDown(c).kind = "none" /\ down[c].closed
       \/ /\ NextDown(c).kind = "_error"
          /\ client[c].at \in {"connect", "create"} \/ (client[c].at = "start" /\ IsPlayer(c))
       \/ /\ client[c].at = "start" /\ IsPlayer(c)
          /\ client[c].tries + 1 = PlayTries
          /\ NextDown(c).kind \notin {"none", "Play.Start"} \cup Refusals
    /\ client' = [client EXCEPT ![c].at = "failed"]
    /\ ClientCloses(c)
    /\ UNCHANGED <<api, server>>

\* A read or write fails locally, or the process dies.
ClientDies(c) ==
    /\ client[c].at \in Inside
    /\ client' = [client EXCEPT ![c].at = "failed"]
    /\ up' \in {[up EXCEPT ![c] = [msgs |-> m, closed |-> TRUE]] : m \in Some(up[c].msgs)}
    /\ down' = [down EXCEPT ![c].msgs = <<>>]
    /\ UNCHANGED <<api, server>>

\* A client that stops without a word: nothing in setup bounds the wait for it.  With
\* the entry points that serve one connection at a time it keeps everybody else out.
ClientHangs(c) ==
    /\ Hangs /\ client[c].at \in Inside
    /\ client' = [client EXCEPT ![c].at = "hung"]
    /\ UNCHANGED <<api, server, up, down>>

\* A client that sends a command before connect, and stops.
ForeignClient(c) ==
    /\ Hangs /\ client[c].at = "handshake"
    /\ NextDown(c).kind = "S0S1S2"
    /\ client' = [client EXCEPT ![c].at = "hung"]
    /\ ClientReads(c, <<Msg("C2"), Tx("createStream", 1)>>)
    /\ UNCHANGED <<api, server>>

-----------------------------------------------------------------------------
(* The server. *)

\* A server that accepts does not refuse, and says that a stream is recorded before it
\* says that it starts.
ASSUME ForeignServers ==
    \A tail \in ForeignTails : \A i \in DOMAIN tail :
        /\ tail[i].kind \notin Refusals
        /\ tail[i].kind = "StreamIsRecorded" => \A j \in 1 .. i - 1 : tail[j].kind # "Play.Start"

OneThread == api \in {"accept", "accept_any"}
PublishOnly == api \in {"accept", "serve"}

\* Fault: the session a one-thread server hands out is pumped before the next accept.
FaultPumpsInLoop ==
    \E c \in Conn : server[c].at \in {"c0c1", "c2", "connect", "setup", "request", "live"}

\* Between the TCP accept and the verdict, a one-thread server looks at nothing else.
Busy == \E c \in Conn : server[c].at \in {"c0c1", "c2", "connect", "setup", "request"}

\* The listener returns a connection the kernel has queued.
Accept(c) ==
    /\ server[c].at = "listening" /\ client[c].at # "idle"
    /\ ~(OneThread /\ Busy)
    /\ server' = [server EXCEPT ![c].at = "c0c1"]
    /\ UNCHANGED <<api, client, up, down>>

\* C0 and C1 arrive; the answer is of the client's kind.
ServerHandshake(c) ==
    /\ server[c].at = "c0c1"
    /\ NextUp(c).kind \in {"C0C1", "C0C1 digest"}
    /\ LET digest == NextUp(c).kind = "C0C1 digest" IN
       /\ server' = [server EXCEPT ![c].at = "c2",
                        ![c].kind = IF digest THEN "digest" ELSE "simple"]
       /\ ServerReads(c, <<Msg(IF digest THEN "S0S1S2 digest" ELSE "S0S1S2")>>)
    /\ UNCHANGED <<api, client>>

ServerHandshakeDone(c) ==
    /\ server[c].at = "c2" /\ NextUp(c).kind = "C2"
    /\ server' = [server EXCEPT ![c].at = "connect"]
    /\ ServerReads(c, <<>>)
    /\ UNCHANGED <<api, client>>

\* The protocol control messages either loop of drive_until_request applies; other
\* messages that are no commands are skipped.
ServerApplies(c) ==
    /\ server[c].at \in {"connect", "setup"}
    /\ NextUp(c).kind \in {"SetChunkSize", "SetBufferLength"}
    /\ server' =
         [server EXCEPT
            ![c].size = IF NextUp(c).kind = "SetChunkSize" THEN "announced" ELSE @,
            ![c].buffer = @ \/ (NextUp(c).kind = "SetBufferLength" /\ server[c].at = "setup")]
    /\ ServerReads(c, <<>>)
    /\ UNCHANGED <<api, client>>

\* What answers a connect command.
ConnectReply(t) ==
    <<Msg("WindowAckSize"), Msg("SetPeerBandwidth"), OnStream("StreamBegin", 0),
      Result(t, t), Msg("SetChunkSize")>>

ServerConnect(c) ==
    /\ server[c].at = "connect" /\ NextUp(c).kind = "connect"
    /\ server' = [server EXCEPT ![c].at = "setup"]
    /\ ServerReads(c, ConnectReply(NextUp(c).tx))
    /\ UNCHANGED <<api, client>>

\* releaseStream and FCPublish are answered, createStream allocates a stream id.
ServerCommand(c) ==
    /\ server[c].at = "setup"
    /\ LET msg == NextUp(c) IN
       \/ /\ msg.kind \in {"releaseStream", "FCPublish"}
          /\ ServerReads(c, <<Result(msg.tx, msg.tx)>>)
          /\ UNCHANGED server
       \/ /\ msg.kind = "createStream"
          /\ ServerReads(c, <<Result(msg.tx, server[c].next)>>)
          /\ server' = [server EXCEPT ![c].next = @ + 1]
    /\ UNCHANGED <<api, client>>

\* A server that is not this one answers releaseStream, FCPublish or createStream
\* with an _error.
ForeignRefusesCommand(c) ==
    /\ ForeignErrors /\ server[c].at = "setup"
    /\ NextUp(c).kind \in {"releaseStream", "FCPublish", "createStream"}
    /\ ServerReads(c, <<Tx("_error", NextUp(c).tx)>>)
    /\ UNCHANGED <<api, client, server>>

\* publish or play: drive_until_request returns the request.
ServerRequest(c) ==
    /\ server[c].at = "setup"
    /\ NextUp(c).kind \in {"publish", "play", "play reset"}
    /\ server' =
         [server EXCEPT ![c].at = "request",
            ![c].role = IF NextUp(c).kind = "publish" THEN "publisher" ELSE "player",
            ![c].reset = NextUp(c).kind = "play reset",
            ![c].sid = IF NextUp(c).sid = 0 THEN 1 ELSE NextUp(c).sid]
    /\ ServerReads(c, <<>>)
    /\ UNCHANGED <<api, client>>

\* What accept and accept_recorded write.
AcceptTail(s, recorded) ==
    IF s.role = "publisher"
    THEN <<OnStream("StreamBegin", s.sid), OnStream("Publish.Start", s.sid)>>
    ELSE (IF recorded THEN <<OnStream("StreamIsRecorded", s.sid)>> ELSE <<>>)
         \o <<OnStream("StreamBegin", s.sid)>>
         \o (IF s.reset THEN <<OnStream("Play.Reset", s.sid)>> ELSE <<>>)
         \o <<OnStream("Play.Start", s.sid)>>

ServerWrites(c, out) ==
    IF up[c].closed THEN UNCHANGED <<up, down>>
    ELSE down' = [down EXCEPT ![c].msgs = @ \o out] /\ UNCHANGED up

\* PublishRequest::accept, PlayRequest::accept, PlayRequest::accept_recorded.
AppAccepts(c, recorded) ==
    /\ server[c].at = "request"
    /\ ~(PublishOnly /\ server[c].role = "player")
    /\ recorded => server[c].role = "player"
    /\ server' = [server EXCEPT ![c].at = "live", ![c].verdict = "accepted",
                                ![c].recorded = recorded]
    /\ ServerWrites(c, AcceptTail(server[c], recorded))
    /\ UNCHANGED <<api, client>>

\* A server that is not this one accepts: it need not send the same messages, and may
\* change its chunk size and its window among them.
ForeignAccepts(c, tail) ==
    /\ server[c].at = "request"
    /\ server' =
         [server EXCEPT ![c].at = "live", ![c].verdict = "accepted",
            ![c].recorded = /\ server[c].role = "player"
                            /\ \E i \in DOMAIN tail : tail[i].kind = "StreamIsRecorded",
            ![c].changes = UnderWay(tail)]
    /\ ServerWrites(c, tail)
    /\ UNCHANGED <<api, client>>

\* PublishRequest::reject and PlayRequest::reject; the latter is also what accept
\* and serve do with every play request.
AppRejects(c) ==
    /\ server[c].at = "request"
    /\ server' = [server EXCEPT ![c].at = "gone", ![c].verdict = "rejected"]
    /\ ServerCloses(c, <<OnStream(IF server[c].role = "publisher" THEN "Publish.BadName"
                                  ELSE "Play.StreamNotFound", server[c].sid)>>)
    /\ UNCHANGED <<api, client>>

\* Fault: the end of the stream is noticed by the command loops only.
FaultHandshakeIgnoresEof(c) ==
    /\ server[c].at \in {"connect", "setup"}
    /\ \/ NextUp(c).kind = "none" /\ up[c].closed
       \/ server[c].at = "connect"
             /\ NextUp(c).kind \notin {"none", "connect", "SetChunkSize", "SetBufferLength"}
    /\ server' = [server EXCEPT ![c].at = "gone"]
    /\ ServerCloses(c, <<>>)
    /\ UNCHANGED <<api, client>>

\* drive_until_request returns an Err and drops the stream: the client is gone, or
\* the first command is not connect.
ServerErrs(c) ==
    /\ server[c].at \in {"c0c1", "c2", "connect", "setup"}
    /\ \/ NextUp(c).kind = "none" /\ up[c].closed
       \/ server[c].at = "connect"
             /\ NextUp(c).kind \notin {"none", "connect", "SetChunkSize", "SetBufferLength"}
    /\ server' = [server EXCEPT ![c].at = "gone"]
    /\ ServerCloses(c, <<>>)
    /\ UNCHANGED <<api, client>>

\* A read or write fails, the session's thread panics, or the application drops
\* the request without a verdict.
ServerDies(c) ==
    /\ server[c].at \in {"c0c1", "c2", "connect", "setup", "request"}
    /\ server' = [server EXCEPT ![c].at = "gone"]
    /\ down' \in {[down EXCEPT ![c] = [msgs |-> m, closed |-> TRUE]] : m \in Some(down[c].msgs)}
    /\ up' = [up EXCEPT ![c].msgs = <<>>]
    /\ UNCHANGED <<api, client>>

-----------------------------------------------------------------------------
ClientStep(c) ==
    \/ ClientHandshake(c)
    \/ ClientWaitsForResult(c)
    \/ ClientConnected(c)
    \/ ClientCreated(c)
    \/ ClientWaitsForPublishStart(c)
    \/ ClientWaitsForPlayStart(c)
    \/ ClientRefused(c)
    \/ ClientErrs(c)

ServerStep(c) ==
    \/ Accept(c)
    \/ ServerHandshake(c)
    \/ ServerHandshakeDone(c)
    \/ ServerApplies(c)
    \/ ServerConnect(c)
    \/ ServerCommand(c)
    \/ ForeignRefusesCommand(c)
    \/ ServerRequest(c)
    \/ ServerErrs(c)

Verdict(c) ==
    \/ \E recorded \in BOOLEAN : AppAccepts(c, recorded)
    \/ \E tail \in ForeignTails : ForeignAccepts(c, tail)
    \/ AppRejects(c)

Next ==
    \E c \in Conn :
        \/ Dial(c) \/ ClientStep(c) \/ ClientDies(c) \/ ClientHangs(c) \/ ForeignClient(c)
        \/ ServerStep(c) \/ Verdict(c) \/ ServerDies(c)

Spec == Init /\ [][Next]_vars

\* A thread that can take its next step takes it, and the application answers every
\* request it is given.  Nobody is forced to dial, to fail or to hang.
FairSpec ==
    /\ Spec
    /\ \A c \in Conn :
          /\ WF_vars(ClientStep(c))
          /\ WF_vars(ServerStep(c))
          /\ WF_vars(Verdict(c))

-----------------------------------------------------------------------------
(* Properties. *)

TypeOK ==
    /\ api \in Apis
    /\ client \in [Conn -> ClientState]
    /\ server \in [Conn -> ServerState]
    /\ up \in [Conn -> Pipe] /\ down \in [Conn -> Pipe]

\* A client inside wait_for_publish_start or live never uses a stream id that this
\* connection's server did not allocate: the _result it took the id from answers its
\* own createStream, although every earlier _result looks alike.
StreamIdAllocated ==
    \A c \in Conn :
        client[c].at \in {"start", "live", "refused"} =>
            client[c].sid \in 1 .. server[c].next - 1

\* Two live ends of a connection hold the same session: direction, stream id,
\* handshake flavour, the player's buffer length and recorded flag.
EndsAgree ==
    \A c \in Conn :
        /\ server[c].at \in {"request", "live"} =>
              /\ server[c].role = client[c].opts.role
              /\ server[c].sid = client[c].sid
              /\ server[c].kind = client[c].kind
              /\ IsPlayer(c) => server[c].buffer = client[c].opts.buffer
        /\ client[c].at = "live" => client[c].recorded = server[c].recorded

\* When connect returns Ok, what the server announced in answer to connect is in force, and
\* so is the client's chunk size at the server: the first media message finds the
\* acknowledgement window set and the peer's chunk size known.  At a player, so is what the
\* server changed with its verdict, unless it is still on its way; a publisher's wait drops
\* that.
ReadyForMedia ==
    \A c \in Conn :
        /\ client[c].at = "live" =>
              /\ client[c].window /\ client[c].size = "announced"
              /\ IsPlayer(c) => server[c].changes \subseteq
                                  client[c].adopted \cup UnderWay(down[c].msgs)
        /\ server[c].at \in {"request", "live"} => server[c].size = "announced"

\* The contract of connection setup, with the errors connect returns lumped together.
Contract == INSTANCE Handover WITH
    role    <- [c \in Conn |-> client[c].opts.role],
    verdict <- [c \in Conn |-> server[c].verdict],
    outcome <- [c \in Conn |->
                  IF client[c].at \in {"live", "refused", "failed"} THEN client[c].at
                  ELSE "pending"]
HandoverSpec == Contract!Spec

\* A client that hangs while a server with one thread drives its connection.
Blocks(c) ==
    /\ OneThread /\ client[c].at = "hung"
    /\ server[c].at \in {"c0c1", "c2", "connect", "setup"}

\* connect returns: nobody waits for ever, neither for a server that fails nor behind
\* another client, unless that one hangs in front of the only thread.
ConnectReturns ==
    \A c \in Conn :
        client[c].at \in Inside ~>
            \/ client[c].at \in {"live", "refused", "failed", "hung"}
            \/ \E d \in Conn \ {c} : Blocks(d)

\* The accept loop gets through every connection that does not hang.
ServerSettles ==
    \A c \in Conn :
        server[c].at = "c0c1" ~> server[c].at \in {"live", "gone"} \/ client[c].at = "hung"
=============================================================================
