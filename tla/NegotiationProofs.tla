------------------------- MODULE NegotiationProofs -------------------------
(***************************************************************************)
(* Proofs about Negotiation for every set of connections, options, entry   *)
(* points, foreign servers and loop bounds: a stream id in use is one the  *)
(* server allocated, both ends agree on the session, the first media       *)
(* message finds windows and chunk sizes applied, and setup implements the *)
(* contract of Handover.                                                   *)
(*                                                                         *)
(* The inductive invariant speaks about one connection at a time: the      *)
(* client's state cl, the server's state sv, and the pipes u and d between *)
(* them.  Each step of the system changes one connection only.             *)
(***************************************************************************)
EXTENDS Negotiation, TLAPS, SequenceTheorems

\* The client has no stream id yet.
Early == {"idle", "handshake", "connect", "create"}

\* The server has answered connect, or has left.
Answering == {"setup", "request", "live"}
Offered == Answering \cup {"gone"}

Requests == {"publish", "play", "play reset"}

\* What can be on its way to the server: before the connect _result has arrived, before
\* the stream id has, and after.
BeforeConnected == {"C0C1", "C0C1 digest", "C2", "SetChunkSize", "connect"}
BeforeCreated == BeforeConnected \cup {"releaseStream", "FCPublish", "createStream"}
AfterCreated == Requests \cup {"SetBufferLength", "PingResponse"}

WindowKinds == {"WindowAckSize", "SetPeerBandwidth"}

Plays(cl) == cl.opts.role = "player"
Creates(cl) == IF Plays(cl) THEN 2 ELSE 4
Turns(cl) == IF Plays(cl) THEN PlayTries ELSE PublishTries

\* A message of one of the kinds K comes before position i of ms.
Led(ms, i, K) == \E j \in 1 .. i - 1 : ms[j].kind \in K

\* The window and the chunk size are applied, or they arrive before position i of ms.
MediaReady(cl, ms, i) ==
    /\ cl.window \/ Led(ms, i, WindowKinds)
    /\ cl.size = "announced" \/ Led(ms, i, {"SetChunkSize"})

\* What the client knows.
ClientGood(cl, sv) ==
    /\ cl.at \in Early => cl.tries = 0 /\ ~cl.recorded
    /\ cl.at = "start" => cl.tries < Turns(cl)
    /\ cl.recorded => Plays(cl)
    /\ cl.at \in {"connect", "create", "start", "live", "refused"} =>
          cl.kind = sv.kind /\ sv.at \notin {"listening", "c0c1"}
    /\ cl.at \in {"create", "start", "live"} => sv.at \in Offered
    /\ cl.at \in {"start", "live", "refused"} => cl.sid \in 1 .. sv.next - 1
    /\ cl.at \in {"start", "live"} => cl.window /\ cl.size = "announced"
    /\ cl.at = "live" => cl.recorded = sv.recorded /\ sv.verdict # "none"

\* The server's request is the one the client made.
Agreed(cl, sv) ==
    /\ cl.at \notin Early
    /\ sv.role = cl.opts.role /\ sv.sid = cl.sid /\ sv.kind = cl.kind
    /\ Plays(cl) => sv.buffer = cl.opts.buffer

\* What the server knows.
ServerGood(cl, sv) ==
    /\ sv.next >= 1
    /\ cl.at = "idle" => sv.at = "listening"
    /\ sv.at \in Answering => sv.size = "announced"
    /\ sv.buffer => Plays(cl) /\ cl.opts.buffer
    /\ sv.at \in {"request", "live"} => Agreed(cl, sv)
    /\ (sv.verdict = "accepted") = (sv.at = "live")
    /\ sv.verdict = "rejected" => sv.at = "gone"
    /\ sv.verdict # "none" => cl.at \notin Early
    /\ sv.recorded => sv.at = "live" /\ sv.role = "player"

\* The sockets, and what cannot be on its way.
PipesGood(cl, sv, u, d) ==
    /\ d.closed = (sv.at = "gone")
    /\ sv.at = "gone" => u.msgs = <<>>
    /\ cl.at \in {"idle"} \cup Inside => ~u.closed
    /\ sv.at = "listening" => d.msgs = <<>>
    /\ sv.at = "setup" /\ cl.at \in Early => MediaReady(cl, d.msgs, Len(d.msgs) + 1)
    /\ cl.at = "start" /\ sv.verdict = "none" => d.msgs = <<>> /\ ~cl.recorded

\* A message on its way to the server.
UpFact(cl, sv, m) ==
    /\ cl.at \in {"idle", "handshake", "connect"} => m.kind \in BeforeConnected
    /\ cl.at = "create" => m.kind \in BeforeCreated
    /\ cl.at = "start" => m.kind \in AfterCreated
    /\ m.kind = "connect" => m.tx = 1
    /\ m.kind \in {"releaseStream", "FCPublish"} => m.tx # Creates(cl)
    /\ m.kind = "SetBufferLength" => sv.at \in Answering /\ Plays(cl) /\ cl.opts.buffer
    /\ m.kind \in Requests =>
          /\ sv.at \in Answering /\ cl.at \notin Early
          /\ Plays(cl) = (m.kind # "publish")
          /\ m.sid = cl.sid /\ cl.sid >= 1 /\ cl.kind = sv.kind

\* ... and what comes before and after it.
UpOrder(cl, sv, ms, i) ==
    /\ cl.at \in Early /\ ms[i].kind = "createStream" => i = Len(ms)
    /\ ms[i].kind = "connect" => sv.size = "announced" \/ Led(ms, i, {"SetChunkSize"})
    /\ ms[i].kind \in Requests /\ Plays(cl) /\ cl.opts.buffer =>
          sv.buffer \/ Led(ms, i, {"SetBufferLength"})

\* A message on its way to the client.
DownFact(sv, m) ==
    /\ m.kind \in {"S0S1S2", "S0S1S2 digest"} /\ sv.verdict = "none" =>
          /\ sv.at \notin {"listening", "c0c1"}
          /\ sv.kind = IF m.kind = "S0S1S2" THEN "simple" ELSE "digest"
    /\ m.kind = "_result" => sv.at \in Offered
    /\ m.kind \in Refusals => sv.verdict = "rejected"
    /\ m.kind = "Play.Start" => sv.verdict = "accepted"

\* ... and what comes before and after it, when `ups` is on its way to the server.
DownOrder(cl, sv, ups, ms, i) ==
    /\ ms[i].kind = "_result" /\ ms[i].tx = Creates(cl) /\ cl.at \in Early =>
          /\ cl.at = "create" /\ ms[i].sid \in 1 .. sv.next - 1
          /\ i = Len(ms) /\ ups = <<>>
          /\ MediaReady(cl, ms, i)
    /\ ms[i].kind = "Play.Start" /\ cl.at = "start" /\ Plays(cl) =>
          sv.recorded = (cl.recorded \/ Led(ms, i, {"StreamIsRecorded"}))

UpGood(cl, sv, ms) ==
    \A i \in 1 .. Len(ms) : UpFact(cl, sv, ms[i]) /\ UpOrder(cl, sv, ms, i)

DownGood(cl, sv, ups, ms) ==
    \A i \in 1 .. Len(ms) : DownFact(sv, ms[i]) /\ DownOrder(cl, sv, ups, ms, i)

Good(cl, sv, u, d) ==
    /\ ClientGood(cl, sv)
    /\ ServerGood(cl, sv)
    /\ PipesGood(cl, sv, u, d)
    /\ UpGood(cl, sv, u.msgs)
    /\ DownGood(cl, sv, u.msgs, d.msgs)

IInv == TypeOK /\ \A c \in Conn : Good(client[c], server[c], up[c], down[c])

-----------------------------------------------------------------------------
(* One read of a socket. *)

\* What is left of ms once its first message is read, and perhaps some at the end lost.
Taken(ms, ms2) ==
    /\ Len(ms2) < Len(ms)
    /\ \A i \in 1 .. Len(ms2) : ms2[i] = ms[i + 1]

\* A message is read from p and `out` is written to q, unless the other side has closed.
Reads(p, q, p2, q2, out) ==
    /\ Taken(p.msgs, p2.msgs)
    /\ ~p.closed => Len(p2.msgs) = Len(p.msgs) - 1
    /\ p2.closed = p.closed /\ q2.closed = q.closed
    /\ q2.msgs = IF p.closed THEN q.msgs ELSE q.msgs \o out

\* What came before a message, once the first one is read.
LEMMA LedAfterRead ==
    ASSUME NEW ms \in Seq(Message), NEW ms2 \in Seq(Message), Taken(ms, ms2), NEW K,
           NEW i \in 1 .. Len(ms2) + 1
    PROVE  Led(ms, i + 1, K) = (ms[1].kind \in K \/ Led(ms2, i, K))
<1>1. Len(ms2) \in Nat /\ \A j \in 1 .. Len(ms2) : ms2[j] = ms[j + 1]
  BY DEF Taken
<1>2. ASSUME Led(ms, i + 1, K), ms[1].kind \notin K PROVE Led(ms2, i, K)
  <2>1. PICK j \in 1 .. i : ms[j].kind \in K
    BY <1>2, <1>1 DEF Led
  <2>2. j - 1 \in 1 .. i - 1 /\ ms2[j - 1] = ms[j]
    BY <1>1, <1>2, <2>1
  <2> QED BY <2>1, <2>2 DEF Led
<1>3. ASSUME Led(ms2, i, K) PROVE Led(ms, i + 1, K)
  <2>1. PICK j \in 1 .. i - 1 : ms2[j].kind \in K
    BY <1>3 DEF Led
  <2>2. j + 1 \in 1 .. (i + 1) - 1 /\ ms[j + 1] = ms2[j]
    BY <1>1, <2>1
  <2> QED BY <2>1, <2>2 DEF Led
<1>4. ASSUME ms[1].kind \in K PROVE Led(ms, i + 1, K)
  BY <1>1, <1>4 DEF Led
<1> QED BY <1>2, <1>3, <1>4 DEF Led

\* Writing changes nothing before what was there.
LEMMA LedAfterWrite ==
    ASSUME NEW ms \in Seq(Message), NEW out \in Seq(Message), NEW K,
           NEW i \in 1 .. Len(ms) + 1
    PROVE  Led(ms \o out, i, K) = Led(ms, i, K)
<1>1. \A j \in 1 .. i - 1 : (ms \o out)[j] = ms[j]
  OBVIOUS
<1> QED BY <1>1 DEF Led

\* The messages of ms \o out.
LEMMA Concatenated ==
    ASSUME NEW ms \in Seq(Message), NEW out \in Seq(Message)
    PROVE  /\ ms \o out \in Seq(Message) /\ Len(ms \o out) = Len(ms) + Len(out)
           /\ \A i \in 1 .. Len(ms) : (ms \o out)[i] = ms[i]
           /\ \A i \in 1 .. Len(out) : (ms \o out)[Len(ms) + i] = out[i]
           /\ \A i \in 1 .. Len(ms \o out) :
                 \/ i \in 1 .. Len(ms)
                 \/ i - Len(ms) \in 1 .. Len(out) /\ (ms \o out)[i] = out[i - Len(ms)]
<1>1. \A i \in 1 .. Len(ms \o out) : ~(i <= Len(ms)) => (ms \o out)[i] = out[i - Len(ms)]
  OBVIOUS
<1>2. Len(ms \o out) = Len(ms) + Len(out) /\ Len(ms) \in Nat /\ Len(out) \in Nat
  OBVIOUS
<1>3. \A i \in 1 .. Len(ms \o out) :
          i \in 1 .. Len(ms) \/ i - Len(ms) \in 1 .. Len(out)
  BY <1>2
<1> QED BY <1>1, <1>2, <1>3

\* What was before a message when it was written is before it still.
LEMMA LedByWrite ==
    ASSUME NEW ms \in Seq(Message), NEW out \in Seq(Message), NEW K,
           NEW k \in 1 .. Len(out), Led(out, k, K)
    PROVE  Led(ms \o out, Len(ms) + k, K)
<1>1. PICK j \in 1 .. k - 1 : out[j].kind \in K
  BY DEF Led
<1>2. Len(ms) + j \in 1 .. (Len(ms) + k) - 1 /\ (ms \o out)[Len(ms) + j] = out[j]
  BY Concatenated
<1> QED BY <1>1, <1>2 DEF Led

\* The positions of three messages, and what the last of them follows.
LEMMA ThreeMessages ==
    ASSUME NEW out \in Seq(Message), Len(out) = 3
    PROVE  /\ \A i \in 1 .. Len(out) : i = 1 \/ i = 2 \/ i = 3
           /\ 1 \in 1 .. Len(out) /\ 2 \in 1 .. Len(out) /\ 3 \in 1 .. Len(out)
           /\ \A K : out[2].kind \in K => Led(out, 3, K)
<1>1. 2 \in 1 .. 3 - 1
  OBVIOUS
<1> QED BY <1>1 DEF Led

\* The positions of two messages, and what the last of them follows.
LEMMA TwoMessages ==
    ASSUME NEW out \in Seq(Message), Len(out) = 2
    PROVE  /\ \A i \in 1 .. Len(out) : i = 1 \/ i = 2
           /\ 1 \in 1 .. Len(out) /\ 2 \in 1 .. Len(out)
           /\ \A K : out[1].kind \in K => Led(out, 2, K)
<1>1. 1 \in 1 .. 2 - 1
  OBVIOUS
<1> QED BY <1>1 DEF Led

\* The start of a sequence of messages.
LEMMA SomeOf ==
    ASSUME NEW ms \in Seq(Message), NEW m \in Some(ms)
    PROVE  /\ m \in Seq(Message) /\ Len(m) <= Len(ms)
           /\ \A i \in 1 .. Len(m) : m[i] = ms[i]
<1>1. PICK n \in 0 .. Len(ms) : m = SubSeq(ms, 1, n)
  BY DEF Some
<1> QED BY <1>1

\* ClientReads and ServerReads are such reads.
LEMMA ReadIsRead ==
    ASSUME NEW p \in Pipe, NEW q \in Pipe, NEW out \in Seq(Message), p.msgs # <<>>,
           NEW m \in IF out = <<>> THEN {Tail(p.msgs)} ELSE Some(Tail(p.msgs))
    PROVE  /\ [p EXCEPT !.msgs = Tail(@)] \in Pipe /\ [p EXCEPT !.msgs = m] \in Pipe
           /\ [q EXCEPT !.msgs = @ \o out] \in Pipe
           /\ ~p.closed => Reads(p, q, [p EXCEPT !.msgs = Tail(@)], [q EXCEPT !.msgs = @ \o out], out)
           /\ p.closed => Reads(p, q, [p EXCEPT !.msgs = m], q, out)
<1>1. p.msgs \in Seq(Message) /\ q.msgs \in Seq(Message)
  BY DEF Pipe
<1>2. /\ Tail(p.msgs) \in Seq(Message) /\ Len(Tail(p.msgs)) = Len(p.msgs) - 1
      /\ \A i \in 1 .. Len(p.msgs) - 1 : Tail(p.msgs)[i] = p.msgs[i + 1]
      /\ Len(p.msgs) \in Nat \ {0}
  BY <1>1
<1>3. /\ m \in Seq(Message) /\ Len(m) <= Len(Tail(p.msgs))
      /\ \A i \in 1 .. Len(m) : m[i] = Tail(p.msgs)[i]
  <2>1. CASE m = Tail(p.msgs)
    BY <1>2, <2>1
  <2>2. CASE m \in Some(Tail(p.msgs))
    BY <1>2, <2>2, SomeOf
  <2> QED BY <2>1, <2>2
<1>4. Taken(p.msgs, Tail(p.msgs))
  BY <1>2 DEF Taken
<1>5. Taken(p.msgs, m)
  <2>1. Len(m) \in Nat
    BY <1>3
  <2>2. \A i \in 1 .. Len(m) : m[i] = p.msgs[i + 1]
    BY <1>2, <1>3, <2>1
  <2> QED BY <1>2, <1>3, <2>1, <2>2 DEF Taken
<1>6. q.msgs \o out \in Seq(Message)
  BY <1>1
<1> QED BY <1>1, <1>2, <1>3, <1>4, <1>5, <1>6 DEF Reads, Pipe

\* The client's read.
LEMMA ClientReadsOne ==
    ASSUME TypeOK, NEW c \in Conn, NEW out \in Seq(Message), down[c].msgs # <<>>,
           ClientReads(c, out)
    PROVE  \E u2, d2 \in Pipe :
              /\ up' = [up EXCEPT ![c] = u2] /\ down' = [down EXCEPT ![c] = d2]
              /\ Reads(down[c], up[c], d2, u2, out)
<1>1. up[c] \in Pipe /\ down[c] \in Pipe /\ up \in [Conn -> Pipe] /\ down \in [Conn -> Pipe]
  BY DEF TypeOK
<1>2. CASE down[c].closed
  <2>1. PICK m \in IF out = <<>> THEN {Tail(down[c].msgs)} ELSE Some(Tail(down[c].msgs)) :
            down' = [down EXCEPT ![c].msgs = m] /\ up' = up
    BY <1>2 DEF ClientReads
  <2>2. down' = [down EXCEPT ![c] = [down[c] EXCEPT !.msgs = m]] /\ up' = [up EXCEPT ![c] = up[c]]
    BY <1>1, <2>1
  <2> QED BY <1>1, <1>2, <2>2, ReadIsRead
<1>3. CASE ~down[c].closed
  <2>1. /\ down' = [down EXCEPT ![c] = [down[c] EXCEPT !.msgs = Tail(@)]]
        /\ up' = [up EXCEPT ![c] = [up[c] EXCEPT !.msgs = @ \o out]]
    BY <1>1, <1>3 DEF ClientReads
  <2>2. \E m : m \in IF out = <<>> THEN {Tail(down[c].msgs)} ELSE Some(Tail(down[c].msgs))
    <3>1. Tail(down[c].msgs) \in Seq(Message) /\ Len(Tail(down[c].msgs)) \in Nat
      BY <1>1 DEF Pipe
    <3>2. SubSeq(Tail(down[c].msgs), 1, 0) \in Some(Tail(down[c].msgs))
      BY <3>1 DEF Some
    <3> QED BY <3>2
  <2> QED BY <1>1, <1>3, <2>1, <2>2, ReadIsRead
<1> QED BY <1>2, <1>3

\* The server's read.
LEMMA ServerReadsOne ==
    ASSUME TypeOK, NEW c \in Conn, NEW out \in Seq(Message), up[c].msgs # <<>>,
           ServerReads(c, out)
    PROVE  \E u2, d2 \in Pipe :
              /\ up' = [up EXCEPT ![c] = u2] /\ down' = [down EXCEPT ![c] = d2]
              /\ Reads(up[c], down[c], u2, d2, out)
<1>1. up[c] \in Pipe /\ down[c] \in Pipe /\ up \in [Conn -> Pipe] /\ down \in [Conn -> Pipe]
  BY DEF TypeOK
<1>2. CASE up[c].closed
  <2>1. PICK m \in IF out = <<>> THEN {Tail(up[c].msgs)} ELSE Some(Tail(up[c].msgs)) :
            up' = [up EXCEPT ![c].msgs = m] /\ down' = down
    BY <1>2 DEF ServerReads
  <2>2. up' = [up EXCEPT ![c] = [up[c] EXCEPT !.msgs = m]] /\ down' = [down EXCEPT ![c] = down[c]]
    BY <1>1, <2>1
  <2> QED BY <1>1, <1>2, <2>2, ReadIsRead
<1>3. CASE ~up[c].closed
  <2>1. /\ up' = [up EXCEPT ![c] = [up[c] EXCEPT !.msgs = Tail(@)]]
        /\ down' = [down EXCEPT ![c] = [down[c] EXCEPT !.msgs = @ \o out]]
    BY <1>1, <1>3 DEF ServerReads
  <2>2. \E m : m \in IF out = <<>> THEN {Tail(up[c].msgs)} ELSE Some(Tail(up[c].msgs))
    <3>1. Tail(up[c].msgs) \in Seq(Message) /\ Len(Tail(up[c].msgs)) \in Nat
      BY <1>1 DEF Pipe
    <3>2. SubSeq(Tail(up[c].msgs), 1, 0) \in Some(Tail(up[c].msgs))
      BY <3>1 DEF Some
    <3> QED BY <3>2
  <2> QED BY <1>1, <1>3, <2>1, <2>2, ReadIsRead
<1> QED BY <1>2, <1>3

\* A step of one connection leaves the others as they were.
LEMMA OneConnection ==
    ASSUME IInv, NEW c \in Conn,
           NEW cl2 \in ClientState, NEW sv2 \in ServerState, NEW u2 \in Pipe, NEW d2 \in Pipe,
           client' = [client EXCEPT ![c] = cl2], server' = [server EXCEPT ![c] = sv2],
           up' = [up EXCEPT ![c] = u2], down' = [down EXCEPT ![c] = d2], api' = api,
           Good(cl2, sv2, u2, d2)
    PROVE  IInv'
<1>1. TypeOK /\ \A e \in Conn : Good(client[e], server[e], up[e], down[e])
  BY DEF IInv
<1>2. TypeOK'
  BY <1>1 DEF TypeOK
<1>3. ASSUME NEW e \in Conn PROVE Good(client'[e], server'[e], up'[e], down'[e])
  <2>1. CASE e = c
    <3>1. client'[c] = cl2 /\ server'[c] = sv2 /\ up'[c] = u2 /\ down'[c] = d2
      BY <1>1 DEF TypeOK
    <3> QED BY <2>1, <3>1
  <2>2. CASE e # c
    <3>1. client'[e] = client[e] /\ server'[e] = server[e] /\ up'[e] = up[e] /\ down'[e] = down[e]
      BY <1>1, <2>2 DEF TypeOK
    <3> QED BY <1>1, <3>1
  <2> QED BY <2>1, <2>2
<1> QED BY <1>2, <1>3 DEF IInv

-----------------------------------------------------------------------------
(* The client's steps. *)

\* What was ahead of position i + 1 has been applied or is ahead of position i.
LEMMA MediaAfterRead ==
    ASSUME NEW ms \in Seq(Message), NEW ms2 \in Seq(Message), Taken(ms, ms2),
           NEW i \in 1 .. Len(ms2) + 1, NEW cl, MediaReady(cl, ms, i + 1),
           NEW cl2, cl2 = Applied(cl, ms[1].kind), cl \in ClientState
    PROVE  MediaReady(cl2, ms2, i)
<1>1. /\ cl2.window = (cl.window \/ ms[1].kind \in WindowKinds)
      /\ cl2.size = IF ms[1].kind = "SetChunkSize" THEN "announced" ELSE cl.size
  BY DEF Applied, ClientState, WindowKinds
<1>2. \A K : Led(ms, i + 1, K) = (ms[1].kind \in K \/ Led(ms2, i, K))
  BY LedAfterRead
<1>3. Led(ms, i + 1, {"SetChunkSize"})
        = (ms[1].kind = "SetChunkSize" \/ Led(ms2, i, {"SetChunkSize"}))
  BY <1>2
<1>4. cl2.window \/ Led(ms2, i, WindowKinds)
  BY <1>1, <1>2 DEF MediaReady
<1>5. cl2.size = "announced" \/ Led(ms2, i, {"SetChunkSize"})
  BY <1>1, <1>3 DEF MediaReady
<1> QED BY <1>4, <1>5 DEF MediaReady

\* What is left to read once the client has read a message.  The createStream _result is
\* still to come only if the client goes on waiting for it, having applied what it read.
LEMMA DownAfterRead ==
    ASSUME NEW cl \in ClientState, NEW cl2 \in ClientState, NEW sv \in ServerState,
           NEW ups, NEW ups2, NEW ms \in Seq(Message), NEW ms2 \in Seq(Message),
           DownGood(cl, sv, ups, ms), Taken(ms, ms2), cl2.opts = cl.opts,
           \/ cl2.at \notin Early
           \/ cl.at \in {"handshake", "connect"}
           \/ cl.at = "create" /\ cl2 = Applied(cl, ms[1].kind) /\ ups2 = ups,
           cl2.at = "start" /\ Plays(cl) =>
              \/ sv.verdict = "none"
              \/ cl.at = "start" /\ cl2.recorded = (cl.recorded \/ ms[1].kind = "StreamIsRecorded")
    PROVE  DownGood(cl2, sv, ups2, ms2)
<1>1. Plays(cl2) = Plays(cl) /\ Creates(cl2) = Creates(cl)
  BY DEF Plays, Creates
<1> SUFFICES ASSUME NEW i \in 1 .. Len(ms2)
             PROVE  DownFact(sv, ms2[i]) /\ DownOrder(cl2, sv, ups2, ms2, i)
  BY DEF DownGood
<1>2. i + 1 \in 1 .. Len(ms) /\ ms2[i] = ms[i + 1] /\ i \in 1 .. Len(ms2) + 1
      /\ Len(ms2) \in Nat /\ Len(ms2) < Len(ms) /\ Len(ms) \in Nat /\ i \in Nat
  BY DEF Taken
<1>3. DownFact(sv, ms[i + 1]) /\ DownOrder(cl, sv, ups, ms, i + 1)
  BY <1>2 DEF DownGood
<1>4. ASSUME ms2[i].kind = "_result", ms2[i].tx = Creates(cl2), cl2.at \in Early
      PROVE  /\ cl2.at = "create" /\ ms2[i].sid \in 1 .. sv.next - 1
             /\ i = Len(ms2) /\ ups2 = <<>>
             /\ MediaReady(cl2, ms2, i)
  <2>1. CASE cl.at \in {"handshake", "connect"}
    BY <1>1, <1>2, <1>3, <1>4, <2>1 DEF DownOrder, Early
  <2>2. CASE cl.at = "create" /\ cl2 = Applied(cl, ms[1].kind) /\ ups2 = ups
    <3>1. /\ ms2[i].sid \in 1 .. sv.next - 1 /\ i + 1 = Len(ms) /\ ups = <<>>
          /\ MediaReady(cl, ms, i + 1)
      BY <1>1, <1>2, <1>3, <1>4, <2>2 DEF DownOrder, Early
    <3>2. i = Len(ms2)
      BY <1>2, <3>1
    <3>3. MediaReady(cl2, ms2, i)
      BY <1>2, <2>2, <3>1, MediaAfterRead
    <3>4. cl2.at = "create"
      BY <2>2 DEF Applied, ClientState
    <3> QED BY <2>2, <3>1, <3>2, <3>3, <3>4
  <2> QED BY <1>4, <2>1, <2>2
<1>5. ASSUME ms2[i].kind = "Play.Start", cl2.at = "start", Plays(cl2)
      PROVE  sv.recorded = (cl2.recorded \/ Led(ms2, i, {"StreamIsRecorded"}))
  <2>1. CASE sv.verdict = "none"
    BY <1>2, <1>3, <1>5, <2>1 DEF DownFact
  <2>2. CASE cl.at = "start" /\ cl2.recorded = (cl.recorded \/ ms[1].kind = "StreamIsRecorded")
    <3>1. sv.recorded = (cl.recorded \/ Led(ms, i + 1, {"StreamIsRecorded"}))
      BY <1>1, <1>2, <1>3, <1>5, <2>2 DEF DownOrder
    <3>2. Led(ms, i + 1, {"StreamIsRecorded"})
            = (ms[1].kind \in {"StreamIsRecorded"} \/ Led(ms2, i, {"StreamIsRecorded"}))
      BY <1>2, LedAfterRead
    <3> QED BY <2>2, <3>1, <3>2 DEF ClientState
  <2> QED BY <1>1, <1>5, <2>1, <2>2
<1> QED BY <1>2, <1>3, <1>4, <1>5 DEF DownOrder

\* What is on its way to the server once the client has written `out`.
LEMMA UpAfterWrite ==
    ASSUME NEW cl, NEW cl2, NEW sv, NEW ms \in Seq(Message), NEW out \in Seq(Message),
           UpGood(cl, sv, ms), cl2.opts = cl.opts,
           \A i \in 1 .. Len(ms) : UpFact(cl2, sv, ms[i]),
           \A i \in 1 .. Len(out) : UpFact(cl2, sv, out[i]),
           cl2.at \in Early =>
              /\ \A i \in 1 .. Len(ms) : ms[i].kind # "createStream"
              /\ \A i \in 1 .. Len(out) : out[i].kind = "createStream" => i = Len(out),
           \A i \in 1 .. Len(out) :
              /\ out[i].kind = "connect" => Led(out, i, {"SetChunkSize"})
              /\ out[i].kind \in Requests /\ Plays(cl) /\ cl.opts.buffer =>
                    Led(out, i, {"SetBufferLength"})
    PROVE  UpGood(cl2, sv, ms \o out)
<1>1. Plays(cl2) = Plays(cl) /\ cl2.opts.buffer = cl.opts.buffer
  BY DEF Plays
<1> SUFFICES ASSUME NEW i \in 1 .. Len(ms \o out)
             PROVE  UpFact(cl2, sv, (ms \o out)[i]) /\ UpOrder(cl2, sv, ms \o out, i)
  BY DEF UpGood
<1>2. CASE i \in 1 .. Len(ms)
  <2>1. (ms \o out)[i] = ms[i] /\ i \in 1 .. Len(ms) + 1
    BY <1>2, Concatenated
  <2>2. UpOrder(cl, sv, ms, i)
    BY <1>2 DEF UpGood
  <2>3. \A K : Led(ms \o out, i, K) = Led(ms, i, K)
    BY <2>1, LedAfterWrite
  <2> QED BY <1>1, <1>2, <2>1, <2>2, <2>3 DEF UpOrder
<1>3. CASE ~(i \in 1 .. Len(ms))
  <2> DEFINE k == i - Len(ms)
  <2>1. k \in 1 .. Len(out) /\ (ms \o out)[i] = out[k] /\ i = Len(ms) + k
        /\ Len(ms \o out) = Len(ms) + Len(out)
    BY <1>3, Concatenated
  <2> HIDE DEF k
  <2>2. \A K : Led(out, k, K) => Led(ms \o out, i, K)
    BY <2>1, LedByWrite
  <2> QED BY <1>1, <2>1, <2>2 DEF UpOrder
<1> QED BY <1>2, <1>3

\* ... or a message was read that is neither a window nor a chunk size.
LEMMA MediaAfterSkip ==
    ASSUME NEW ms \in Seq(Message), NEW ms2 \in Seq(Message), Taken(ms, ms2),
           NEW i \in 1 .. Len(ms2) + 1, NEW cl, NEW cl2, MediaReady(cl, ms, i + 1),
           cl2.window = cl.window, cl2.size = cl.size,
           ms[1].kind \notin WindowKinds, ms[1].kind # "SetChunkSize"
    PROVE  MediaReady(cl2, ms2, i)
<1>1. \A K : Led(ms, i + 1, K) = (ms[1].kind \in K \/ Led(ms2, i, K))
  BY LedAfterRead
<1>2. Led(ms, i + 1, WindowKinds) => Led(ms2, i, WindowKinds)
  <2>1. Led(ms, i + 1, WindowKinds) = (ms[1].kind \in WindowKinds \/ Led(ms2, i, WindowKinds))
    BY <1>1
  <2> QED BY <2>1
<1>3. Led(ms, i + 1, {"SetChunkSize"}) => Led(ms2, i, {"SetChunkSize"})
  <2>1. Led(ms, i + 1, {"SetChunkSize"})
          = (ms[1].kind \in {"SetChunkSize"} \/ Led(ms2, i, {"SetChunkSize"}))
    BY <1>1
  <2> QED BY <2>1
<1> QED BY <1>2, <1>3 DEF MediaReady

\* What the pipes promise, once the client has read a message and gone on.
LEMMA PipesAfterRead ==
    ASSUME NEW cl \in ClientState, NEW cl2 \in ClientState, NEW sv \in ServerState,
           NEW u \in Pipe, NEW d \in Pipe, NEW u2 \in Pipe, NEW d2 \in Pipe,
           NEW out \in Seq(Message),
           PipesGood(cl, sv, u, d), Reads(d, u, d2, u2, out), cl.at \in Inside,
           sv.at # "listening",
           sv.at = "setup" /\ cl2.at \in Early =>
              /\ cl.at \in Early
              /\ \/ cl2 = Applied(cl, d.msgs[1].kind)
                 \/ /\ cl2.window = cl.window /\ cl2.size = cl.size
                    /\ d.msgs[1].kind \notin WindowKinds \cup {"SetChunkSize"},
           cl2.at = "start" /\ sv.verdict = "none" => Len(d.msgs) = 1 /\ ~cl2.recorded
    PROVE  PipesGood(cl2, sv, u2, d2)
<1>1. /\ Taken(d.msgs, d2.msgs) /\ d.msgs \in Seq(Message) /\ d2.msgs \in Seq(Message)
      /\ Len(d.msgs) \in Nat /\ Len(d2.msgs) \in Nat
      /\ d2.closed = d.closed /\ u2.closed = u.closed
  BY DEF Reads, Pipe
<1>2. d2.closed = (sv.at = "gone") /\ ~u2.closed
  BY <1>1 DEF PipesGood
<1>3. sv.at = "gone" => u2.msgs = <<>>
  BY DEF PipesGood, Reads
<1>4. ASSUME sv.at = "setup", cl2.at \in Early
      PROVE  MediaReady(cl2, d2.msgs, Len(d2.msgs) + 1)
  <2>1. Len(d2.msgs) = Len(d.msgs) - 1
    BY <1>4 DEF PipesGood, Reads
  <2>2. MediaReady(cl, d.msgs, (Len(d2.msgs) + 1) + 1)
    <3>1. MediaReady(cl, d.msgs, Len(d.msgs) + 1)
      BY <1>4 DEF PipesGood
    <3>2. Len(d.msgs) + 1 = (Len(d2.msgs) + 1) + 1
      BY <1>1, <2>1
    <3> QED BY <3>1, <3>2
  <2>3. Len(d2.msgs) + 1 \in 1 .. Len(d2.msgs) + 1
    BY <1>1
  <2>4. CASE cl2 = Applied(cl, d.msgs[1].kind)
    BY <1>1, <2>2, <2>3, <2>4, MediaAfterRead
  <2>5. CASE /\ cl2.window = cl.window /\ cl2.size = cl.size
             /\ d.msgs[1].kind \notin WindowKinds \cup {"SetChunkSize"}
    BY <1>1, <2>2, <2>3, <2>5, MediaAfterSkip
  <2> QED BY <1>4, <2>4, <2>5
<1>5. ASSUME cl2.at = "start", sv.verdict = "none"
      PROVE  d2.msgs = <<>> /\ ~cl2.recorded
  <2>1. Len(d2.msgs) = 0
    BY <1>1, <1>5 DEF Taken
  <2> QED BY <1>1, <1>5, <2>1
<1> QED BY <1>2, <1>3, <1>4, <1>5 DEF PipesGood

\* Nothing has to be known about an empty pipe.
LEMMA NothingUp ==
    ASSUME NEW cl, NEW sv
    PROVE  UpGood(cl, sv, <<>>)
BY DEF UpGood

LEMMA NothingDown ==
    ASSUME NEW cl, NEW sv, NEW ups
    PROVE  DownGood(cl, sv, ups, <<>>)
BY DEF DownGood

\* What is on its way to the server once the client has read a message and written
\* `out`, which a server that has left does not get.
LEMMA UpAfterRead ==
    ASSUME NEW cl, NEW cl2, NEW sv, NEW u \in Pipe, NEW u2 \in Pipe, NEW d, NEW d2,
           NEW out \in Seq(Message), Good(cl, sv, u, d), Reads(d, u, d2, u2, out),
           cl2.opts = cl.opts,
           \A i \in 1 .. Len(u.msgs) : UpFact(cl2, sv, u.msgs[i]),
           ~d.closed => \A i \in 1 .. Len(out) : UpFact(cl2, sv, out[i]),
           cl2.at \in Early =>
              /\ \A i \in 1 .. Len(u.msgs) : u.msgs[i].kind # "createStream"
              /\ \A i \in 1 .. Len(out) : out[i].kind = "createStream" => i = Len(out),
           \A i \in 1 .. Len(out) :
              /\ out[i].kind = "connect" => Led(out, i, {"SetChunkSize"})
              /\ out[i].kind \in Requests /\ Plays(cl) /\ cl.opts.buffer =>
                    Led(out, i, {"SetBufferLength"})
    PROVE  UpGood(cl2, sv, u2.msgs)
<1>1. CASE d.closed
  BY <1>1, NothingUp DEF Good, PipesGood, Reads
<1>2. CASE ~d.closed
  <2>1. u2.msgs = u.msgs \o out /\ u.msgs \in Seq(Message) /\ UpGood(cl, sv, u.msgs)
    BY <1>2 DEF Reads, Pipe, Good
  <2> QED BY <1>2, <2>1, UpAfterWrite
<1> QED BY <1>1, <1>2

\* The first messages of a pipe that is not empty.
LEMMA PipeTyped ==
    ASSUME NEW p \in Pipe, NEW p2 \in Pipe, NEW q \in Pipe, NEW q2 \in Pipe, NEW out,
           p.msgs # <<>>, Reads(p, q, p2, q2, out)
    PROVE  /\ p.msgs \in Seq(Message) /\ p2.msgs \in Seq(Message) /\ q.msgs \in Seq(Message)
           /\ 1 \in 1 .. Len(p.msgs) /\ p.msgs[1] \in Message /\ Len(p.msgs) \in Nat
           /\ Len(q.msgs) \in Nat /\ Taken(p.msgs, p2.msgs)
<1>1. p.msgs \in Seq(Message) /\ p2.msgs \in Seq(Message) /\ q.msgs \in Seq(Message)
  BY DEF Pipe
<1>2. Taken(p.msgs, p2.msgs)
  BY DEF Reads
<1>3. 1 \in 1 .. Len(p.msgs) /\ Len(p.msgs) \in Nat /\ Len(q.msgs) \in Nat
  BY <1>1
<1> QED BY <1>1, <1>2, <1>3

\* ClientHandshake
LEMMA HandshakeGood ==
    ASSUME NEW cl \in ClientState, NEW sv \in ServerState, NEW u \in Pipe, NEW d \in Pipe,
           NEW cl2 \in ClientState, NEW u2 \in Pipe, NEW d2 \in Pipe, NEW out \in Seq(Message),
           Good(cl, sv, u, d), d.msgs # <<>>, Reads(d, u, d2, u2, out),
           cl.at = "handshake", d.msgs[1].kind \in {"S0S1S2", "S0S1S2 digest"},
           cl2.at = "connect", cl2.opts = cl.opts, cl2.tries = cl.tries,
           cl2.window = cl.window, cl2.size = cl.size, cl2.recorded = cl.recorded,
           cl2.kind = IF d.msgs[1].kind = "S0S1S2 digest" THEN "digest" ELSE "simple",
           Len(out) = 3, out[1].kind = "C2", out[2].kind = "SetChunkSize",
           out[3].kind = "connect", out[3].tx = 1
    PROVE  Good(cl2, sv, u2, d2)
<1>1. /\ d.msgs \in Seq(Message) /\ d2.msgs \in Seq(Message) /\ u.msgs \in Seq(Message)
      /\ 1 \in 1 .. Len(d.msgs) /\ Taken(d.msgs, d2.msgs) /\ Len(u.msgs) \in Nat
  BY PipeTyped
<1>2. DownFact(sv, d.msgs[1]) /\ sv.verdict = "none"
  BY <1>1 DEF Good, DownGood, ServerGood, Early, ServerState
<1>3. ClientGood(cl2, sv)
  BY <1>2 DEF Good, ClientGood, DownFact, Plays, Early
<1>4. ServerGood(cl2, sv)
  BY DEF Good, ServerGood, Agreed, Plays, Early
<1>5. DownGood(cl2, sv, u2.msgs, d2.msgs)
  BY <1>1, DownAfterRead DEF Good
<1>6. PipesGood(cl2, sv, u2, d2)
  <2>1. d.msgs[1].kind \notin WindowKinds \cup {"SetChunkSize"} /\ sv.at # "listening"
    BY <1>2 DEF WindowKinds, DownFact
  <2>2. cl.at \in Early /\ cl.at \in Inside
    BY DEF Early, Inside
  <2>3. PipesGood(cl, sv, u, d)
    BY DEF Good
  <2> QED BY <2>1, <2>2, <2>3, PipesAfterRead
<1>7. UpGood(cl2, sv, u2.msgs)
  <2>1. \A i \in 1 .. Len(u.msgs) : UpFact(cl, sv, u.msgs[i])
    BY DEF Good, UpGood
  <2>2. \A i \in 1 .. Len(u.msgs) : UpFact(cl2, sv, u.msgs[i]) /\ u.msgs[i].kind # "createStream"
    BY <2>1 DEF UpFact, BeforeConnected, Requests, Creates, Plays, Early
  <2>3. /\ \A i \in 1 .. Len(out) : i = 1 \/ i = 2 \/ i = 3
        /\ \A K : out[2].kind \in K => Led(out, 3, K)
    BY ThreeMessages
  <2>4. \A i \in 1 .. Len(out) : UpFact(cl2, sv, out[i])
    BY <2>3 DEF UpFact, BeforeConnected, Requests
  <2>5. \A i \in 1 .. Len(out) :
           /\ out[i].kind # "createStream" /\ out[i].kind \notin Requests
           /\ out[i].kind = "connect" => Led(out, i, {"SetChunkSize"})
    <3>1. Led(out, 3, {"SetChunkSize"})
      BY <2>3
    <3> QED BY <2>3, <3>1 DEF Requests
  <2> QED BY <2>2, <2>4, <2>5, UpAfterRead
<1> QED BY <1>3, <1>4, <1>5, <1>6, <1>7 DEF Good

\* ClientWaitsForResult
LEMMA WaitsForResultGood ==
    ASSUME NEW cl \in ClientState, NEW sv \in ServerState, NEW u \in Pipe, NEW d \in Pipe,
           NEW cl2 \in ClientState, NEW u2 \in Pipe, NEW d2 \in Pipe,
           Good(cl, sv, u, d), d.msgs # <<>>, Reads(d, u, d2, u2, <<>>),
           cl.at \in {"connect", "create"}, cl2 = Applied(cl, d.msgs[1].kind)
    PROVE  Good(cl2, sv, u2, d2)
<1>1. /\ d.msgs \in Seq(Message) /\ d2.msgs \in Seq(Message) /\ u.msgs \in Seq(Message)
      /\ 1 \in 1 .. Len(d.msgs) /\ Taken(d.msgs, d2.msgs) /\ Len(u.msgs) \in Nat
  BY PipeTyped
<1>2. /\ cl2.at = cl.at /\ cl2.opts = cl.opts /\ cl2.kind = cl.kind /\ cl2.sid = cl.sid
      /\ cl2.tries = cl.tries /\ cl2.recorded = cl.recorded
  BY DEF Applied, ClientState
<1>3. ClientGood(cl2, sv)
  BY <1>2 DEF Good, ClientGood, Plays, Early
<1>4. ServerGood(cl2, sv)
  BY <1>2 DEF Good, ServerGood, Agreed, Plays, Early
<1>5. u2.msgs = u.msgs
  BY <1>1 DEF Reads
<1>6. DownGood(cl2, sv, u2.msgs, d2.msgs)
  <2>1. DownGood(cl, sv, u.msgs, d.msgs)
    BY DEF Good
  <2>2. cl2.at # "start"
    BY <1>2
  <2> QED BY <1>1, <1>2, <1>5, <2>1, <2>2, DownAfterRead
<1>7. PipesGood(cl2, sv, u2, d2)
  <2>1. cl.at \in Early /\ cl.at \in Inside /\ cl2.at # "start"
    BY <1>2 DEF Early, Inside
  <2>2. PipesGood(cl, sv, u, d) /\ sv.at # "listening"
    BY DEF Good, ClientGood
  <2>3. <<>> \in Seq(Message)
    OBVIOUS
  <2> QED BY <2>1, <2>2, <2>3, PipesAfterRead
<1>8. UpGood(cl2, sv, u2.msgs)
  BY <1>2, <1>5 DEF Good, UpGood, UpFact, UpOrder, Creates, Plays
<1> QED BY <1>3, <1>4, <1>6, <1>7, <1>8 DEF Good

\* ClientConnected
LEMMA ConnectedGood ==
    ASSUME NEW cl \in ClientState, NEW sv \in ServerState, NEW u \in Pipe, NEW d \in Pipe,
           NEW cl2 \in ClientState, NEW u2 \in Pipe, NEW d2 \in Pipe, NEW out \in Seq(Message),
           Good(cl, sv, u, d), d.msgs # <<>>, Reads(d, u, d2, u2, out),
           cl.at = "connect", d.msgs[1].kind = "_result",
           cl2.at = "create", cl2.opts = cl.opts, cl2.kind = cl.kind, cl2.tries = cl.tries,
           cl2.window = cl.window, cl2.size = cl.size, cl2.recorded = cl.recorded,
           \A i \in 1 .. Len(out) :
              /\ out[i].kind \in {"releaseStream", "FCPublish", "createStream"}
              /\ out[i].kind = "createStream" => i = Len(out)
              /\ out[i].kind # "createStream" => out[i].tx # Creates(cl)
    PROVE  Good(cl2, sv, u2, d2)
<1>1. /\ d.msgs \in Seq(Message) /\ d2.msgs \in Seq(Message) /\ u.msgs \in Seq(Message)
      /\ 1 \in 1 .. Len(d.msgs) /\ Taken(d.msgs, d2.msgs) /\ Len(u.msgs) \in Nat
  BY PipeTyped
<1>2. DownFact(sv, d.msgs[1])
  BY <1>1 DEF Good, DownGood
<1>3. ClientGood(cl2, sv)
  BY <1>2 DEF Good, ClientGood, DownFact, Plays, Early
<1>4. ServerGood(cl2, sv)
  BY DEF Good, ServerGood, Agreed, Plays, Early
<1>5. DownGood(cl2, sv, u2.msgs, d2.msgs)
  BY <1>1, DownAfterRead DEF Good
<1>6. PipesGood(cl2, sv, u2, d2)
  <2>1. d.msgs[1].kind \notin WindowKinds \cup {"SetChunkSize"} /\ sv.at # "listening"
    BY <1>2 DEF WindowKinds, DownFact, Offered, Answering
  <2>2. cl.at \in Early /\ cl.at \in Inside
    BY DEF Early, Inside
  <2>3. PipesGood(cl, sv, u, d)
    BY DEF Good
  <2> QED BY <2>1, <2>2, <2>3, PipesAfterRead
<1>7. UpGood(cl2, sv, u2.msgs)
  <2>1. \A i \in 1 .. Len(u.msgs) : UpFact(cl, sv, u.msgs[i])
    BY DEF Good, UpGood
  <2>2. \A i \in 1 .. Len(u.msgs) : UpFact(cl2, sv, u.msgs[i]) /\ u.msgs[i].kind # "createStream"
    BY <2>1 DEF UpFact, BeforeConnected, BeforeCreated, Requests, Creates, Plays, Early
  <2>3. \A i \in 1 .. Len(out) : UpFact(cl2, sv, out[i])
    BY DEF UpFact, BeforeConnected, BeforeCreated, Requests, Creates, Plays
  <2>4. \A i \in 1 .. Len(out) : out[i].kind # "connect" /\ out[i].kind \notin Requests
    BY DEF Requests
  <2> QED BY <2>2, <2>3, <2>4, UpAfterRead
<1> QED BY <1>3, <1>4, <1>5, <1>6, <1>7 DEF Good

\* ClientCreated
LEMMA CreatedGood ==
    ASSUME NEW cl \in ClientState, NEW sv \in ServerState, NEW u \in Pipe, NEW d \in Pipe,
           NEW cl2 \in ClientState, NEW u2 \in Pipe, NEW d2 \in Pipe, NEW out \in Seq(Message),
           Good(cl, sv, u, d), d.msgs # <<>>, Reads(d, u, d2, u2, out),
           cl.at = "create", d.msgs[1].kind = "_result", d.msgs[1].tx = Creates(cl),
           cl2.at = "start", cl2.sid = d.msgs[1].sid,
           cl2.opts = cl.opts, cl2.kind = cl.kind, cl2.tries = cl.tries,
           cl2.window = cl.window, cl2.size = cl.size, cl2.recorded = cl.recorded,
           \A i \in 1 .. Len(out) :
              /\ out[i].kind \in Requests \cup {"SetBufferLength"}
              /\ out[i].kind = "SetBufferLength" => Plays(cl) /\ cl.opts.buffer
              /\ out[i].kind \in Requests =>
                    /\ Plays(cl) = (out[i].kind # "publish")
                    /\ out[i].sid = cl2.sid
                    /\ Plays(cl) /\ cl.opts.buffer => Led(out, i, {"SetBufferLength"})
    PROVE  Good(cl2, sv, u2, d2)
<1>1. /\ d.msgs \in Seq(Message) /\ d2.msgs \in Seq(Message) /\ u.msgs \in Seq(Message)
      /\ 1 \in 1 .. Len(d.msgs) /\ Taken(d.msgs, d2.msgs) /\ Len(u.msgs) \in Nat
  BY PipeTyped
<1>2. /\ cl2.sid \in 1 .. sv.next - 1 /\ 1 = Len(d.msgs) /\ u.msgs = <<>>
      /\ MediaReady(cl, d.msgs, 1) /\ sv.at \in Offered
  <2>1. DownFact(sv, d.msgs[1]) /\ DownOrder(cl, sv, u.msgs, d.msgs, 1)
    BY <1>1 DEF Good, DownGood
  <2> QED BY <2>1 DEF DownOrder, Early, DownFact
<1>3. cl.window /\ cl.size = "announced"
  BY <1>2 DEF MediaReady, Led
<1>4. sv.verdict = "none" /\ ~cl.recorded /\ cl.tries = 0 /\ cl.kind = sv.kind
  BY DEF Good, ServerGood, ClientGood, Early, ServerState
<1>5. ClientGood(cl2, sv)
  <2>1. cl2.tries < Turns(cl2)
    BY <1>4, SetupConstants DEF Turns
  <2> QED BY <1>2, <1>3, <1>4, <2>1 DEF Good, ClientGood, Early, Offered, Answering
<1>6. ServerGood(cl2, sv)
  BY DEF Good, ServerGood, Agreed, Plays, Early
<1>7. DownGood(cl2, sv, u2.msgs, d2.msgs)
  BY <1>1, <1>4, DownAfterRead DEF Good, Early
<1>8. PipesGood(cl2, sv, u2, d2)
  <2>1. sv.at # "listening" /\ cl2.at \notin Early /\ cl.at \in Inside /\ ~cl2.recorded
    BY <1>2, <1>4 DEF Offered, Answering, Early, Inside
  <2>2. PipesGood(cl, sv, u, d) /\ Len(d.msgs) = 1
    BY <1>2 DEF Good
  <2> QED BY <2>1, <2>2, PipesAfterRead
<1>9. UpGood(cl2, sv, u2.msgs)
  <2>1. \A i \in 1 .. Len(u.msgs) : UpFact(cl2, sv, u.msgs[i])
    BY <1>2
  <2>2. ~d.closed => \A i \in 1 .. Len(out) : UpFact(cl2, sv, out[i])
    <3>1. ~d.closed => sv.at \in Answering
      BY <1>2 DEF Good, PipesGood, Offered
    <3>2. cl2.sid >= 1
      BY <1>2
    <3>3. Plays(cl2) = Plays(cl)
      BY DEF Plays
    <3> QED BY <1>4, <3>1, <3>2, <3>3 DEF UpFact, AfterCreated, Requests, Early
  <2>3. \A i \in 1 .. Len(out) : out[i].kind # "connect"
    BY DEF Requests
  <2>4. cl2.at \notin Early
    BY DEF Early
  <2> QED BY <2>1, <2>2, <2>3, <2>4, UpAfterRead
<1> QED BY <1>5, <1>6, <1>7, <1>8, <1>9 DEF Good

\* ClientWaitsForPublishStart
LEMMA WaitsForPublishStartGood ==
    ASSUME NEW cl \in ClientState, NEW sv \in ServerState, NEW u \in Pipe, NEW d \in Pipe,
           NEW cl2 \in ClientState, NEW u2 \in Pipe, NEW d2 \in Pipe,
           Good(cl, sv, u, d), d.msgs # <<>>, Reads(d, u, d2, u2, <<>>),
           cl.at = "start", ~Plays(cl),
           cl2.at \in {"start", "live"}, cl2.at = "start" => cl2.tries < PublishTries,
           cl2.opts = cl.opts, cl2.kind = cl.kind, cl2.sid = cl.sid,
           cl2.window = cl.window, cl2.size = cl.size, cl2.recorded = cl.recorded
    PROVE  Good(cl2, sv, u2, d2)
<1>1. /\ d.msgs \in Seq(Message) /\ d2.msgs \in Seq(Message) /\ u.msgs \in Seq(Message)
      /\ 1 \in 1 .. Len(d.msgs) /\ Taken(d.msgs, d2.msgs) /\ Len(u.msgs) \in Nat
  BY PipeTyped
<1>2. u2.msgs = u.msgs /\ sv.verdict # "none" /\ sv.at \in Offered
  BY <1>1 DEF Reads, Good, PipesGood, ClientGood
<1>3. cl.recorded = sv.recorded
  BY DEF Good, ClientGood, ServerGood, Agreed, Plays, ClientState, ServerState
<1>4. ClientGood(cl2, sv)
  BY <1>2, <1>3 DEF Good, ClientGood, Plays, Early, Turns
<1>5. ServerGood(cl2, sv)
  BY DEF Good, ServerGood, Agreed, Plays, Early
<1>6. DownGood(cl2, sv, u2.msgs, d2.msgs)
  <2>1. cl2.at \notin Early /\ DownGood(cl, sv, u.msgs, d.msgs)
    BY DEF Early, Good
  <2> QED BY <1>1, <2>1, DownAfterRead
<1>7. PipesGood(cl2, sv, u2, d2)
  <2>1. sv.at # "listening" /\ cl2.at \notin Early /\ cl.at \in Inside /\ <<>> \in Seq(Message)
    BY <1>2 DEF Offered, Answering, Early, Inside
  <2>2. PipesGood(cl, sv, u, d)
    BY DEF Good
  <2> QED BY <1>2, <2>1, <2>2, PipesAfterRead
<1>8. UpGood(cl2, sv, u2.msgs)
  BY <1>2 DEF Good, UpGood, UpFact, UpOrder, Creates, Plays, Early
<1> QED BY <1>4, <1>5, <1>6, <1>7, <1>8 DEF Good

\* ClientWaitsForPlayStart
LEMMA WaitsForPlayStartGood ==
    ASSUME NEW cl \in ClientState, NEW sv \in ServerState, NEW u \in Pipe, NEW d \in Pipe,
           NEW cl2 \in ClientState, NEW u2 \in Pipe, NEW d2 \in Pipe, NEW out \in Seq(Message),
           Good(cl, sv, u, d), d.msgs # <<>>, Reads(d, u, d2, u2, out),
           cl.at = "start", Plays(cl), \A i \in 1 .. Len(out) : out[i].kind = "PingResponse",
           cl2.at = IF d.msgs[1].kind = "Play.Start" THEN "live" ELSE "start",
           cl2.at = "start" => cl2.tries < PlayTries,
           cl2.recorded = (cl.recorded \/ d.msgs[1].kind = "StreamIsRecorded"),
           cl2.opts = cl.opts, cl2.kind = cl.kind, cl2.sid = cl.sid,
           cl2.window, cl2.size = "announced"
    PROVE  Good(cl2, sv, u2, d2)
<1>1. /\ d.msgs \in Seq(Message) /\ d2.msgs \in Seq(Message) /\ u.msgs \in Seq(Message)
      /\ 1 \in 1 .. Len(d.msgs) /\ Taken(d.msgs, d2.msgs) /\ Len(u.msgs) \in Nat
  BY PipeTyped
<1>2. sv.verdict # "none" /\ sv.at \in Offered
  BY DEF Good, PipesGood, ClientGood
<1>3. cl2.at = "live" => cl2.recorded = sv.recorded
  <2>1. DownOrder(cl, sv, u.msgs, d.msgs, 1)
    BY <1>1 DEF Good, DownGood
  <2>2. ~Led(d.msgs, 1, {"StreamIsRecorded"})
    BY DEF Led
  <2>3. d.msgs[1].kind = "Play.Start" => sv.recorded = cl.recorded
    BY <2>1, <2>2 DEF DownOrder, ClientState
  <2> QED BY <2>3 DEF ClientState
<1>4. ClientGood(cl2, sv)
  BY <1>2, <1>3 DEF Good, ClientGood, Plays, Early, Turns
<1>5. ServerGood(cl2, sv)
  BY DEF Good, ServerGood, Agreed, Plays, Early
<1>6. cl2.at \notin Early
  BY DEF Early
<1>7. DownGood(cl2, sv, u2.msgs, d2.msgs)
  BY <1>1, <1>6, DownAfterRead DEF Good
<1>8. PipesGood(cl2, sv, u2, d2)
  <2>1. sv.at # "listening" /\ cl.at \in Inside
    BY <1>2 DEF Offered, Answering, Inside
  <2>2. PipesGood(cl, sv, u, d)
    BY DEF Good
  <2> QED BY <1>2, <1>6, <2>1, <2>2, PipesAfterRead
<1>9. UpGood(cl2, sv, u2.msgs)
  <2>1. \A i \in 1 .. Len(u.msgs) : UpFact(cl2, sv, u.msgs[i])
    BY <1>6 DEF Good, UpGood, UpFact, Creates, Plays
  <2>2. \A i \in 1 .. Len(out) : UpFact(cl2, sv, out[i])
    BY <1>6 DEF UpFact, Early, AfterCreated, Requests
  <2>3. \A i \in 1 .. Len(out) : out[i].kind # "connect" /\ out[i].kind \notin Requests
    BY DEF Requests
  <2> QED BY <1>6, <2>1, <2>2, <2>3, UpAfterRead
<1> QED BY <1>4, <1>5, <1>7, <1>8, <1>9 DEF Good

\* ClientRefused, ClientErrs, ClientDies, ClientHangs
LEMMA ClientLeavesGood ==
    ASSUME NEW cl \in ClientState, NEW sv \in ServerState, NEW u \in Pipe, NEW d \in Pipe,
           NEW cl2 \in ClientState, NEW u2 \in Pipe, NEW d2 \in Pipe,
           Good(cl, sv, u, d), cl.at \in Inside,
           cl2.at \in {"refused", "failed", "hung"}, cl2.at = "refused" => cl.at = "start",
           cl2.opts = cl.opts, cl2.kind = cl.kind, cl2.sid = cl.sid, cl2.recorded = cl.recorded,
           Len(u2.msgs) <= Len(u.msgs), \A i \in 1 .. Len(u2.msgs) : u2.msgs[i] = u.msgs[i],
           d2.closed = d.closed, d2.msgs = d.msgs \/ d2.msgs = <<>>
    PROVE  Good(cl2, sv, u2, d2)
<1>1. u.msgs \in Seq(Message) /\ u2.msgs \in Seq(Message) /\ Len(u.msgs) \in Nat
      /\ Len(u2.msgs) \in Nat
  BY DEF Pipe
<1>2. cl2.at \notin Early \cup {"start", "live"} /\ cl2.at \notin {"idle"} \cup Inside
  BY DEF Early, Inside
<1>3. ClientGood(cl2, sv)
  BY <1>2 DEF Good, ClientGood, Plays, Inside
<1>4. ServerGood(cl2, sv)
  BY <1>2 DEF Good, ServerGood, Agreed, Plays, Inside, Early
<1>5. PipesGood(cl2, sv, u2, d2)
  <2>1. sv.at = "gone" => u2.msgs = <<>>
    BY <1>1 DEF Good, PipesGood
  <2> QED BY <1>2, <2>1 DEF Good, PipesGood
<1>6. DownGood(cl2, sv, u2.msgs, d2.msgs)
  <2>1. CASE d2.msgs = <<>>
    BY <2>1 DEF DownGood
  <2>2. CASE d2.msgs = d.msgs
    BY <1>2, <2>2 DEF Good, DownGood, DownOrder
  <2> QED BY <2>1, <2>2
<1>7. UpGood(cl2, sv, u2.msgs)
  <2> SUFFICES ASSUME NEW i \in 1 .. Len(u2.msgs)
               PROVE  UpFact(cl2, sv, u2.msgs[i]) /\ UpOrder(cl2, sv, u2.msgs, i)
    BY DEF UpGood
  <2>1. i \in 1 .. Len(u.msgs) /\ u2.msgs[i] = u.msgs[i]
    BY <1>1
  <2>2. UpFact(cl, sv, u.msgs[i]) /\ UpOrder(cl, sv, u.msgs, i)
    BY <2>1 DEF Good, UpGood
  <2>3. \A j \in 1 .. i - 1 : u2.msgs[j] = u.msgs[j]
    BY <1>1
  <2>4. \A K : Led(u2.msgs, i, K) = Led(u.msgs, i, K)
    BY <2>3 DEF Led
  <2>5. UpFact(cl2, sv, u2.msgs[i])
    BY <1>2, <2>1, <2>2 DEF UpFact, Early, Creates, Plays
  <2>6. UpOrder(cl2, sv, u2.msgs, i)
    BY <1>2, <2>1, <2>2, <2>4 DEF UpOrder, Plays
  <2> QED BY <2>5, <2>6
<1> QED BY <1>3, <1>4, <1>5, <1>6, <1>7 DEF Good

\* ForeignClient
LEMMA ForeignClientGood ==
    ASSUME NEW cl \in ClientState, NEW sv \in ServerState, NEW u \in Pipe, NEW d \in Pipe,
           NEW cl2 \in ClientState, NEW u2 \in Pipe, NEW d2 \in Pipe, NEW out \in Seq(Message),
           Good(cl, sv, u, d), d.msgs # <<>>, Reads(d, u, d2, u2, out),
           cl.at = "handshake", d.msgs[1].kind = "S0S1S2",
           cl2.at = "hung", cl2.opts = cl.opts, cl2.recorded = cl.recorded,
           \A i \in 1 .. Len(out) : out[i].kind \in {"C2", "createStream"}
    PROVE  Good(cl2, sv, u2, d2)
<1>1. /\ d.msgs \in Seq(Message) /\ d2.msgs \in Seq(Message) /\ u.msgs \in Seq(Message)
      /\ 1 \in 1 .. Len(d.msgs) /\ Taken(d.msgs, d2.msgs) /\ Len(u.msgs) \in Nat
  BY PipeTyped
<1>2. DownFact(sv, d.msgs[1]) /\ sv.verdict = "none"
  BY <1>1 DEF Good, DownGood, ServerGood, Early, ServerState
<1>3. cl2.at \notin Early /\ ~cl.recorded
  BY DEF Early, Good, ClientGood
<1>4. ClientGood(cl2, sv)
  BY <1>3 DEF ClientGood
<1>5. ServerGood(cl2, sv)
  BY <1>3 DEF Good, ServerGood, Agreed, Plays, Early
<1>6. DownGood(cl2, sv, u2.msgs, d2.msgs)
  BY <1>1, <1>3, DownAfterRead DEF Good
<1>7. PipesGood(cl2, sv, u2, d2)
  <2>1. sv.at # "listening" /\ cl.at \in Inside
    BY <1>2 DEF DownFact, Inside
  <2>2. PipesGood(cl, sv, u, d)
    BY DEF Good
  <2> QED BY <1>3, <2>1, <2>2, PipesAfterRead
<1>8. UpGood(cl2, sv, u2.msgs)
  <2>1. \A i \in 1 .. Len(u.msgs) : UpFact(cl2, sv, u.msgs[i])
    BY <1>3 DEF Good, UpGood, UpFact, BeforeConnected, Requests, Creates, Plays, Early
  <2>2. \A i \in 1 .. Len(out) : UpFact(cl2, sv, out[i])
    BY DEF UpFact, Requests
  <2>3. \A i \in 1 .. Len(out) : out[i].kind # "connect" /\ out[i].kind \notin Requests
    BY DEF Requests
  <2> QED BY <1>3, <2>1, <2>2, <2>3, UpAfterRead
<1> QED BY <1>4, <1>5, <1>6, <1>7, <1>8 DEF Good

\* Dial
LEMMA DialGood ==
    ASSUME NEW cl \in ClientState, NEW sv \in ServerState, NEW u \in Pipe, NEW d \in Pipe,
           NEW cl2 \in ClientState, NEW u2 \in Pipe, Good(cl, sv, u, d),
           cl.at = "idle", cl2.at = "handshake", cl2.opts = cl.opts, cl2.tries = cl.tries,
           cl2.recorded = cl.recorded, u2.closed = u.closed,
           \A i \in 1 .. Len(u2.msgs) : u2.msgs[i].kind \in {"C0C1", "C0C1 digest"}
    PROVE  Good(cl2, sv, u2, d)
<1>1. sv.at = "listening" /\ d.msgs = <<>> /\ ~d.closed
  BY DEF Good, ServerGood, PipesGood
<1>2. ClientGood(cl2, sv)
  BY DEF Good, ClientGood, Early
<1>3. ServerGood(cl2, sv)
  BY <1>1 DEF Good, ServerGood, Plays, Answering, Early
<1>4. PipesGood(cl2, sv, u2, d)
  BY <1>1 DEF Good, PipesGood
<1>5. DownGood(cl2, sv, u2.msgs, d.msgs)
  BY <1>1, NothingDown
<1>6. UpGood(cl2, sv, u2.msgs)
  BY DEF UpGood, UpFact, UpOrder, BeforeConnected, Requests
<1> QED BY <1>2, <1>3, <1>4, <1>5, <1>6 DEF Good

-----------------------------------------------------------------------------
(* The server's steps. *)

\* What the server's answer is built on: what it knew it still knows.
Grows(sv, sv2) ==
    /\ sv.at \notin {"listening", "c0c1"} => sv2.at \notin {"listening", "c0c1"} /\ sv2.kind = sv.kind
    /\ sv.at \in Offered => sv2.at \in Offered
    /\ sv.at \in Answering => sv2.at \in Answering
    /\ sv2.next >= sv.next

\* What is left to read once the server has read a message and kept what it says.
LEMMA UpAfterTake ==
    ASSUME NEW cl, NEW sv \in ServerState, NEW sv2 \in ServerState,
           NEW ms \in Seq(Message), NEW ms2 \in Seq(Message),
           UpGood(cl, sv, ms), Taken(ms, ms2), Grows(sv, sv2),
           sv.size = "announced" \/ ms[1].kind = "SetChunkSize" => sv2.size = "announced",
           sv.buffer \/ ms[1].kind = "SetBufferLength" => sv2.buffer
    PROVE  UpGood(cl, sv2, ms2)
<1> SUFFICES ASSUME NEW i \in 1 .. Len(ms2)
             PROVE  UpFact(cl, sv2, ms2[i]) /\ UpOrder(cl, sv2, ms2, i)
  BY DEF UpGood
<1>1. i + 1 \in 1 .. Len(ms) /\ ms2[i] = ms[i + 1] /\ i \in 1 .. Len(ms2) + 1
      /\ Len(ms2) \in Nat /\ Len(ms2) < Len(ms) /\ Len(ms) \in Nat /\ i \in Nat
  BY DEF Taken
<1>2. UpFact(cl, sv, ms[i + 1]) /\ UpOrder(cl, sv, ms, i + 1)
  BY <1>1 DEF UpGood
<1>3. \A K : Led(ms, i + 1, K) = (ms[1].kind \in K \/ Led(ms2, i, K))
  BY <1>1, LedAfterRead
<1>4. UpFact(cl, sv2, ms2[i])
  BY <1>1, <1>2 DEF UpFact, Grows, Answering
<1>5. UpOrder(cl, sv2, ms2, i)
  <2>1. cl.at \in Early /\ ms2[i].kind = "createStream" => i = Len(ms2)
    BY <1>1, <1>2 DEF UpOrder
  <2>2. Led(ms, i + 1, {"SetChunkSize"})
          = (ms[1].kind \in {"SetChunkSize"} \/ Led(ms2, i, {"SetChunkSize"}))
    BY <1>3
  <2>3. Led(ms, i + 1, {"SetBufferLength"})
          = (ms[1].kind \in {"SetBufferLength"} \/ Led(ms2, i, {"SetBufferLength"}))
    BY <1>3
  <2>4. ms2[i].kind = "connect" => sv2.size = "announced" \/ Led(ms2, i, {"SetChunkSize"})
    BY <1>1, <1>2, <2>2 DEF UpOrder
  <2>5. ms2[i].kind \in Requests /\ Plays(cl) /\ cl.opts.buffer =>
           sv2.buffer \/ Led(ms2, i, {"SetBufferLength"})
    BY <1>1, <1>2, <2>3 DEF UpOrder
  <2> QED BY <2>1, <2>4, <2>5 DEF UpOrder
<1> QED BY <1>4, <1>5

\* What is on its way to the client once the server has written `out`.
LEMMA DownAfterWrite ==
    ASSUME NEW cl, NEW sv \in ServerState, NEW sv2 \in ServerState, NEW ups, NEW ups2,
           NEW ms \in Seq(Message), NEW out \in Seq(Message),
           DownGood(cl, sv, ups, ms), Grows(sv, sv2), sv.verdict = "none",
           ups # <<>> \/ cl.at \notin Early,
           \A k \in 1 .. Len(out) :
              /\ DownFact(sv2, out[k])
              /\ out[k].kind = "_result" /\ out[k].tx = Creates(cl) /\ cl.at \in Early =>
                    /\ cl.at = "create" /\ out[k].sid \in 1 .. sv2.next - 1
                    /\ k = Len(out) /\ ups2 = <<>>
                    /\ MediaReady(cl, ms \o out, Len(ms) + k)
              /\ out[k].kind = "Play.Start" /\ cl.at = "start" /\ Plays(cl) =>
                    sv2.recorded = (cl.recorded \/ Led(ms \o out, Len(ms) + k, {"StreamIsRecorded"}))
    PROVE  DownGood(cl, sv2, ups2, ms \o out)
<1> SUFFICES ASSUME NEW i \in 1 .. Len(ms \o out)
             PROVE  DownFact(sv2, (ms \o out)[i]) /\ DownOrder(cl, sv2, ups2, ms \o out, i)
  BY DEF DownGood
<1>1. CASE i \in 1 .. Len(ms)
  <2>1. (ms \o out)[i] = ms[i]
    BY <1>1, Concatenated
  <2>2. DownFact(sv, ms[i]) /\ DownOrder(cl, sv, ups, ms, i)
    BY <1>1 DEF DownGood
  <2>3. DownFact(sv2, ms[i])
    BY <2>2 DEF DownFact, Grows
  <2>4. ms[i].kind # "Play.Start"
    BY <2>2 DEF DownFact
  <2>5. ~(ms[i].kind = "_result" /\ ms[i].tx = Creates(cl) /\ cl.at \in Early)
    BY <2>2 DEF DownOrder
  <2> QED BY <2>1, <2>3, <2>4, <2>5 DEF DownOrder
<1>2. CASE ~(i \in 1 .. Len(ms))
  <2> DEFINE k == i - Len(ms)
  <2>1. k \in 1 .. Len(out) /\ (ms \o out)[i] = out[k] /\ i = Len(ms) + k
        /\ Len(ms \o out) = Len(ms) + Len(out)
    BY <1>2, Concatenated
  <2> HIDE DEF k
  <2> QED BY <2>1 DEF DownOrder
<1> QED BY <1>1, <1>2

\* A server that has read m and goes on keeps what m says.
Keeps(sv, sv2, m) ==
    /\ Grows(sv, sv2)
    /\ sv2.verdict = "none" /\ sv2.recorded = sv.recorded
    /\ sv.size = "announced" \/ m.kind = "SetChunkSize" => sv2.size = "announced"
    /\ sv.buffer \/ m.kind = "SetBufferLength" => sv2.buffer

\* The server answers with `out` after ms, leaving ups to be read: its answer to
\* createStream is the last one and finds the client ready for media.
Answers(cl, sv2, ups, ms, out) ==
    /\ cl.at = "start" => out = <<>>
    /\ \A k \in 1 .. Len(out) :
          /\ DownFact(sv2, out[k])
          /\ out[k].kind = "_result" /\ out[k].tx = Creates(cl) /\ cl.at \in Early =>
                /\ cl.at = "create" /\ out[k].sid \in 1 .. sv2.next - 1
                /\ k = Len(out) /\ ups = <<>>
                /\ MediaReady(cl, ms \o out, Len(ms) + k)

\* A message is read by a server that goes on: what is left to show is what the server
\* knows and what its answer says.
LEMMA ServerReadGood ==
    ASSUME NEW cl \in ClientState, NEW sv \in ServerState, NEW u \in Pipe, NEW d \in Pipe,
           NEW sv2 \in ServerState, NEW u2 \in Pipe, NEW d2 \in Pipe, NEW out \in Seq(Message),
           Good(cl, sv, u, d), u.msgs # <<>>, Reads(u, d, u2, d2, out),
           sv.at \in {"c0c1", "c2", "connect", "setup"}, ServerGood(cl, sv2),
           sv2.at \in {"c2", "connect", "setup", "request"},
           Keeps(sv, sv2, u.msgs[1]), Answers(cl, sv2, u2.msgs, d.msgs, out),
           sv2.at = "setup" /\ cl.at \in Early => MediaReady(cl, d2.msgs, Len(d2.msgs) + 1)
    PROVE  Good(cl, sv2, u2, d2)
<1>1. /\ u.msgs \in Seq(Message) /\ u2.msgs \in Seq(Message) /\ d.msgs \in Seq(Message)
      /\ 1 \in 1 .. Len(u.msgs) /\ Taken(u.msgs, u2.msgs) /\ Len(d.msgs) \in Nat
  BY PipeTyped
<1>2. /\ sv.verdict = "none" /\ ~sv.recorded
      /\ Grows(sv, sv2) /\ sv2.verdict = "none" /\ sv2.recorded = sv.recorded
  BY DEF Good, ServerGood, ServerState, Keeps
<1>3. ClientGood(cl, sv2)
  <2>1. cl.at # "live"
    BY <1>2 DEF Good, ClientGood
  <2>2. cl.at \in {"start", "live", "refused"} => cl.sid \in 1 .. sv2.next - 1
    <3>1. cl.at \in {"start", "live", "refused"} => cl.sid \in 1 .. sv.next - 1
      BY DEF Good, ClientGood
    <3>2. sv2.next >= sv.next /\ sv.next \in Nat /\ sv2.next \in Nat
      BY <1>2 DEF Grows, ServerState
    <3> QED BY <3>1, <3>2
  <2> QED BY <1>2, <2>1, <2>2 DEF Good, ClientGood, Grows
<1>4. UpGood(cl, sv2, u2.msgs)
  BY <1>1, <1>2, UpAfterTake DEF Good, Keeps
<1>5. d2.msgs = d.msgs \o out \/ (d2.msgs = d.msgs /\ u.closed)
  BY DEF Reads
<1>6. DownGood(cl, sv2, u2.msgs, d.msgs \o out)
  <2>1. DownGood(cl, sv, u.msgs, d.msgs)
    BY DEF Good
  <2>2. \A k \in 1 .. Len(out) : out[k].kind # "Play.Start"
    BY <1>2 DEF Answers, DownFact
  <2> QED BY <1>1, <1>2, <2>1, <2>2, DownAfterWrite DEF Answers
<1>7. DownGood(cl, sv2, u2.msgs, d2.msgs)
  <2>1. CASE d2.msgs = d.msgs /\ u.closed
    <3>1. cl.at \notin Early
      BY <2>1 DEF Good, PipesGood, Early, Inside
    <3>2. \A i \in 1 .. Len(d.msgs) : DownFact(sv, d.msgs[i])
      BY DEF Good, DownGood
    <3>3. \A i \in 1 .. Len(d.msgs) : DownFact(sv2, d.msgs[i]) /\ d.msgs[i].kind # "Play.Start"
      BY <1>2, <3>2 DEF DownFact, Grows
    <3> QED BY <2>1, <3>1, <3>3 DEF DownGood, DownOrder
  <2> QED BY <1>5, <1>6, <2>1
<1>8. PipesGood(cl, sv2, u2, d2)
  <2>1. d2.closed = d.closed /\ u2.closed = u.closed /\ sv2.at # "gone"
    BY DEF Reads
  <2>2. cl.at = "start" => d2.msgs = <<>> /\ ~cl.recorded
    <3>1. cl.at = "start" => d.msgs = <<>> /\ ~cl.recorded /\ out = <<>>
      BY <1>2 DEF Good, PipesGood, Answers
    <3> QED BY <1>5, <3>1
  <2> QED BY <2>1, <2>2 DEF Good, PipesGood
<1> QED BY <1>3, <1>4, <1>7, <1>8 DEF Good

\* Accept
LEMMA AcceptGood ==
    ASSUME NEW cl \in ClientState, NEW sv \in ServerState, NEW u \in Pipe, NEW d \in Pipe,
           NEW sv2 \in ServerState, Good(cl, sv, u, d), sv.at = "listening", cl.at # "idle",
           sv2 = [sv EXCEPT !.at = "c0c1"]
    PROVE  Good(cl, sv2, u, d)
<1>1. /\ sv2.at = "c0c1" /\ sv2.kind = sv.kind /\ sv2.next = sv.next /\ sv2.sid = sv.sid
      /\ sv2.role = sv.role /\ sv2.buffer = sv.buffer /\ sv2.size = sv.size
      /\ sv2.recorded = sv.recorded /\ sv2.verdict = sv.verdict
  BY DEF ServerState
<1>2. d.msgs = <<>> /\ ~d.closed
  BY DEF Good, PipesGood
<1>3. ClientGood(cl, sv2)
  BY <1>1 DEF Good, ClientGood, Offered, Answering
<1>4. ServerGood(cl, sv2)
  BY <1>1 DEF Good, ServerGood, Answering
<1>5. PipesGood(cl, sv2, u, d)
  BY <1>1, <1>2 DEF Good, PipesGood
<1>6. UpGood(cl, sv2, u.msgs)
  BY <1>1 DEF Good, UpGood, UpFact, UpOrder, Answering
<1>7. DownGood(cl, sv2, u.msgs, d.msgs)
  BY <1>2, NothingDown
<1> QED BY <1>3, <1>4, <1>5, <1>6, <1>7 DEF Good

\* What the message the server reads says.
LEMMA NextUpSays ==
    ASSUME NEW cl, NEW sv, NEW u \in Pipe, NEW d, Good(cl, sv, u, d), u.msgs # <<>>
    PROVE  UpFact(cl, sv, u.msgs[1]) /\ UpOrder(cl, sv, u.msgs, 1) /\ u.msgs[1] \in Message
<1>1. 1 \in 1 .. Len(u.msgs) /\ u.msgs[1] \in Message
  BY DEF Pipe
<1> QED BY <1>1 DEF Good, UpGood

LEMMA AtLeastItself ==
    ASSUME NEW n \in Nat
    PROVE  n >= n
OBVIOUS

\* ServerHandshake
LEMMA ServerHandshakeGood ==
    ASSUME NEW cl \in ClientState, NEW sv \in ServerState, NEW u \in Pipe, NEW d \in Pipe,
           NEW sv2 \in ServerState, NEW u2 \in Pipe, NEW d2 \in Pipe, NEW out \in Seq(Message),
           Good(cl, sv, u, d), u.msgs # <<>>, Reads(u, d, u2, d2, out),
           sv.at = "c0c1", u.msgs[1].kind \in {"C0C1", "C0C1 digest"},
           sv2.at = "c2", sv2.kind = IF u.msgs[1].kind = "C0C1 digest" THEN "digest" ELSE "simple",
           sv2.next = sv.next, sv2.size = sv.size, sv2.buffer = sv.buffer,
           sv2.recorded = sv.recorded, sv2.verdict = sv.verdict,
           \A k \in 1 .. Len(out) :
              out[k].kind = IF u.msgs[1].kind = "C0C1 digest" THEN "S0S1S2 digest" ELSE "S0S1S2"
    PROVE  Good(cl, sv2, u2, d2)
<1>1. ServerGood(cl, sv2) /\ sv2.verdict = "none" /\ cl.at # "start"
  BY DEF Good, ServerGood, ClientGood, Answering, ServerState
<1>2. Keeps(sv, sv2, u.msgs[1])
  <2>1. sv2.next \in Nat /\ sv2.next = sv.next
    BY DEF ServerState
  <2>2. Grows(sv, sv2)
    <3>1. sv2.next >= sv.next
      BY <2>1, AtLeastItself
    <3>2. sv.at \notin Offered /\ sv.at \notin Answering
      BY DEF Offered, Answering
    <3> QED BY <3>1, <3>2 DEF Grows
  <2>3. u.msgs[1].kind \notin {"SetChunkSize", "SetBufferLength"}
    OBVIOUS
  <2> QED BY <1>1, <2>2, <2>3 DEF Keeps
<1>3. Answers(cl, sv2, u2.msgs, d.msgs, out)
  BY <1>1 DEF Answers, DownFact, Refusals
<1> QED BY <1>1, <1>2, <1>3, ServerReadGood

\* ServerHandshakeDone
LEMMA ServerHandshakeDoneGood ==
    ASSUME NEW cl \in ClientState, NEW sv \in ServerState, NEW u \in Pipe, NEW d \in Pipe,
           NEW sv2 \in ServerState, NEW u2 \in Pipe, NEW d2 \in Pipe,
           Good(cl, sv, u, d), u.msgs # <<>>, Reads(u, d, u2, d2, <<>>),
           sv.at = "c2", u.msgs[1].kind = "C2", sv2.at = "connect",
           sv2.kind = sv.kind, sv2.next = sv.next, sv2.size = sv.size, sv2.buffer = sv.buffer,
           sv2.recorded = sv.recorded, sv2.verdict = sv.verdict
    PROVE  Good(cl, sv2, u2, d2)
<1>1. ServerGood(cl, sv2) /\ sv2.verdict = "none"
  BY DEF Good, ServerGood, ClientGood, Answering, ServerState
<1>2. Keeps(sv, sv2, u.msgs[1])
  <2>1. sv2.next >= sv.next
    BY DEF ServerState
  <2> QED BY <1>1, <2>1 DEF Keeps, Grows, Offered, Answering
<1>3. <<>> \in Seq(Message) /\ Answers(cl, sv2, u2.msgs, d.msgs, <<>>)
  BY DEF Answers
<1> QED BY <1>1, <1>2, <1>3, ServerReadGood

\* ServerApplies
LEMMA ServerAppliesGood ==
    ASSUME NEW cl \in ClientState, NEW sv \in ServerState, NEW u \in Pipe, NEW d \in Pipe,
           NEW sv2 \in ServerState, NEW u2 \in Pipe, NEW d2 \in Pipe,
           Good(cl, sv, u, d), u.msgs # <<>>, Reads(u, d, u2, d2, <<>>),
           sv.at \in {"connect", "setup"}, u.msgs[1].kind \in {"SetChunkSize", "SetBufferLength"},
           sv2.at = sv.at, sv2.kind = sv.kind, sv2.next = sv.next,
           sv2.recorded = sv.recorded, sv2.verdict = sv.verdict,
           sv2.size = IF u.msgs[1].kind = "SetChunkSize" THEN "announced" ELSE sv.size,
           sv2.buffer = (sv.buffer \/ (u.msgs[1].kind = "SetBufferLength" /\ sv.at = "setup"))
    PROVE  Good(cl, sv2, u2, d2)
<1>1. u.msgs[1].kind = "SetBufferLength" => sv.at = "setup" /\ Plays(cl) /\ cl.opts.buffer
  <2>1. UpFact(cl, sv, u.msgs[1])
    BY NextUpSays
  <2> QED BY <2>1 DEF UpFact, Answering
<1>2. ServerGood(cl, sv2) /\ sv2.verdict = "none"
  BY <1>1 DEF Good, ServerGood, ClientGood, Answering, ServerState
<1>3. Keeps(sv, sv2, u.msgs[1])
  <2>1. sv2.next >= sv.next
    BY DEF ServerState
  <2> QED BY <1>1, <1>2, <2>1 DEF Keeps, Grows, Offered, Answering
<1>4. <<>> \in Seq(Message) /\ Answers(cl, sv2, u2.msgs, d.msgs, <<>>)
  BY DEF Answers
<1>5. d2.msgs = d.msgs
  BY DEF Reads, Pipe
<1>6. sv2.at = "setup" /\ cl.at \in Early => MediaReady(cl, d2.msgs, Len(d2.msgs) + 1)
  BY <1>5 DEF Good, PipesGood
<1> QED BY <1>2, <1>3, <1>4, <1>6, ServerReadGood

\* The messages after which the client is ready for media, wherever they come from.
LEMMA MediaAfterWrite ==
    ASSUME NEW ms \in Seq(Message), NEW out \in Seq(Message), NEW cl, Len(out) \in Nat
    PROVE  /\ MediaReady(cl, ms, Len(ms) + 1) =>
                 /\ MediaReady(cl, ms \o out, Len(ms) + 1)
                 /\ MediaReady(cl, ms \o out, Len(ms \o out) + 1)
           /\ (\E k \in 1 .. Len(out) : out[k].kind \in WindowKinds)
              /\ (\E k \in 1 .. Len(out) : out[k].kind = "SetChunkSize") =>
                 MediaReady(cl, ms \o out, Len(ms \o out) + 1)
<1>1. /\ Len(ms \o out) = Len(ms) + Len(out) /\ Len(ms) \in Nat
      /\ \A i \in 1 .. Len(ms) : (ms \o out)[i] = ms[i]
      /\ \A i \in 1 .. Len(out) : (ms \o out)[Len(ms) + i] = out[i]
  BY Concatenated
<1>2. \A K : Led(ms, Len(ms) + 1, K) =>
                Led(ms \o out, Len(ms) + 1, K) /\ Led(ms \o out, Len(ms \o out) + 1, K)
  <2> SUFFICES ASSUME NEW K, Led(ms, Len(ms) + 1, K)
               PROVE  Led(ms \o out, Len(ms) + 1, K) /\ Led(ms \o out, Len(ms \o out) + 1, K)
    OBVIOUS
  <2>1. PICK j \in 1 .. (Len(ms) + 1) - 1 : ms[j].kind \in K
    BY DEF Led
  <2>2. j \in 1 .. Len(ms) /\ j \in 1 .. (Len(ms \o out) + 1) - 1
    BY <1>1
  <2>3. (ms \o out)[j].kind \in K
    BY <1>1, <2>1, <2>2
  <2> QED BY <2>2, <2>3 DEF Led
<1>3. \A K : (\E k \in 1 .. Len(out) : out[k].kind \in K) => Led(ms \o out, Len(ms \o out) + 1, K)
  <2> SUFFICES ASSUME NEW K, NEW k \in 1 .. Len(out), out[k].kind \in K
               PROVE  Led(ms \o out, Len(ms \o out) + 1, K)
    OBVIOUS
  <2>1. Len(ms) + k \in 1 .. (Len(ms \o out) + 1) - 1 /\ (ms \o out)[Len(ms) + k] = out[k]
    BY <1>1
  <2> QED BY <2>1 DEF Led
<1>4. (\E k \in 1 .. Len(out) : out[k].kind = "SetChunkSize") =>
          Led(ms \o out, Len(ms \o out) + 1, {"SetChunkSize"})
  <2>1. (\E k \in 1 .. Len(out) : out[k].kind \in {"SetChunkSize"}) =>
          Led(ms \o out, Len(ms \o out) + 1, {"SetChunkSize"})
    BY <1>3
  <2> QED BY <2>1
<1> QED BY <1>2, <1>3, <1>4 DEF MediaReady

\* The two transaction ids a client that has no stream id waits for differ.
LEMMA CreatesLater ==
    ASSUME NEW cl
    PROVE  Creates(cl) # 1
BY DEF Creates

LEMMA NothingBefore ==
    ASSUME NEW ms, NEW K
    PROVE  ~Led(ms, 1, K)
BY DEF Led

\* An answer to the connect of transaction t.
Greets(out, t) ==
    /\ \A k \in 1 .. Len(out) :
          /\ out[k].kind \notin {"S0S1S2", "S0S1S2 digest", "Play.Start"} \cup Refusals
          /\ out[k].kind = "_result" => out[k].tx = t
    /\ \E k \in 1 .. Len(out) : out[k].kind \in WindowKinds
    /\ \E k \in 1 .. Len(out) : out[k].kind = "SetChunkSize"

\* ServerConnect
LEMMA ServerConnectGood ==
    ASSUME NEW cl \in ClientState, NEW sv \in ServerState, NEW u \in Pipe, NEW d \in Pipe,
           NEW sv2 \in ServerState, NEW u2 \in Pipe, NEW d2 \in Pipe, NEW out \in Seq(Message),
           Good(cl, sv, u, d), u.msgs # <<>>, Reads(u, d, u2, d2, out),
           sv.at = "connect", u.msgs[1].kind = "connect", sv2.at = "setup",
           sv2.kind = sv.kind, sv2.next = sv.next, sv2.size = sv.size, sv2.buffer = sv.buffer,
           sv2.recorded = sv.recorded, sv2.verdict = sv.verdict,
           Greets(out, u.msgs[1].tx)
    PROVE  Good(cl, sv2, u2, d2)
<1>1. u.msgs[1].tx = 1 /\ sv.size = "announced"
  <2>1. UpFact(cl, sv, u.msgs[1]) /\ UpOrder(cl, sv, u.msgs, 1)
    BY NextUpSays
  <2>2. ~Led(u.msgs, 1, {"SetChunkSize"})
    BY NothingBefore
  <2> QED BY <2>1, <2>2 DEF UpFact, UpOrder
<1>2. ServerGood(cl, sv2) /\ sv2.verdict = "none" /\ cl.at # "start"
  BY <1>1 DEF Good, ServerGood, ClientGood, Answering, Offered, ServerState
<1>3. Keeps(sv, sv2, u.msgs[1])
  <2>1. sv2.next >= sv.next
    BY AtLeastItself DEF ServerState
  <2> QED BY <1>2, <2>1 DEF Keeps, Grows, Offered, Answering
<1>4. Answers(cl, sv2, u2.msgs, d.msgs, out)
  <2>1. \A k \in 1 .. Len(out) : DownFact(sv2, out[k])
    BY DEF Greets, DownFact, Offered, Answering
  <2>2. Creates(cl) # 1
    BY CreatesLater
  <2> QED BY <1>1, <1>2, <2>1, <2>2 DEF Answers, Greets
<1>5. sv2.at = "setup" /\ cl.at \in Early => MediaReady(cl, d2.msgs, Len(d2.msgs) + 1)
  <2> SUFFICES ASSUME cl.at \in Early PROVE MediaReady(cl, d2.msgs, Len(d2.msgs) + 1)
    OBVIOUS
  <2>1. ~u.closed
    BY DEF Good, PipesGood, Early, Inside
  <2>2. d2.msgs = d.msgs \o out
    BY <2>1 DEF Reads
  <2>3. d.msgs \in Seq(Message) /\ Len(out) \in Nat
    BY PipeTyped, LenProperties
  <2> QED BY <2>2, <2>3, MediaAfterWrite DEF Greets
<1> QED BY <1>2, <1>3, <1>4, <1>5, ServerReadGood

\* ServerCommand, ForeignRefusesCommand
LEMMA ServerCommandGood ==
    ASSUME NEW cl \in ClientState, NEW sv \in ServerState, NEW u \in Pipe, NEW d \in Pipe,
           NEW sv2 \in ServerState, NEW u2 \in Pipe, NEW d2 \in Pipe, NEW out \in Seq(Message),
           Good(cl, sv, u, d), u.msgs # <<>>, Reads(u, d, u2, d2, out),
           sv.at = "setup", u.msgs[1].kind \in {"releaseStream", "FCPublish", "createStream"},
           sv2.at = "setup", sv2.kind = sv.kind, sv2.size = sv.size, sv2.buffer = sv.buffer,
           sv2.recorded = sv.recorded, sv2.verdict = sv.verdict, sv2.next >= sv.next,
           Len(out) = 1, out[1].kind \in {"_result", "_error"}, out[1].tx = u.msgs[1].tx,
           out[1].kind = "_result" /\ u.msgs[1].kind = "createStream" =>
              out[1].sid = sv.next /\ sv2.next = sv.next + 1
    PROVE  Good(cl, sv2, u2, d2)
<1>1. /\ u.msgs \in Seq(Message) /\ u2.msgs \in Seq(Message) /\ d.msgs \in Seq(Message)
      /\ 1 \in 1 .. Len(u.msgs) /\ Taken(u.msgs, u2.msgs) /\ Len(u2.msgs) \in Nat
  BY PipeTyped
<1>2. UpFact(cl, sv, u.msgs[1]) /\ UpOrder(cl, sv, u.msgs, 1)
  BY NextUpSays
<1>3. sv.next \in Nat /\ sv.next >= 1 /\ sv2.next \in Nat
  BY DEF Good, ServerGood, ServerState
<1>4. ServerGood(cl, sv2) /\ sv2.verdict = "none"
  <2>1. sv2.next >= 1
    BY <1>3
  <2> QED BY <2>1 DEF Good, ServerGood, Answering, ServerState
<1>5. cl.at # "start"
  BY <1>2 DEF UpFact, AfterCreated, Requests
<1>6. Keeps(sv, sv2, u.msgs[1])
  BY <1>4 DEF Keeps, Grows, Offered, Answering
<1>7. cl.at \in Early => MediaReady(cl, d.msgs, Len(d.msgs) + 1)
  BY DEF Good, PipesGood
<1>8. Answers(cl, sv2, u2.msgs, d.msgs, out)
  <2>1. DownFact(sv2, out[1])
    BY DEF DownFact, Offered, Answering, Refusals
  <2>2. ASSUME out[1].kind = "_result", out[1].tx = Creates(cl), cl.at \in Early
        PROVE  /\ cl.at = "create" /\ out[1].sid \in 1 .. sv2.next - 1 /\ u2.msgs = <<>>
               /\ MediaReady(cl, d.msgs \o out, Len(d.msgs) + 1)
    <3>1. u.msgs[1].kind = "createStream"
      BY <1>2, <2>2 DEF UpFact
    <3>2. cl.at = "create" /\ Len(u.msgs) = 1
      BY <1>2, <2>2, <3>1 DEF UpFact, UpOrder, Early, BeforeConnected
    <3>3. u2.msgs = <<>>
      <4>1. Len(u2.msgs) = 0
        BY <1>1, <3>2 DEF Taken
      <4> QED BY <1>1, <4>1
    <3>4. out[1].sid \in 1 .. sv2.next - 1
      BY <1>3, <2>2, <3>1
    <3>5. MediaReady(cl, d.msgs \o out, Len(d.msgs) + 1)
      BY <1>1, <1>7, <2>2, MediaAfterWrite
    <3> QED BY <3>2, <3>3, <3>4, <3>5
  <2>3. \A k \in 1 .. Len(out) : k = 1 /\ k = Len(out)
    OBVIOUS
  <2> QED BY <1>5, <2>1, <2>2, <2>3 DEF Answers
<1>9. sv2.at = "setup" /\ cl.at \in Early => MediaReady(cl, d2.msgs, Len(d2.msgs) + 1)
  <2>1. d2.msgs = d.msgs \/ d2.msgs = d.msgs \o out
    BY DEF Reads
  <2>2. Len(out) \in Nat
    OBVIOUS
  <2> QED BY <1>1, <1>7, <2>1, <2>2, MediaAfterWrite
<1> QED BY <1>4, <1>6, <1>8, <1>9, ServerReadGood

\* ServerRequest
LEMMA ServerRequestGood ==
    ASSUME NEW cl \in ClientState, NEW sv \in ServerState, NEW u \in Pipe, NEW d \in Pipe,
           NEW sv2 \in ServerState, NEW u2 \in Pipe, NEW d2 \in Pipe,
           Good(cl, sv, u, d), u.msgs # <<>>, Reads(u, d, u2, d2, <<>>),
           sv.at = "setup", u.msgs[1].kind \in Requests, sv2.at = "request",
           sv2.role = IF u.msgs[1].kind = "publish" THEN "publisher" ELSE "player",
           sv2.sid = IF u.msgs[1].sid = 0 THEN 1 ELSE u.msgs[1].sid,
           sv2.kind = sv.kind, sv2.next = sv.next, sv2.size = sv.size, sv2.buffer = sv.buffer,
           sv2.recorded = sv.recorded, sv2.verdict = sv.verdict
    PROVE  Good(cl, sv2, u2, d2)
<1>1. UpFact(cl, sv, u.msgs[1]) /\ UpOrder(cl, sv, u.msgs, 1)
  BY NextUpSays
<1>2. ~Led(u.msgs, 1, {"SetBufferLength"})
  BY NothingBefore
<1>3. Agreed(cl, sv2)
  <2>1. /\ cl.at \notin Early /\ Plays(cl) = (u.msgs[1].kind # "publish")
        /\ u.msgs[1].sid = cl.sid /\ cl.sid >= 1 /\ cl.kind = sv.kind
    BY <1>1 DEF UpFact
  <2>2. sv2.role = cl.opts.role
    BY <2>1 DEF Plays, ClientState, Option
  <2>3. cl.sid # 0
    BY <2>1
  <2>4. Plays(cl) => sv2.buffer = cl.opts.buffer
    BY <1>1, <1>2 DEF UpOrder, Good, ServerGood, ServerState, ClientState, Option
  <2> QED BY <2>1, <2>2, <2>3, <2>4 DEF Agreed
<1>4. ServerGood(cl, sv2) /\ sv2.verdict = "none"
  BY <1>3 DEF Good, ServerGood, Answering, ServerState
<1>5. Keeps(sv, sv2, u.msgs[1])
  <2>1. sv2.next >= sv.next
    BY AtLeastItself DEF ServerState
  <2> QED BY <1>4, <2>1 DEF Keeps, Grows, Offered, Answering, Requests
<1>6. <<>> \in Seq(Message) /\ Answers(cl, sv2, u2.msgs, d.msgs, <<>>)
  BY DEF Answers
<1> QED BY <1>4, <1>5, <1>6, ServerReadGood

\* AppAccepts, ForeignAccepts
LEMMA AcceptsGood ==
    ASSUME NEW cl \in ClientState, NEW sv \in ServerState, NEW u \in Pipe, NEW d \in Pipe,
           NEW sv2 \in ServerState, NEW d2 \in Pipe, NEW out \in Seq(Message),
           Good(cl, sv, u, d), sv.at = "request", sv2.at = "live", sv2.verdict = "accepted",
           sv2.kind = sv.kind, sv2.next = sv.next, sv2.size = sv.size, sv2.buffer = sv.buffer,
           sv2.sid = sv.sid, sv2.role = sv.role,
           d2.closed = d.closed, d2.msgs = IF u.closed THEN d.msgs ELSE d.msgs \o out,
           \A i \in 1 .. Len(out) :
              /\ out[i].kind \notin Refusals
              /\ out[i].kind = "StreamIsRecorded" =>
                    \A j \in 1 .. i - 1 : out[j].kind # "Play.Start",
           sv2.recorded = (/\ sv.role = "player"
                           /\ \E i \in 1 .. Len(out) : out[i].kind = "StreamIsRecorded")
    PROVE  Good(cl, sv2, u, d2)
<1>1. sv.verdict = "none" /\ Agreed(cl, sv) /\ cl.at \notin Early
  BY DEF Good, ServerGood, Agreed, ServerState
<1>2. d.msgs \in Seq(Message) /\ Len(d.msgs) \in Nat /\ Len(out) \in Nat
  BY LenProperties DEF Pipe
<1>3. ClientGood(cl, sv2)
  <2>1. cl.at # "live"
    BY <1>1 DEF Good, ClientGood
  <2> QED BY <2>1 DEF Good, ClientGood, Offered, Answering
<1>4. ServerGood(cl, sv2)
  BY <1>1 DEF Good, ServerGood, Agreed, Answering, Early
<1>5. PipesGood(cl, sv2, u, d2)
  BY DEF Good, PipesGood
<1>6. UpGood(cl, sv2, u.msgs)
  BY DEF Good, UpGood, UpFact, UpOrder, Answering
<1>7. Grows(sv, sv2)
  <2>1. sv2.next >= sv.next
    BY AtLeastItself DEF ServerState
  <2> QED BY <2>1 DEF Grows, Offered, Answering
<1>8. DownGood(cl, sv2, u.msgs, d2.msgs)
  <2>1. CASE u.closed
    <3>1. cl.at # "start" /\ d2.msgs = d.msgs
      BY <2>1 DEF Good, PipesGood, Inside
    <3>2. \A i \in 1 .. Len(d.msgs) : DownFact(sv, d.msgs[i])
      BY DEF Good, DownGood
    <3>3. \A i \in 1 .. Len(d.msgs) : DownFact(sv2, d.msgs[i])
      BY <1>1, <1>7, <3>2 DEF DownFact, Grows
    <3> QED BY <1>1, <3>1, <3>3 DEF DownGood, DownOrder
  <2>2. CASE ~u.closed
    <3>1. d2.msgs = d.msgs \o out
      BY <2>2
    <3>2. \A k \in 1 .. Len(out) : DownFact(sv2, out[k])
      BY DEF DownFact, Offered, Answering
    <3>3. ASSUME NEW k \in 1 .. Len(out), out[k].kind = "Play.Start", cl.at = "start", Plays(cl)
          PROVE  sv2.recorded
                   = (cl.recorded \/ Led(d.msgs \o out, Len(d.msgs) + k, {"StreamIsRecorded"}))
      <4>1. d.msgs = <<>> /\ ~cl.recorded
        BY <1>1, <3>3 DEF Good, PipesGood
      <4>2. d.msgs \o out = out /\ Len(d.msgs) + k = k
        BY <4>1
      <4>3. sv.role = "player"
        BY <1>1, <3>3 DEF Agreed, Plays
      <4>4. ASSUME NEW i \in 1 .. Len(out), out[i].kind = "StreamIsRecorded"
            PROVE  Led(out, k, {"StreamIsRecorded"})
        <5>1. ~(k \in 1 .. i - 1) /\ i # k
          BY <3>3, <4>4
        <5>2. i \in 1 .. k - 1
          BY <1>2, <5>1
        <5> QED BY <4>4, <5>2 DEF Led
      <4>5. Led(out, k, {"StreamIsRecorded"}) =>
               \E i \in 1 .. Len(out) : out[i].kind = "StreamIsRecorded"
        BY <1>2 DEF Led
      <4> QED BY <4>1, <4>2, <4>3, <4>4, <4>5 DEF Led
    <3>4. DownGood(cl, sv, u.msgs, d.msgs)
      BY DEF Good
    <3> QED BY <1>1, <1>2, <1>7, <3>1, <3>2, <3>3, <3>4, DownAfterWrite
  <2> QED BY <2>1, <2>2
<1> QED BY <1>3, <1>4, <1>5, <1>6, <1>8 DEF Good

\* ms is all, or its start.
Begins(ms, all) == Len(ms) <= Len(all) /\ \A i \in 1 .. Len(ms) : ms[i] = all[i]

Refuses(ms) == \A i \in 1 .. Len(ms) : ms[i].kind \in Refusals

\* AppRejects, ServerErrs, ServerDies: what was written and the refusal arrive, or a part.
LEMMA ServerLeavesGood ==
    ASSUME NEW cl \in ClientState, NEW sv \in ServerState, NEW u \in Pipe, NEW d \in Pipe,
           NEW sv2 \in ServerState, NEW u2 \in Pipe, NEW d2 \in Pipe, NEW out \in Seq(Message),
           Good(cl, sv, u, d), sv.at \in {"c0c1", "c2", "connect", "setup", "request"},
           sv2.at = "gone", sv2.kind = sv.kind, sv2.next = sv.next, sv2.size = sv.size,
           sv2.buffer = sv.buffer, sv2.sid = sv.sid, sv2.role = sv.role,
           sv2.recorded = sv.recorded,
           \/ sv2.verdict = "none" /\ out = <<>>
           \/ sv.at = "request" /\ sv2.verdict = "rejected",
           Refuses(out),
           u2.closed = u.closed, u2.msgs = <<>>, d2.closed,
           Begins(d2.msgs, d.msgs \o out)
    PROVE  Good(cl, sv2, u2, d2)
<1>0. /\ \A i \in 1 .. Len(out) : out[i].kind \in Refusals
      /\ Len(d2.msgs) <= Len(d.msgs \o out)
      /\ \A i \in 1 .. Len(d2.msgs) : d2.msgs[i] = (d.msgs \o out)[i]
  BY DEF Begins, Refuses
<1>1. /\ sv.verdict = "none" /\ ~sv.recorded /\ cl.at \notin {"idle", "live"}
      /\ sv.at = "request" => cl.at \notin Early
  BY DEF Good, ServerGood, ClientGood, Agreed, ServerState
<1>2. /\ d.msgs \in Seq(Message) /\ Len(d.msgs) \in Nat /\ Len(d2.msgs) \in Nat
      /\ d.msgs \o out \in Seq(Message)
  BY Concatenated, LenProperties DEF Pipe
<1>3. out = <<>> => d.msgs \o out = d.msgs
  BY <1>2
<1>4. ClientGood(cl, sv2)
  BY <1>1 DEF Good, ClientGood, Offered, Answering
<1>5. ServerGood(cl, sv2)
  BY <1>1 DEF Good, ServerGood, Answering
<1>6. PipesGood(cl, sv2, u2, d2)
  <2>1. ASSUME cl.at = "start", sv2.verdict = "none" PROVE d2.msgs = <<>> /\ ~cl.recorded
    <3>1. d.msgs = <<>> /\ ~cl.recorded
      BY <1>1, <2>1 DEF Good, PipesGood
    <3>2. Len(d2.msgs) = 0
      BY <1>0, <1>2, <1>3, <2>1, <3>1
    <3> QED BY <3>1, <3>2, EmptySeq DEF Pipe
  <2> QED BY <2>1 DEF Good, PipesGood
<1>7. UpGood(cl, sv2, u2.msgs)
  BY NothingUp
<1>8. DownGood(cl, sv2, u2.msgs, d2.msgs)
  <2> SUFFICES ASSUME NEW i \in 1 .. Len(d2.msgs)
               PROVE  DownFact(sv2, d2.msgs[i]) /\ DownOrder(cl, sv2, u2.msgs, d2.msgs, i)
    BY DEF DownGood
  <2>1. CASE i \in 1 .. Len(d.msgs)
    <3>1. d2.msgs[i] = d.msgs[i] /\ i <= Len(d2.msgs)
      <4>1. d2.msgs[i] = (d.msgs \o out)[i] /\ i <= Len(d2.msgs)
        BY <1>0, <1>2
      <4> QED BY <2>1, <4>1, <1>2, Concatenated
    <3>2. DownFact(sv, d.msgs[i]) /\ DownOrder(cl, sv, u.msgs, d.msgs, i)
      BY <2>1 DEF Good, DownGood
    <3>3. DownFact(sv2, d.msgs[i]) /\ d.msgs[i].kind # "Play.Start"
      BY <1>1, <3>2 DEF DownFact, Offered
    <3>4. ASSUME d.msgs[i].kind = "_result", d.msgs[i].tx = Creates(cl), cl.at \in Early
          PROVE  /\ cl.at = "create" /\ d.msgs[i].sid \in 1 .. sv2.next - 1
                 /\ i = Len(d2.msgs) /\ MediaReady(cl, d2.msgs, i)
      <4>1. /\ cl.at = "create" /\ d.msgs[i].sid \in 1 .. sv2.next - 1
            /\ i = Len(d.msgs) /\ MediaReady(cl, d.msgs, i)
        BY <3>2, <3>4 DEF DownOrder
      <4>2. out = <<>>
        BY <1>1, <3>4
      <4>3. i = Len(d2.msgs)
        BY <1>0, <1>2, <1>3, <3>1, <4>1, <4>2
      <4>4. \A j \in 1 .. i - 1 : d2.msgs[j] = d.msgs[j]
        BY <1>0, <1>2, <1>3, <4>1, <4>2, <4>3
      <4>5. MediaReady(cl, d2.msgs, i)
        BY <4>1, <4>4 DEF MediaReady, Led
      <4> QED BY <4>1, <4>3, <4>5
    <3> QED BY <3>1, <3>3, <3>4 DEF DownOrder
  <2>2. CASE ~(i \in 1 .. Len(d.msgs))
    <3>1. i \in 1 .. Len(d.msgs \o out)
      BY <1>0, <1>2, LenProperties
    <3>2. i - Len(d.msgs) \in 1 .. Len(out) /\ d2.msgs[i] = out[i - Len(d.msgs)]
      BY <1>0, <1>2, <2>2, <3>1, Concatenated
    <3>3. d2.msgs[i].kind \in Refusals /\ sv2.verdict = "rejected"
      <4>1. d2.msgs[i].kind \in Refusals
        BY <1>0, <3>2
      <4>2. out # <<>>
        BY <3>2
      <4> QED BY <4>1, <4>2
    <3> QED BY <3>3 DEF DownFact, DownOrder, Refusals
  <2> QED BY <2>1, <2>2
<1> QED BY <1>4, <1>5, <1>6, <1>7, <1>8 DEF Good

-----------------------------------------------------------------------------
(* The invariant. *)

LEMMA OfConnection ==
    ASSUME IInv, NEW c \in Conn
    PROVE  /\ TypeOK /\ client \in [Conn -> ClientState] /\ server \in [Conn -> ServerState]
           /\ up \in [Conn -> Pipe] /\ down \in [Conn -> Pipe]
           /\ client[c] \in ClientState /\ server[c] \in ServerState
           /\ up[c] \in Pipe /\ down[c] \in Pipe
           /\ Good(client[c], server[c], up[c], down[c])
BY DEF IInv, TypeOK

\* What NextDown and NextUp return.
LEMMA NextIsFirst ==
    ASSUME IInv, NEW c \in Conn
    PROVE  /\ NextDown(c).kind # "none" => down[c].msgs # <<>>
           /\ down[c].msgs # <<>> => NextDown(c) = down[c].msgs[1] /\ NextDown(c) \in Message
           /\ NextUp(c).kind # "none" => up[c].msgs # <<>>
           /\ up[c].msgs # <<>> => NextUp(c) = up[c].msgs[1] /\ NextUp(c) \in Message
<1>1. down[c].msgs \in Seq(Message) /\ up[c].msgs \in Seq(Message)
  BY OfConnection DEF Pipe
<1>2. Msg("none").kind = "none"
  BY DEF Msg
<1>3. down[c].msgs # <<>> => Head(down[c].msgs) = down[c].msgs[1] /\ down[c].msgs[1] \in Message
  BY <1>1
<1>4. up[c].msgs # <<>> => Head(up[c].msgs) = up[c].msgs[1] /\ up[c].msgs[1] \in Message
  BY <1>1
<1> QED BY <1>2, <1>3, <1>4 DEF NextDown, NextUp

LEMMA OneMessage ==
    ASSUME NEW m \in Message
    PROVE  /\ <<m>> \in Seq(Message) /\ Len(<<m>>) = 1 /\ <<m>>[1] = m
           /\ \A i \in 1 .. Len(<<m>>) : <<m>>[i] = m
OBVIOUS

LEMMA MessageTyped ==
    ASSUME NEW k \in Kinds, NEW t \in Nat, NEW s \in Nat
    PROVE  /\ Msg(k) \in Message /\ Msg(k).kind = k
           /\ Tx(k, t) \in Message /\ Tx(k, t).kind = k /\ Tx(k, t).tx = t
           /\ OnStream(k, s) \in Message /\ OnStream(k, s).kind = k /\ OnStream(k, s).sid = s
           /\ Result(t, s) \in Message /\ Result(t, s).kind = "_result"
           /\ Result(t, s).tx = t /\ Result(t, s).sid = s
<1>1. Msg(k) \in Message /\ Msg(k).kind = k
  BY DEF Msg, Message
<1>2. Tx(k, t) \in Message /\ Tx(k, t).kind = k /\ Tx(k, t).tx = t
  BY DEF Tx, Message
<1>3. OnStream(k, s) \in Message /\ OnStream(k, s).kind = k /\ OnStream(k, s).sid = s
  BY DEF OnStream, Message
<1>4. Result(t, s) \in Message
  BY DEF Result, Message, Kinds
<1>5. Result(t, s).kind = "_result" /\ Result(t, s).tx = t /\ Result(t, s).sid = s
  BY DEF Result
<1> QED BY <1>1, <1>2, <1>3, <1>4, <1>5

THEOREM InitGood == Init => IInv
<1> SUFFICES ASSUME Init PROVE IInv
  OBVIOUS
<1>1. PICK opts \in [Conn -> Option] :
          client = [c \in Conn |->
                [opts |-> opts[c], at |-> "idle", kind |-> "simple", sid |-> 0, tries |-> 0,
                 window |-> FALSE, size |-> "default", adopted |-> {},
                 recorded |-> FALSE]]
  BY DEF Init
<1>2. /\ server = [c \in Conn |->
                   [at |-> "listening", kind |-> "simple", next |-> 1, sid |-> 0,
                    role |-> "none", reset |-> FALSE, buffer |-> FALSE,
                    size |-> "default", recorded |-> FALSE, changes |-> {},
                    verdict |-> "none"]]
      /\ up = [c \in Conn |-> [msgs |-> <<>>, closed |-> FALSE]]
      /\ down = [c \in Conn |-> [msgs |-> <<>>, closed |-> FALSE]]
      /\ api \in Apis
  BY DEF Init
<1>3. TypeOK
  <2>1. 0 \in 0 .. Larger(PublishTries, PlayTries)
    BY SetupConstants DEF Larger
  <2>2. client \in [Conn -> ClientState]
    BY <1>1, <2>1 DEF ClientState, Sizes
  <2>3. server \in [Conn -> ServerState]
    BY <1>2 DEF ServerState, Sizes
  <2>4. up \in [Conn -> Pipe] /\ down \in [Conn -> Pipe]
    BY <1>2 DEF Pipe
  <2> QED BY <1>2, <2>2, <2>3, <2>4 DEF TypeOK
<1>4. ASSUME NEW c \in Conn PROVE Good(client[c], server[c], up[c], down[c])
  <2>1. /\ client[c].at = "idle" /\ client[c].tries = 0 /\ ~client[c].recorded
        /\ server[c].at = "listening" /\ server[c].next = 1 /\ ~server[c].buffer
        /\ server[c].verdict = "none" /\ ~server[c].recorded
        /\ up[c].msgs = <<>> /\ up[c].closed = FALSE
        /\ down[c].msgs = <<>> /\ down[c].closed = FALSE
    BY <1>1, <1>2
  <2>2. ClientGood(client[c], server[c])
    BY <2>1 DEF ClientGood
  <2>3. ServerGood(client[c], server[c])
    BY <2>1 DEF ServerGood, Answering
  <2>4. PipesGood(client[c], server[c], up[c], down[c])
    BY <2>1 DEF PipesGood
  <2> QED BY <2>1, <2>2, <2>3, <2>4, NothingUp, NothingDown DEF Good
<1> QED BY <1>3, <1>4 DEF IInv

\* The steps of the client.
LEMMA StepDial ==
    ASSUME IInv, NEW c \in Conn, Dial(c)
    PROVE  IInv'
<1>1. PICK k \in {"C0C1 digest", "C0C1"} : up' = [up EXCEPT ![c].msgs = <<Msg(k)>>]
  BY DEF Dial
<1> DEFINE cl2 == [client[c] EXCEPT !.at = "handshake"]
           u2 == [up[c] EXCEPT !.msgs = <<Msg(k)>>]
<1>2. u2 \in Pipe /\ u2.closed = up[c].closed
      /\ \A i \in 1 .. Len(u2.msgs) : u2.msgs[i].kind \in {"C0C1", "C0C1 digest"}
  <2>1. Msg(k) \in Message /\ Msg(k).kind = k
    <3>1. k \in Kinds /\ 0 \in Nat
      BY DEF Kinds
    <3> QED BY <3>1, MessageTyped
  <2>2. up[c] \in Pipe
    BY OfConnection
  <2>3. u2.msgs = <<Msg(k)>> /\ u2.closed = up[c].closed /\ u2 \in Pipe
    BY <2>1, <2>2, OneMessage DEF Pipe
  <2>4. \A i \in 1 .. Len(<<Msg(k)>>) : <<Msg(k)>>[i].kind = k
    BY <2>1, OneMessage
  <2> HIDE DEF u2
  <2> QED BY <2>3, <2>4
<1>3. /\ cl2 \in ClientState /\ cl2.at = "handshake" /\ cl2.opts = client[c].opts
      /\ cl2.tries = client[c].tries /\ cl2.recorded = client[c].recorded
  BY OfConnection DEF ClientState
<1>4. Good(cl2, server[c], u2, down[c])
  <2> HIDE DEF cl2, u2
  <2> QED BY <1>2, <1>3, OfConnection, DialGood DEF Dial
<1>5. /\ client' = [client EXCEPT ![c] = cl2] /\ server' = [server EXCEPT ![c] = server[c]]
      /\ up' = [up EXCEPT ![c] = u2] /\ down' = [down EXCEPT ![c] = down[c]] /\ api' = api
  BY <1>1, OfConnection DEF Dial
<1> HIDE DEF cl2, u2
<1> QED BY <1>2, <1>3, <1>4, <1>5, OfConnection, OneConnection

LEMMA StepClientHandshake ==
    ASSUME IInv, NEW c \in Conn, ClientHandshake(c)
    PROVE  IInv'
<1> DEFINE out == <<Msg("C2"), Msg("SetChunkSize"), Tx("connect", 1)>>
           digest == NextDown(c).kind = "S0S1S2 digest"
           cl2 == [client[c] EXCEPT !.at = "connect",
                                    !.kind = IF digest THEN "digest" ELSE "simple"]
<1>1. out \in Seq(Message) /\ Len(out) = 3 /\ out[1].kind = "C2"
      /\ out[2].kind = "SetChunkSize" /\ out[3].kind = "connect" /\ out[3].tx = 1
  <2>1. {"C2", "SetChunkSize", "connect"} \subseteq Kinds
    BY DEF Kinds
  <2>2. /\ Msg("C2") \in Message /\ Msg("SetChunkSize") \in Message
        /\ Tx("connect", 1) \in Message
    BY <2>1, MessageTyped
  <2>3. /\ Msg("C2").kind = "C2" /\ Msg("SetChunkSize").kind = "SetChunkSize"
        /\ Tx("connect", 1).kind = "connect" /\ Tx("connect", 1).tx = 1
    BY DEF Msg, Tx
  <2> QED BY <2>2, <2>3
<1>2. down[c].msgs # <<>> /\ NextDown(c) = down[c].msgs[1]
  BY NextIsFirst DEF ClientHandshake
<1>3. /\ cl2 \in ClientState /\ cl2.at = "connect" /\ cl2.opts = client[c].opts
      /\ cl2.kind = (IF digest THEN "digest" ELSE "simple")
      /\ cl2.tries = client[c].tries /\ cl2.recorded = client[c].recorded
      /\ cl2.window = client[c].window /\ cl2.size = client[c].size
  BY OfConnection DEF ClientState
<1>4. /\ client' = [client EXCEPT ![c] = cl2] /\ server' = [server EXCEPT ![c] = server[c]]
      /\ api' = api /\ ClientReads(c, out)
      /\ client[c].at = "handshake" /\ NextDown(c).kind \in {"S0S1S2", "S0S1S2 digest"}
  BY OfConnection DEF ClientHandshake
<1> HIDE DEF out, cl2
<1>5. PICK u2, d2 \in Pipe :
          /\ up' = [up EXCEPT ![c] = u2] /\ down' = [down EXCEPT ![c] = d2]
          /\ Reads(down[c], up[c], d2, u2, out)
  BY <1>1, <1>2, <1>4, OfConnection, ClientReadsOne
<1>6. Good(cl2, server[c], u2, d2)
  <2>1. /\ client[c] \in ClientState /\ server[c] \in ServerState /\ up[c] \in Pipe
        /\ down[c] \in Pipe /\ Good(client[c], server[c], up[c], down[c])
    BY OfConnection
  <2>2. cl2.kind = IF down[c].msgs[1].kind = "S0S1S2 digest" THEN "digest" ELSE "simple"
    BY <1>2, <1>3
  <2> HIDE DEF digest
  <2> QED BY <1>1, <1>2, <1>3, <1>4, <1>5, <2>1, <2>2, HandshakeGood
<1> QED BY <1>3, <1>4, <1>5, <1>6, OfConnection, OneConnection

\* Messages in a row, and what the last of two follows.
LEMMA MessagesInARow ==
    ASSUME NEW m \in Message, NEW n \in Message
    PROVE  /\ <<>> \in Seq(Message) /\ <<m>> \in Seq(Message) /\ <<m, n>> \in Seq(Message)
           /\ Len(<<m, n>>) = 2 /\ <<m, n>>[1] = m /\ <<m, n>>[2] = n
OBVIOUS

LEMMA NothingThenOne ==
    ASSUME NEW m \in Message
    PROVE  <<>> \o <<m>> = <<m>>
BY OneMessage, ConcatEmptySeq

LEMMA OneThenOne ==
    ASSUME NEW m \in Message, NEW n \in Message
    PROVE  /\ <<m>> \o <<n>> \in Seq(Message) /\ Len(<<m>> \o <<n>>) = 2
           /\ (<<m>> \o <<n>>)[1] = m /\ (<<m>> \o <<n>>)[2] = n
OBVIOUS

LEMMA TwoThenOne ==
    ASSUME NEW m \in Message, NEW n \in Message, NEW o \in Message
    PROVE  /\ <<m, n>> \o <<o>> \in Seq(Message) /\ Len(<<m, n>> \o <<o>>) = 3
           /\ (<<m, n>> \o <<o>>)[1] = m /\ (<<m, n>> \o <<o>>)[2] = n
           /\ (<<m, n>> \o <<o>>)[3] = o
OBVIOUS

LEMMA ChangeOf ==
    ASSUME NEW k
    PROVE  Change(k) \subseteq Changeable
BY DEF Change, Changeable

LEMMA AppliedTyped ==
    ASSUME NEW s \in ClientState, NEW k
    PROVE  Applied(s, k) \in ClientState
<1>1. s.adopted \cup Change(k) \in SUBSET Changeable
  BY ChangeOf DEF ClientState
<1> QED BY <1>1 DEF Applied, ClientState, Sizes

LEMMA AppliedKeeps ==
    ASSUME NEW s \in ClientState, NEW k
    PROVE  LET a == Applied(s, k) IN
           /\ a.at = s.at /\ a.opts = s.opts /\ a.kind = s.kind /\ a.sid = s.sid
           /\ a.tries = s.tries /\ a.recorded = s.recorded
           /\ a.adopted = s.adopted \cup Change(k)
           /\ s.window => a.window
           /\ s.size = "announced" => a.size = "announced"
BY DEF Applied, ClientState

LEMMA StepClientWaitsForResult ==
    ASSUME IInv, NEW c \in Conn, ClientWaitsForResult(c)
    PROVE  IInv'
<1> DEFINE cl2 == Applied(client[c], NextDown(c).kind)
<1>1. down[c].msgs # <<>> /\ NextDown(c) = down[c].msgs[1]
  BY NextIsFirst DEF ClientWaitsForResult
<1>2. cl2 \in ClientState
  BY OfConnection, AppliedTyped
<1>3. /\ client' = [client EXCEPT ![c] = cl2] /\ server' = [server EXCEPT ![c] = server[c]]
      /\ api' = api /\ ClientReads(c, <<>>) /\ client[c].at \in {"connect", "create"}
  BY OfConnection DEF ClientWaitsForResult
<1>4. <<>> \in Seq(Message)
  OBVIOUS
<1>5. PICK u2, d2 \in Pipe :
          /\ up' = [up EXCEPT ![c] = u2] /\ down' = [down EXCEPT ![c] = d2]
          /\ Reads(down[c], up[c], d2, u2, <<>>)
  BY <1>1, <1>3, <1>4, OfConnection, ClientReadsOne
<1>6. cl2 = Applied(client[c], down[c].msgs[1].kind)
  BY <1>1
<1> HIDE DEF cl2
<1>7. Good(cl2, server[c], u2, d2)
  BY <1>1, <1>2, <1>3, <1>5, <1>6, OfConnection, WaitsForResultGood
<1> QED BY <1>2, <1>3, <1>5, <1>7, OfConnection, OneConnection

\* What the client writes when it is connected.
LEMMA CreateCommands ==
    ASSUME IInv, NEW c \in Conn, NEW out,
           out = (IF IsPlayer(c) THEN <<>>
                  ELSE <<Tx("releaseStream", 2), Tx("FCPublish", 3)>>)
                 \o <<Tx("createStream", CreateTx(c))>>
    PROVE  /\ out \in Seq(Message)
           /\ \A i \in 1 .. Len(out) :
                 /\ out[i].kind \in {"releaseStream", "FCPublish", "createStream"}
                 /\ out[i].kind = "createStream" => i = Len(out)
                 /\ out[i].kind # "createStream" => out[i].tx # Creates(client[c])
<1>1. CreateTx(c) = Creates(client[c]) /\ CreateTx(c) \in Nat
  BY DEF CreateTx, Creates, IsPlayer, Plays
<1>2. {"releaseStream", "FCPublish", "createStream"} \subseteq Kinds
  BY DEF Kinds
<1>3. /\ Tx("createStream", CreateTx(c)) \in Message
      /\ Tx("createStream", CreateTx(c)).kind = "createStream"
  BY <1>1, <1>2, MessageTyped
<1>4. CASE IsPlayer(c)
  <2>1. out = <<Tx("createStream", CreateTx(c))>>
    BY <1>3, <1>4, NothingThenOne
  <2>2. /\ out \in Seq(Message) /\ Len(out) = 1
        /\ \A i \in 1 .. Len(out) : out[i] = Tx("createStream", CreateTx(c))
    BY <1>3, <2>1, OneMessage
  <2>3. \A i \in 1 .. Len(out) : i = Len(out)
    BY <2>2
  <2> QED BY <1>3, <2>2, <2>3
<1>5. CASE ~IsPlayer(c)
  <2>1. /\ Tx("releaseStream", 2) \in Message /\ Tx("FCPublish", 3) \in Message
        /\ Tx("releaseStream", 2).kind = "releaseStream" /\ Tx("releaseStream", 2).tx = 2
        /\ Tx("FCPublish", 3).kind = "FCPublish" /\ Tx("FCPublish", 3).tx = 3
    BY <1>2, MessageTyped
  <2>2. out = <<Tx("releaseStream", 2), Tx("FCPublish", 3)>> \o <<Tx("createStream", CreateTx(c))>>
    BY <1>5
  <2>3. /\ out \in Seq(Message) /\ Len(out) = 3 /\ out[1] = Tx("releaseStream", 2)
        /\ out[2] = Tx("FCPublish", 3) /\ out[3] = Tx("createStream", CreateTx(c))
    BY <1>3, <2>1, <2>2, TwoThenOne
  <2>4. Creates(client[c]) = 4
    BY <1>5 DEF Creates, IsPlayer, Plays
  <2>5. \A i \in 1 .. Len(out) : i = 1 \/ i = 2 \/ i = 3
    BY <2>3, ThreeMessages
  <2> HIDE DEF Message
  <2> QED BY <1>3, <2>1, <2>3, <2>4, <2>5
<1> QED BY <1>4, <1>5

LEMMA StepClientConnected ==
    ASSUME IInv, NEW c \in Conn, ClientConnected(c)
    PROVE  IInv'
<1> DEFINE out == (IF IsPlayer(c) THEN <<>>
                   ELSE <<Tx("releaseStream", 2), Tx("FCPublish", 3)>>)
                  \o <<Tx("createStream", CreateTx(c))>>
           cl2 == [client[c] EXCEPT !.at = "create"]
<1>1. down[c].msgs # <<>> /\ down[c].msgs[1].kind = "_result"
  BY NextIsFirst DEF ClientConnected
<1>2. /\ cl2 \in ClientState /\ cl2.at = "create" /\ cl2.opts = client[c].opts
      /\ cl2.kind = client[c].kind
      /\ cl2.tries = client[c].tries /\ cl2.recorded = client[c].recorded
      /\ cl2.window = client[c].window /\ cl2.size = client[c].size
  BY OfConnection DEF ClientState
<1>3. /\ client' = [client EXCEPT ![c] = cl2] /\ server' = [server EXCEPT ![c] = server[c]]
      /\ api' = api /\ ClientReads(c, out) /\ client[c].at = "connect"
  BY OfConnection DEF ClientConnected
<1>4. /\ out \in Seq(Message)
      /\ \A i \in 1 .. Len(out) :
            /\ out[i].kind \in {"releaseStream", "FCPublish", "createStream"}
            /\ out[i].kind = "createStream" => i = Len(out)
            /\ out[i].kind # "createStream" => out[i].tx # Creates(client[c])
  BY CreateCommands
<1> HIDE DEF out, cl2
<1>5. PICK u2, d2 \in Pipe :
          /\ up' = [up EXCEPT ![c] = u2] /\ down' = [down EXCEPT ![c] = d2]
          /\ Reads(down[c], up[c], d2, u2, out)
  BY <1>1, <1>3, <1>4, OfConnection, ClientReadsOne
<1>6. Good(cl2, server[c], u2, d2)
  <2>1. /\ client[c] \in ClientState /\ server[c] \in ServerState /\ up[c] \in Pipe
        /\ down[c] \in Pipe /\ Good(client[c], server[c], up[c], down[c])
    BY OfConnection
  <2> QED BY <1>1, <1>2, <1>3, <1>4, <1>5, <2>1, ConnectedGood, SMTT(30)
<1> QED BY <1>2, <1>3, <1>5, <1>6, OfConnection, OneConnection

\* What the client writes when it has a stream id.
LEMMA AnnouncementIs ==
    ASSUME IInv, NEW c \in Conn, NEW sid \in Nat, NEW out, out = Announcement(c, sid)
    PROVE  /\ out \in Seq(Message)
           /\ \A i \in 1 .. Len(out) :
                 /\ out[i].kind \in Requests \cup {"SetBufferLength"}
                 /\ out[i].kind = "SetBufferLength" => Plays(client[c]) /\ client[c].opts.buffer
                 /\ out[i].kind \in Requests =>
                       /\ Plays(client[c]) = (out[i].kind # "publish")
                       /\ out[i].sid = sid
                       /\ Plays(client[c]) /\ client[c].opts.buffer =>
                             Led(out, i, {"SetBufferLength"})
<1> DEFINE publish == [kind |-> "publish", tx |-> 5, sid |-> sid]
           length == OnStream("SetBufferLength", sid)
<1>1. PICK play : play = OnStream(IF client[c].opts.reset THEN "play reset" ELSE "play", sid)
  OBVIOUS
<1>2. publish \in Message /\ publish.kind = "publish" /\ publish.sid = sid
  BY DEF Message, Kinds
<1>3. length \in Message /\ length.kind = "SetBufferLength"
  <2>1. "SetBufferLength" \in Kinds
    BY DEF Kinds
  <2> QED BY <2>1, MessageTyped
<1>4. play \in Message /\ play.kind \in {"play", "play reset"} /\ play.sid = sid
  <2>1. "play" \in Kinds /\ "play reset" \in Kinds
    BY DEF Kinds
  <2>2. OnStream("play", sid) \in Message /\ OnStream("play reset", sid) \in Message
    BY <2>1, MessageTyped
  <2>3. /\ OnStream("play", sid).kind = "play" /\ OnStream("play", sid).sid = sid
        /\ OnStream("play reset", sid).kind = "play reset" /\ OnStream("play reset", sid).sid = sid
    BY DEF OnStream
  <2> QED BY <1>1, <2>2, <2>3
<1>5. length \in Message /\ play \in Message
  BY <1>3, <1>4
<1>6. IsPlayer(c) = Plays(client[c]) /\ Plays(client[c]) \in BOOLEAN
  BY DEF IsPlayer, Plays
<1>7. CASE ~Plays(client[c])
  <2>1. out = <<publish>>
    BY <1>6, <1>7 DEF Announcement
  <2> HIDE DEF publish
  <2>2. out \in Seq(Message) /\ \A i \in 1 .. Len(out) : out[i] = publish
    BY <1>2, <2>1, OneMessage
  <2> QED BY <1>2, <1>6, <1>7, <2>2 DEF Requests
<1>8. CASE Plays(client[c]) /\ ~client[c].opts.buffer
  <2>1. out = <<>> \o <<play>>
    BY <1>1, <1>6, <1>8 DEF Announcement
  <2>2. out = <<play>>
    BY <1>4, <2>1, NothingThenOne
  <2>3. out \in Seq(Message) /\ \A i \in 1 .. Len(out) : out[i] = play
    BY <1>5, <2>2, OneMessage
  <2> QED BY <1>4, <1>6, <1>8, <2>3 DEF Requests
<1>9. CASE Plays(client[c]) /\ client[c].opts.buffer
  <2>1. out = <<length>> \o <<play>>
    BY <1>1, <1>6, <1>9 DEF Announcement
  <2> HIDE DEF length
  <2>2. out \in Seq(Message) /\ Len(out) = 2 /\ out[1] = length /\ out[2] = play
    BY <1>5, <2>1, OneThenOne
  <2>3. \A i \in 1 .. Len(out) : i = 1 \/ i = 2
    BY <2>2, TwoMessages
  <2>4. Led(out, 2, {"SetBufferLength"})
    BY <1>3, <2>2, TwoMessages
  <2> HIDE DEF Message
  <2> QED BY <1>3, <1>4, <1>6, <1>9, <2>2, <2>3, <2>4 DEF Requests
<1> QED BY <1>7, <1>8, <1>9

LEMMA StepClientCreated ==
    ASSUME IInv, NEW c \in Conn, ClientCreated(c)
    PROVE  IInv'
<1> DEFINE sid == NextDown(c).sid
           out == Announcement(c, sid)
           cl2 == [client[c] EXCEPT !.at = "start", !.sid = sid]
<1>1. /\ down[c].msgs # <<>> /\ NextDown(c) = down[c].msgs[1] /\ sid \in Nat
      /\ down[c].msgs[1].kind = "_result" /\ down[c].msgs[1].tx = Creates(client[c])
  <2>1. down[c].msgs # <<>>
    BY NextIsFirst DEF ClientCreated
  <2>2. NextDown(c) = down[c].msgs[1] /\ NextDown(c).sid \in Nat
    BY <2>1, NextIsFirst DEF Message
  <2>3. CreateTx(c) = Creates(client[c])
    BY DEF CreateTx, Creates, IsPlayer, Plays
  <2> QED BY <2>1, <2>2, <2>3 DEF ClientCreated
<1>2. /\ cl2 \in ClientState /\ cl2.at = "start" /\ cl2.opts = client[c].opts
      /\ cl2.kind = client[c].kind /\ cl2.sid = down[c].msgs[1].sid
      /\ cl2.tries = client[c].tries /\ cl2.recorded = client[c].recorded
      /\ cl2.window = client[c].window /\ cl2.size = client[c].size
  <2>1. sid \in Nat /\ sid = down[c].msgs[1].sid
    BY <1>1
  <2>2. client[c] \in ClientState
    BY OfConnection
  <2> HIDE DEF sid
  <2> QED BY <2>1, <2>2 DEF ClientState
<1>3. /\ client' = [client EXCEPT ![c] = cl2] /\ server' = [server EXCEPT ![c] = server[c]]
      /\ api' = api /\ ClientReads(c, out) /\ client[c].at = "create"
  BY OfConnection DEF ClientCreated
<1> HIDE DEF out
<1>4. /\ out \in Seq(Message)
      /\ \A i \in 1 .. Len(out) :
            /\ out[i].kind \in Requests \cup {"SetBufferLength"}
            /\ out[i].kind = "SetBufferLength" => Plays(client[c]) /\ client[c].opts.buffer
            /\ out[i].kind \in Requests =>
                  /\ Plays(client[c]) = (out[i].kind # "publish")
                  /\ out[i].sid = cl2.sid
                  /\ Plays(client[c]) /\ client[c].opts.buffer => Led(out, i, {"SetBufferLength"})
  <2>1. cl2.sid = sid /\ out = Announcement(c, sid)
    BY <1>1, <1>2 DEF out
  <2> HIDE DEF cl2, sid
  <2> QED BY <1>1, <2>1, AnnouncementIs
<1> HIDE DEF cl2, sid
<1>5. PICK u2, d2 \in Pipe :
          /\ up' = [up EXCEPT ![c] = u2] /\ down' = [down EXCEPT ![c] = d2]
          /\ Reads(down[c], up[c], d2, u2, out)
  BY <1>1, <1>3, <1>4, OfConnection, ClientReadsOne
<1>6. Good(cl2, server[c], u2, d2)
  <2>1. /\ client[c] \in ClientState /\ server[c] \in ServerState /\ up[c] \in Pipe
        /\ down[c] \in Pipe /\ Good(client[c], server[c], up[c], down[c])
    BY OfConnection
  <2> QED BY <1>1, <1>2, <1>3, <1>4, <1>5, <2>1, CreatedGood, ZenonT(40)
<1> QED BY <1>2, <1>3, <1>5, <1>6, OfConnection, OneConnection

\* The loops that wait for a status count no further than their bounds.
LEMMA TriesTyped ==
    ASSUME NEW cl \in ClientState, cl.tries < Turns(cl)
    PROVE  cl.tries + 1 \in 0 .. Larger(PublishTries, PlayTries)
BY SetupConstants DEF ClientState, Turns, Larger

LEMMA StepClientWaitsForPublishStart ==
    ASSUME IInv, NEW c \in Conn, ClientWaitsForPublishStart(c)
    PROVE  IInv'
<1>1. PICK at \in {"start", "live"} :
          /\ client' = [client EXCEPT ![c].tries = @ + 1, ![c].at = at]
          /\ at = "start" => client[c].tries + 1 # PublishTries
  BY DEF ClientWaitsForPublishStart
<1> DEFINE cl2 == [client[c] EXCEPT !.tries = @ + 1, !.at = at]
<1>2. down[c].msgs # <<>> /\ ~Plays(client[c]) /\ client[c].at = "start"
  BY NextIsFirst DEF ClientWaitsForPublishStart, Plays, IsPlayer
<1>3. client[c].tries < Turns(client[c]) /\ client[c].tries \in Nat
  BY <1>2, OfConnection DEF Good, ClientGood, ClientState
<1>4. /\ cl2 \in ClientState /\ cl2.at = at /\ cl2.opts = client[c].opts
      /\ cl2.kind = client[c].kind /\ cl2.sid = client[c].sid
      /\ cl2.tries = client[c].tries + 1 /\ cl2.recorded = client[c].recorded
      /\ cl2.window = client[c].window /\ cl2.size = client[c].size
  <2>1. client[c].tries + 1 \in 0 .. Larger(PublishTries, PlayTries)
    BY <1>3, OfConnection, TriesTyped
  <2> QED BY <2>1, OfConnection DEF ClientState
<1>5. cl2.at = "start" => cl2.tries < PublishTries
  <2>1. PublishTries \in Nat /\ client[c].tries < PublishTries
    BY <1>2, <1>3, SetupConstants DEF Turns
  <2> QED BY <1>1, <1>3, <1>4, <2>1
<1>6. /\ client' = [client EXCEPT ![c] = cl2] /\ server' = [server EXCEPT ![c] = server[c]]
      /\ api' = api /\ ClientReads(c, <<>>) /\ <<>> \in Seq(Message)
  <2>1. client' = [client EXCEPT ![c] = cl2]
    BY <1>1, OfConnection
  <2>2. server' = [server EXCEPT ![c] = server[c]]
    BY OfConnection DEF ClientWaitsForPublishStart
  <2> QED BY <2>1, <2>2, EmptySeq DEF ClientWaitsForPublishStart
<1> HIDE DEF cl2
<1>7. PICK u2, d2 \in Pipe :
          /\ up' = [up EXCEPT ![c] = u2] /\ down' = [down EXCEPT ![c] = d2]
          /\ Reads(down[c], up[c], d2, u2, <<>>)
  BY <1>2, <1>6, OfConnection, ClientReadsOne
<1>8. Good(cl2, server[c], u2, d2)
  <2>1. /\ client[c] \in ClientState /\ server[c] \in ServerState /\ up[c] \in Pipe
        /\ down[c] \in Pipe /\ Good(client[c], server[c], up[c], down[c])
    BY OfConnection
  <2> QED BY <1>2, <1>4, <1>5, <1>7, <2>1, WaitsForPublishStartGood
<1> QED BY <1>4, <1>6, <1>7, <1>8, OfConnection, OneConnection

LEMMA StepClientWaitsForPlayStart ==
    ASSUME IInv, NEW c \in Conn, ClientWaitsForPlayStart(c)
    PROVE  IInv'
<1> DEFINE kind == NextDown(c).kind
           out == IF kind = "PingRequest" THEN <<Msg("PingResponse")>> ELSE <<>>
           ap == Applied(client[c], kind)
           cl2 == [ap EXCEPT !.tries = @ + 1, !.recorded = @ \/ kind = "StreamIsRecorded",
                             !.at = IF kind = "Play.Start" THEN "live" ELSE @]
<1>1. /\ down[c].msgs # <<>> /\ Plays(client[c]) /\ client[c].at = "start"
      /\ kind = down[c].msgs[1].kind
  BY NextIsFirst DEF ClientWaitsForPlayStart, Plays, IsPlayer
<1>2. client[c].tries < Turns(client[c]) /\ client[c].tries \in Nat
  BY <1>1, OfConnection DEF Good, ClientGood, ClientState
<1>3. /\ ap \in ClientState /\ ap.at = "start" /\ ap.opts = client[c].opts
      /\ ap.kind = client[c].kind /\ ap.sid = client[c].sid
      /\ ap.tries = client[c].tries /\ ap.recorded = client[c].recorded
      /\ ap.window /\ ap.size = "announced"
  <2>1. client[c].window /\ client[c].size = "announced"
    BY <1>1, OfConnection DEF Good, ClientGood
  <2>2. client[c] \in ClientState
    BY OfConnection
  <2> QED BY <1>1, <2>1, <2>2, AppliedTyped, AppliedKeeps
<1>4. client' = [client EXCEPT ![c] = cl2]
  BY DEF ClientWaitsForPlayStart
<1> HIDE DEF ap, kind
<1>5. /\ cl2 \in ClientState /\ cl2.at = (IF kind = "Play.Start" THEN "live" ELSE "start")
      /\ cl2.opts = client[c].opts /\ cl2.kind = client[c].kind /\ cl2.sid = client[c].sid
      /\ cl2.tries = client[c].tries + 1
      /\ cl2.recorded = (client[c].recorded \/ kind = "StreamIsRecorded")
      /\ cl2.window /\ cl2.size = "announced"
  <2>1. client[c].tries + 1 \in 0 .. Larger(PublishTries, PlayTries)
    BY <1>2, OfConnection, TriesTyped
  <2> QED BY <1>3, <2>1 DEF ClientState
<1>6. cl2.at = "start" => cl2.tries < PlayTries
  <2>1. client[c].tries + 1 < PlayTries \/ kind = "Play.Start"
    BY DEF ClientWaitsForPlayStart, kind
  <2> QED BY <1>5, <2>1
<1>7. out \in Seq(Message) /\ \A i \in 1 .. Len(out) : out[i].kind = "PingResponse"
  <2>1. "PingResponse" \in Kinds
    BY DEF Kinds
  <2>2. Msg("PingResponse") \in Message /\ Msg("PingResponse").kind = "PingResponse"
    BY <2>1 DEF Msg, Message
  <2>3. CASE kind = "PingRequest"
    <3>1. out = <<Msg("PingResponse")>>
      BY <2>3
    <3>2. out \in Seq(Message) /\ \A i \in 1 .. Len(out) : out[i] = Msg("PingResponse")
      BY <2>2, <3>1, OneMessage
    <3> QED BY <2>2, <3>2
  <2>4. CASE kind # "PingRequest"
    BY <2>4
  <2> QED BY <2>3, <2>4
<1>8. /\ server' = [server EXCEPT ![c] = server[c]] /\ api' = api /\ ClientReads(c, out)
  BY OfConnection DEF ClientWaitsForPlayStart, kind
<1> HIDE DEF out, cl2
<1>9. PICK u2, d2 \in Pipe :
          /\ up' = [up EXCEPT ![c] = u2] /\ down' = [down EXCEPT ![c] = d2]
          /\ Reads(down[c], up[c], d2, u2, out)
  BY <1>1, <1>7, <1>8, OfConnection, ClientReadsOne
<1>10. Good(cl2, server[c], u2, d2)
  <2>1. /\ client[c] \in ClientState /\ server[c] \in ServerState /\ up[c] \in Pipe
        /\ down[c] \in Pipe /\ Good(client[c], server[c], up[c], down[c])
    BY OfConnection
  <2> QED BY <1>1, <1>5, <1>6, <1>7, <1>9, <2>1, WaitsForPlayStartGood, SMTT(30)
<1> QED BY <1>4, <1>5, <1>8, <1>9, <1>10, OfConnection, OneConnection

\* The client leaves: ClientRefused, ClientErrs, ClientDies and ClientHangs.
LEMMA ClientLeaves ==
    ASSUME IInv, NEW c \in Conn, NEW at \in {"refused", "failed", "hung"},
           client[c].at \in Inside, at = "refused" => client[c].at = "start",
           client' = [client EXCEPT ![c].at = at], UNCHANGED <<api, server>>,
           \/ ClientCloses(c)
           \/ /\ up' \in {[up EXCEPT ![c] = [msgs |-> m, closed |-> TRUE]] : m \in Some(up[c].msgs)}
              /\ down' = [down EXCEPT ![c].msgs = <<>>]
           \/ UNCHANGED <<up, down>>
    PROVE  IInv'
<1> DEFINE cl2 == [client[c] EXCEPT !.at = at]
<1>1. /\ cl2 \in ClientState /\ cl2.at = at /\ cl2.opts = client[c].opts
      /\ cl2.kind = client[c].kind /\ cl2.sid = client[c].sid
      /\ cl2.recorded = client[c].recorded
  BY OfConnection DEF ClientState
<1>2. /\ client' = [client EXCEPT ![c] = cl2] /\ server' = [server EXCEPT ![c] = server[c]]
      /\ api' = api
  BY OfConnection
<1> HIDE DEF cl2
<1>3. up[c] \in Pipe /\ up[c].msgs \in Seq(Message) /\ Len(up[c].msgs) \in Nat /\ down[c] \in Pipe
  BY OfConnection, LenProperties DEF Pipe
<1>4. \E u2, d2 \in Pipe :
          /\ up' = [up EXCEPT ![c] = u2] /\ down' = [down EXCEPT ![c] = d2]
          /\ Len(u2.msgs) <= Len(up[c].msgs)
          /\ \A i \in 1 .. Len(u2.msgs) : u2.msgs[i] = up[c].msgs[i]
          /\ d2.closed = down[c].closed /\ (d2.msgs = down[c].msgs \/ d2.msgs = <<>>)
  <2> DEFINE d2 == [down[c] EXCEPT !.msgs = <<>>]
  <2>1. d2 \in Pipe /\ d2.msgs = <<>> /\ d2.closed = down[c].closed
    <3>1. down[c] \in Pipe /\ <<>> \in Seq(Message)
      BY <1>3, EmptySeq
    <3> QED BY <3>1 DEF Pipe
  <2>2. CASE UNCHANGED <<up, down>>
    <3>1. up' = [up EXCEPT ![c] = up[c]] /\ down' = [down EXCEPT ![c] = down[c]]
      BY <2>2, OfConnection
    <3>2. Len(up[c].msgs) <= Len(up[c].msgs)
      BY <1>3
    <3> QED BY <1>3, <3>1, <3>2
  <2>3. ASSUME NEW m, m = up[c].msgs \/ m \in Some(up[c].msgs),
               up' = [up EXCEPT ![c] = [msgs |-> m, closed |-> TRUE]],
               down' = [down EXCEPT ![c].msgs = <<>>]
        PROVE  \E u2, e2 \in Pipe :
                  /\ up' = [up EXCEPT ![c] = u2] /\ down' = [down EXCEPT ![c] = e2]
                  /\ Len(u2.msgs) <= Len(up[c].msgs)
                  /\ \A i \in 1 .. Len(u2.msgs) : u2.msgs[i] = up[c].msgs[i]
                  /\ e2.closed = down[c].closed /\ (e2.msgs = down[c].msgs \/ e2.msgs = <<>>)
    <3> DEFINE u2 == [msgs |-> m, closed |-> TRUE]
    <3>1. m \in Seq(Message) /\ Len(m) <= Len(up[c].msgs)
          /\ \A i \in 1 .. Len(m) : m[i] = up[c].msgs[i]
      BY <1>3, <2>3, SomeOf
    <3>2. u2 \in Pipe /\ u2.msgs = m
      BY <3>1 DEF Pipe
    <3>3. up' = [up EXCEPT ![c] = u2] /\ down' = [down EXCEPT ![c] = d2]
      BY <2>3, OfConnection
    <3> HIDE DEF u2, d2
    <3> QED BY <2>1, <3>1, <3>2, <3>3
  <2>4. CASE ~ UNCHANGED <<up, down>>
    <3>1. PICK m : /\ m = up[c].msgs \/ m \in Some(up[c].msgs)
                   /\ up' = [up EXCEPT ![c] = [msgs |-> m, closed |-> TRUE]]
                   /\ down' = [down EXCEPT ![c].msgs = <<>>]
      BY <2>4 DEF ClientCloses
    <3> QED BY <2>3, <3>1
  <2> QED BY <2>2, <2>4
<1>5. PICK u2, d2 \in Pipe :
          /\ up' = [up EXCEPT ![c] = u2] /\ down' = [down EXCEPT ![c] = d2]
          /\ Len(u2.msgs) <= Len(up[c].msgs)
          /\ \A i \in 1 .. Len(u2.msgs) : u2.msgs[i] = up[c].msgs[i]
          /\ d2.closed = down[c].closed /\ (d2.msgs = down[c].msgs \/ d2.msgs = <<>>)
  BY <1>4
<1>6. Good(cl2, server[c], u2, d2)
  <2>1. /\ client[c] \in ClientState /\ server[c] \in ServerState /\ up[c] \in Pipe
        /\ down[c] \in Pipe /\ Good(client[c], server[c], up[c], down[c])
    BY OfConnection
  <2> QED BY <1>1, <1>5, <2>1, ClientLeavesGood, SMTT(30)
<1> QED BY <1>1, <1>2, <1>5, <1>6, OfConnection, OneConnection

LEMMA StepClientLeaves ==
    ASSUME IInv, NEW c \in Conn,
           ClientRefused(c) \/ ClientErrs(c) \/ ClientDies(c) \/ ClientHangs(c)
    PROVE  IInv'
<1>1. CASE ClientRefused(c)
  BY <1>1, ClientLeaves DEF ClientRefused, Inside
<1>2. CASE ClientErrs(c)
  BY <1>2, ClientLeaves DEF ClientErrs
<1>3. CASE ClientDies(c)
  BY <1>3, ClientLeaves DEF ClientDies
<1>4. CASE ClientHangs(c)
  BY <1>4, ClientLeaves DEF ClientHangs
<1> QED BY <1>1, <1>2, <1>3, <1>4

LEMMA StepForeignClient ==
    ASSUME IInv, NEW c \in Conn, ForeignClient(c)
    PROVE  IInv'
<1> DEFINE out == <<Msg("C2"), Tx("createStream", 1)>>
           cl2 == [client[c] EXCEPT !.at = "hung"]
<1>1. out \in Seq(Message) /\ \A i \in 1 .. Len(out) : out[i].kind \in {"C2", "createStream"}
  <2>1. {"C2", "createStream"} \subseteq Kinds
    BY DEF Kinds
  <2>2. Msg("C2") \in Message /\ Tx("createStream", 1) \in Message
    BY <2>1, MessageTyped
  <2>3. Msg("C2").kind = "C2" /\ Tx("createStream", 1).kind = "createStream"
    BY DEF Msg, Tx
  <2>4. /\ out \in Seq(Message) /\ Len(out) = 2
        /\ out[1] = Msg("C2") /\ out[2] = Tx("createStream", 1)
    BY <2>2, MessagesInARow
  <2> HIDE DEF out
  <2>5. \A i \in 1 .. Len(out) : i = 1 \/ i = 2
    BY <2>4, TwoMessages
  <2> QED BY <2>3, <2>4, <2>5
<1>2. down[c].msgs # <<>> /\ down[c].msgs[1].kind = "S0S1S2"
  BY NextIsFirst DEF ForeignClient
<1>3. /\ cl2 \in ClientState /\ cl2.at = "hung" /\ cl2.opts = client[c].opts
      /\ cl2.recorded = client[c].recorded
  BY OfConnection DEF ClientState
<1>4. /\ client' = [client EXCEPT ![c] = cl2] /\ server' = [server EXCEPT ![c] = server[c]]
      /\ api' = api /\ ClientReads(c, out) /\ client[c].at = "handshake"
  BY OfConnection DEF ForeignClient
<1> HIDE DEF out, cl2
<1>5. PICK u2, d2 \in Pipe :
          /\ up' = [up EXCEPT ![c] = u2] /\ down' = [down EXCEPT ![c] = d2]
          /\ Reads(down[c], up[c], d2, u2, out)
  BY <1>1, <1>2, <1>4, OfConnection, ClientReadsOne
<1>6. Good(cl2, server[c], u2, d2)
  <2>1. /\ client[c] \in ClientState /\ server[c] \in ServerState /\ up[c] \in Pipe
        /\ down[c] \in Pipe /\ Good(client[c], server[c], up[c], down[c])
    BY OfConnection
  <2> QED BY <1>1, <1>2, <1>3, <1>4, <1>5, <2>1, ForeignClientGood
<1> QED BY <1>3, <1>4, <1>5, <1>6, OfConnection, OneConnection

\* The steps of the server.
LEMMA StepAccept ==
    ASSUME IInv, NEW c \in Conn, Accept(c)
    PROVE  IInv'
<1> DEFINE sv2 == [server[c] EXCEPT !.at = "c0c1"]
<1>1. sv2 \in ServerState
  BY OfConnection DEF ServerState
<1>2. Good(client[c], sv2, up[c], down[c])
  BY <1>1, OfConnection, AcceptGood DEF Accept
<1>3. /\ client' = [client EXCEPT ![c] = client[c]] /\ server' = [server EXCEPT ![c] = sv2]
      /\ up' = [up EXCEPT ![c] = up[c]] /\ down' = [down EXCEPT ![c] = down[c]] /\ api' = api
  BY OfConnection DEF Accept
<1> HIDE DEF sv2
<1> QED BY <1>1, <1>2, <1>3, OfConnection, OneConnection

LEMMA StepServerHandshake ==
    ASSUME IInv, NEW c \in Conn, ServerHandshake(c)
    PROVE  IInv'
<1> DEFINE digest == NextUp(c).kind = "C0C1 digest"
           m == Msg(IF digest THEN "S0S1S2 digest" ELSE "S0S1S2")
           out == <<m>>
           sv2 == [server[c] EXCEPT !.at = "c2", !.kind = IF digest THEN "digest" ELSE "simple"]
<1>1. /\ up[c].msgs # <<>> /\ NextUp(c) = up[c].msgs[1]
      /\ up[c].msgs[1].kind \in {"C0C1", "C0C1 digest"}
  BY NextIsFirst DEF ServerHandshake
<1>2. out \in Seq(Message) /\ \A i \in 1 .. Len(out) : out[i].kind =
          IF up[c].msgs[1].kind = "C0C1 digest" THEN "S0S1S2 digest" ELSE "S0S1S2"
  <2>1. {"S0S1S2", "S0S1S2 digest"} \subseteq Kinds
    BY DEF Kinds
  <2>2. m \in Message /\ m.kind = IF digest THEN "S0S1S2 digest" ELSE "S0S1S2"
    BY <2>1 DEF Msg, Message
  <2> HIDE DEF m
  <2>3. out \in Seq(Message) /\ \A i \in 1 .. Len(out) : out[i] = m
    BY <2>2, OneMessage
  <2> HIDE DEF out
  <2> QED BY <1>1, <2>2, <2>3
<1>3. /\ sv2 \in ServerState /\ sv2.at = "c2"
      /\ sv2.kind = (IF digest THEN "digest" ELSE "simple") /\ sv2.next = server[c].next
      /\ sv2.size = server[c].size /\ sv2.buffer = server[c].buffer
      /\ sv2.recorded = server[c].recorded /\ sv2.verdict = server[c].verdict
  BY OfConnection DEF ServerState
<1>4. /\ server' = [server EXCEPT ![c] = sv2] /\ client' = [client EXCEPT ![c] = client[c]]
      /\ api' = api /\ ServerReads(c, out) /\ server[c].at = "c0c1"
  BY OfConnection DEF ServerHandshake
<1> HIDE DEF out, m, sv2
<1>5. PICK u2, d2 \in Pipe :
          /\ up' = [up EXCEPT ![c] = u2] /\ down' = [down EXCEPT ![c] = d2]
          /\ Reads(up[c], down[c], u2, d2, out)
  BY <1>1, <1>2, <1>4, OfConnection, ServerReadsOne
<1>6. Good(client[c], sv2, u2, d2)
  <2>1. /\ client[c] \in ClientState /\ server[c] \in ServerState /\ up[c] \in Pipe
        /\ down[c] \in Pipe /\ Good(client[c], server[c], up[c], down[c])
    BY OfConnection
  <2>2. sv2.kind = IF up[c].msgs[1].kind = "C0C1 digest" THEN "digest" ELSE "simple"
    BY <1>1, <1>3
  <2> HIDE DEF digest
  <2> QED BY <1>1, <1>2, <1>3, <1>4, <1>5, <2>1, <2>2, ServerHandshakeGood
<1> QED BY <1>3, <1>4, <1>5, <1>6, OfConnection, OneConnection

LEMMA StepServerHandshakeDone ==
    ASSUME IInv, NEW c \in Conn, ServerHandshakeDone(c)
    PROVE  IInv'
<1> DEFINE sv2 == [server[c] EXCEPT !.at = "connect"]
<1>1. up[c].msgs # <<>> /\ up[c].msgs[1].kind = "C2"
  BY NextIsFirst DEF ServerHandshakeDone
<1>2. /\ sv2 \in ServerState /\ sv2.at = "connect"
      /\ sv2.kind = server[c].kind /\ sv2.next = server[c].next
      /\ sv2.size = server[c].size /\ sv2.buffer = server[c].buffer
      /\ sv2.recorded = server[c].recorded /\ sv2.verdict = server[c].verdict
  BY OfConnection DEF ServerState
<1>3. /\ server' = [server EXCEPT ![c] = sv2] /\ client' = [client EXCEPT ![c] = client[c]]
      /\ api' = api /\ ServerReads(c, <<>>) /\ server[c].at = "c2" /\ <<>> \in Seq(Message)
  BY OfConnection, EmptySeq DEF ServerHandshakeDone
<1> HIDE DEF sv2
<1>4. PICK u2, d2 \in Pipe :
          /\ up' = [up EXCEPT ![c] = u2] /\ down' = [down EXCEPT ![c] = d2]
          /\ Reads(up[c], down[c], u2, d2, <<>>)
  BY <1>1, <1>3, OfConnection, ServerReadsOne
<1>5. Good(client[c], sv2, u2, d2)
  <2>1. /\ client[c] \in ClientState /\ server[c] \in ServerState /\ up[c] \in Pipe
        /\ down[c] \in Pipe /\ Good(client[c], server[c], up[c], down[c])
    BY OfConnection
  <2> QED BY <1>1, <1>2, <1>3, <1>4, <2>1, ServerHandshakeDoneGood
<1> QED BY <1>2, <1>3, <1>4, <1>5, OfConnection, OneConnection

LEMMA StepServerApplies ==
    ASSUME IInv, NEW c \in Conn, ServerApplies(c)
    PROVE  IInv'
<1> DEFINE sv2 == [server[c] EXCEPT
                      !.size = IF NextUp(c).kind = "SetChunkSize" THEN "announced" ELSE @,
                      !.buffer = @ \/ (NextUp(c).kind = "SetBufferLength" /\ server[c].at = "setup")]
<1>1. /\ up[c].msgs # <<>> /\ NextUp(c) = up[c].msgs[1]
      /\ up[c].msgs[1].kind \in {"SetChunkSize", "SetBufferLength"}
  BY NextIsFirst DEF ServerApplies
<1>2. /\ sv2 \in ServerState /\ sv2.at = server[c].at
      /\ sv2.kind = server[c].kind /\ sv2.next = server[c].next
      /\ sv2.size = (IF up[c].msgs[1].kind = "SetChunkSize" THEN "announced" ELSE server[c].size)
      /\ sv2.buffer = (server[c].buffer
                       \/ (up[c].msgs[1].kind = "SetBufferLength" /\ server[c].at = "setup"))
      /\ sv2.recorded = server[c].recorded /\ sv2.verdict = server[c].verdict
  <2>1. server[c] \in ServerState
    BY OfConnection
  <2>2. /\ sv2 \in ServerState /\ sv2.at = server[c].at
        /\ sv2.kind = server[c].kind /\ sv2.next = server[c].next
        /\ sv2.size = (IF NextUp(c).kind = "SetChunkSize" THEN "announced" ELSE server[c].size)
        /\ sv2.recorded = server[c].recorded /\ sv2.verdict = server[c].verdict
    BY <2>1 DEF ServerState, Sizes
  <2>3. sv2.buffer = (server[c].buffer
                      \/ (NextUp(c).kind = "SetBufferLength" /\ server[c].at = "setup"))
    BY <2>1 DEF ServerState
  <2> HIDE DEF sv2
  <2> QED BY <1>1, <2>2, <2>3
<1>3. /\ server' = [server EXCEPT ![c] = sv2] /\ client' = [client EXCEPT ![c] = client[c]]
      /\ api' = api /\ ServerReads(c, <<>>) /\ server[c].at \in {"connect", "setup"}
      /\ <<>> \in Seq(Message)
  BY OfConnection, EmptySeq DEF ServerApplies
<1> HIDE DEF sv2
<1>4. PICK u2, d2 \in Pipe :
          /\ up' = [up EXCEPT ![c] = u2] /\ down' = [down EXCEPT ![c] = d2]
          /\ Reads(up[c], down[c], u2, d2, <<>>)
  BY <1>1, <1>3, OfConnection, ServerReadsOne
<1>5. Good(client[c], sv2, u2, d2)
  <2>1. /\ client[c] \in ClientState /\ server[c] \in ServerState /\ up[c] \in Pipe
        /\ down[c] \in Pipe /\ Good(client[c], server[c], up[c], down[c])
    BY OfConnection
  <2> QED BY <1>1, <1>2, <1>3, <1>4, <2>1, ServerAppliesGood
<1> QED BY <1>2, <1>3, <1>4, <1>5, OfConnection, OneConnection

LEMMA FiveMessages ==
    ASSUME NEW m \in Message, NEW n \in Message, NEW o \in Message,
           NEW p \in Message, NEW q \in Message
    PROVE  /\ <<m, n, o, p, q>> \in Seq(Message) /\ Len(<<m, n, o, p, q>>) = 5
           /\ \A i \in 1 .. 5 : i = 1 \/ i = 2 \/ i = 3 \/ i = 4 \/ i = 5
           /\ <<m, n, o, p, q>>[1] = m /\ <<m, n, o, p, q>>[2] = n
           /\ <<m, n, o, p, q>>[3] = o /\ <<m, n, o, p, q>>[4] = p
           /\ <<m, n, o, p, q>>[5] = q
OBVIOUS

LEMMA ConnectReplyIs ==
    ASSUME NEW t \in Nat, NEW out, out = ConnectReply(t)
    PROVE  out \in Seq(Message) /\ Greets(out, t)
<1>1. {"WindowAckSize", "SetPeerBandwidth", "StreamBegin", "SetChunkSize", "_result"} \subseteq Kinds
  BY DEF Kinds
<1>2. /\ Msg("WindowAckSize") \in Message /\ Msg("SetPeerBandwidth") \in Message
      /\ OnStream("StreamBegin", 0) \in Message /\ Msg("SetChunkSize") \in Message
  BY <1>1 DEF Msg, OnStream, Message
<1>3. Result(t, t) \in Message
  BY <1>1 DEF Result, Message
<1>4. /\ Msg("WindowAckSize").kind = "WindowAckSize"
      /\ Msg("SetPeerBandwidth").kind = "SetPeerBandwidth"
      /\ OnStream("StreamBegin", 0).kind = "StreamBegin"
      /\ Result(t, t).kind = "_result" /\ Result(t, t).tx = t
      /\ Msg("SetChunkSize").kind = "SetChunkSize"
  BY DEF Msg, OnStream, Result
<1>5. /\ out \in Seq(Message) /\ Len(out) = 5
      /\ \A i \in 1 .. 5 : i = 1 \/ i = 2 \/ i = 3 \/ i = 4 \/ i = 5
      /\ out[1] = Msg("WindowAckSize") /\ out[2] = Msg("SetPeerBandwidth")
      /\ out[3] = OnStream("StreamBegin", 0) /\ out[4] = Result(t, t)
      /\ out[5] = Msg("SetChunkSize")
  BY <1>2, <1>3, FiveMessages DEF ConnectReply
<1>6. 1 \in 1 .. Len(out) /\ 5 \in 1 .. Len(out)
  BY <1>5
<1>7. \A k \in 1 .. Len(out) :
         /\ out[k].kind \in {"WindowAckSize", "SetPeerBandwidth", "StreamBegin", "_result",
                             "SetChunkSize"}
         /\ out[k].kind = "_result" => out[k].tx = t
  BY <1>4, <1>5
<1> QED BY <1>4, <1>5, <1>6, <1>7 DEF Greets, WindowKinds, Refusals

LEMMA StepServerConnect ==
    ASSUME IInv, NEW c \in Conn, ServerConnect(c)
    PROVE  IInv'
<1> DEFINE t == NextUp(c).tx
           out == ConnectReply(t)
           sv2 == [server[c] EXCEPT !.at = "setup"]
<1>1. /\ up[c].msgs # <<>> /\ NextUp(c) = up[c].msgs[1] /\ up[c].msgs[1].kind = "connect"
      /\ t \in Nat
  <2>1. up[c].msgs # <<>>
    BY NextIsFirst DEF ServerConnect
  <2>2. NextUp(c) = up[c].msgs[1] /\ t \in Nat
    BY <2>1, NextIsFirst DEF Message
  <2> QED BY <2>1, <2>2 DEF ServerConnect
<1>2. /\ sv2 \in ServerState /\ sv2.at = "setup"
      /\ sv2.kind = server[c].kind /\ sv2.next = server[c].next
      /\ sv2.size = server[c].size /\ sv2.buffer = server[c].buffer
      /\ sv2.recorded = server[c].recorded /\ sv2.verdict = server[c].verdict
  BY OfConnection DEF ServerState
<1>3. /\ server' = [server EXCEPT ![c] = sv2] /\ client' = [client EXCEPT ![c] = client[c]]
      /\ api' = api /\ ServerReads(c, out) /\ server[c].at = "connect"
  BY OfConnection DEF ServerConnect
<1>4. t = up[c].msgs[1].tx
  BY <1>1
<1> HIDE DEF out, sv2, t
<1>5. out \in Seq(Message) /\ Greets(out, t)
  <2>1. t \in Nat /\ out = ConnectReply(t)
    BY <1>1 DEF out
  <2> QED BY <2>1, ConnectReplyIs
<1>6. PICK u2, d2 \in Pipe :
          /\ up' = [up EXCEPT ![c] = u2] /\ down' = [down EXCEPT ![c] = d2]
          /\ Reads(up[c], down[c], u2, d2, out)
  BY <1>1, <1>3, <1>5, OfConnection, ServerReadsOne
<1>7. Good(client[c], sv2, u2, d2)
  <2>1. /\ client[c] \in ClientState /\ server[c] \in ServerState /\ up[c] \in Pipe
        /\ down[c] \in Pipe /\ Good(client[c], server[c], up[c], down[c])
    BY OfConnection
  <2> QED BY <1>1, <1>2, <1>3, <1>4, <1>5, <1>6, <2>1, ServerConnectGood
<1> QED BY <1>2, <1>3, <1>6, <1>7, OfConnection, OneConnection

\* The answers to releaseStream, FCPublish and createStream.
LEMMA Answered ==
    ASSUME IInv, NEW c \in Conn, NEW m \in Message, NEW next \in Nat,
           server[c].at = "setup", ServerReads(c, <<m>>),
           NextUp(c).kind \in {"releaseStream", "FCPublish", "createStream"},
           m.kind \in {"_result", "_error"}, m.tx = NextUp(c).tx, next >= server[c].next,
           m.kind = "_result" /\ NextUp(c).kind = "createStream" =>
              m.sid = server[c].next /\ next = server[c].next + 1,
           server' = [server EXCEPT ![c].next = next], UNCHANGED <<api, client>>
    PROVE  IInv'
<1> DEFINE sv2 == [server[c] EXCEPT !.next = next]
<1>1. /\ up[c].msgs # <<>> /\ NextUp(c) = up[c].msgs[1]
  BY NextIsFirst
<1>2. /\ sv2 \in ServerState /\ sv2.at = "setup"
      /\ sv2.kind = server[c].kind /\ sv2.next = next
      /\ sv2.size = server[c].size /\ sv2.buffer = server[c].buffer
      /\ sv2.recorded = server[c].recorded /\ sv2.verdict = server[c].verdict
  BY OfConnection DEF ServerState
<1>3. /\ server' = [server EXCEPT ![c] = sv2] /\ client' = [client EXCEPT ![c] = client[c]]
      /\ api' = api
  BY OfConnection
<1> HIDE DEF sv2
<1>4. PICK out : out = <<m>>
  OBVIOUS
<1>5. out \in Seq(Message) /\ Len(out) = 1 /\ out[1] = m
  BY <1>4, OneMessage
<1>6. PICK u2, d2 \in Pipe :
          /\ up' = [up EXCEPT ![c] = u2] /\ down' = [down EXCEPT ![c] = d2]
          /\ Reads(up[c], down[c], u2, d2, out)
  BY <1>1, <1>4, <1>5, OfConnection, ServerReadsOne
<1>7. Good(client[c], sv2, u2, d2)
  <2>1. /\ client[c] \in ClientState /\ server[c] \in ServerState /\ up[c] \in Pipe
        /\ down[c] \in Pipe /\ Good(client[c], server[c], up[c], down[c])
    BY OfConnection
  <2> QED BY <1>1, <1>2, <1>5, <1>6, <2>1, ServerCommandGood
<1> QED BY <1>2, <1>3, <1>6, <1>7, OfConnection, OneConnection

LEMMA StepServerCommand ==
    ASSUME IInv, NEW c \in Conn, ServerCommand(c) \/ ForeignRefusesCommand(c)
    PROVE  IInv'
<1> DEFINE n == NextUp(c)
<1>1. server[c].next \in Nat /\ server \in [Conn -> ServerState]
  BY OfConnection DEF ServerState
<1>2. server[c].next >= server[c].next
  BY <1>1
<1>3. server' = server => server' = [server EXCEPT ![c].next = server[c].next]
  BY <1>1 DEF ServerState
<1>4. n.kind # "none" => n.tx \in Nat
  BY NextIsFirst DEF Message
<1>5. CASE /\ server[c].at = "setup" /\ n.kind \in {"releaseStream", "FCPublish"}
           /\ ServerReads(c, <<Result(n.tx, n.tx)>>) /\ UNCHANGED <<api, client, server>>
  <2>1. Result(n.tx, n.tx) \in Message
    BY <1>4, <1>5 DEF Result, Message, Kinds
  <2>2. Result(n.tx, n.tx).kind = "_result" /\ Result(n.tx, n.tx).tx = n.tx
    BY DEF Result
  <2> HIDE DEF n
  <2>3. n = NextUp(c)
    BY DEF n
  <2> QED BY <1>1, <1>2, <1>3, <1>5, <2>1, <2>2, <2>3, Answered
<1>6. CASE /\ server[c].at = "setup" /\ n.kind = "createStream"
           /\ ServerReads(c, <<Result(n.tx, server[c].next)>>) /\ UNCHANGED <<api, client>>
           /\ server' = [server EXCEPT ![c].next = @ + 1]
  <2>1. Result(n.tx, server[c].next) \in Message
    BY <1>1, <1>4, <1>6 DEF Result, Message, Kinds
  <2>2. /\ Result(n.tx, server[c].next).kind = "_result"
        /\ Result(n.tx, server[c].next).tx = n.tx
        /\ Result(n.tx, server[c].next).sid = server[c].next
    BY DEF Result
  <2>3. server[c].next + 1 \in Nat /\ server[c].next + 1 >= server[c].next
    BY <1>1
  <2>4. server' = [server EXCEPT ![c].next = server[c].next + 1]
    BY <1>6
  <2> HIDE DEF n
  <2>5. n = NextUp(c)
    BY DEF n
  <2> QED BY <1>6, <2>1, <2>2, <2>3, <2>4, <2>5, Answered
<1>7. CASE /\ server[c].at = "setup"
           /\ n.kind \in {"releaseStream", "FCPublish", "createStream"}
           /\ ServerReads(c, <<Tx("_error", n.tx)>>) /\ UNCHANGED <<api, client, server>>
  <2>1. Tx("_error", n.tx) \in Message
    BY <1>4, <1>7 DEF Tx, Message, Kinds
  <2>2. Tx("_error", n.tx).kind = "_error" /\ Tx("_error", n.tx).tx = n.tx
    BY DEF Tx
  <2> HIDE DEF n
  <2>3. n = NextUp(c)
    BY DEF n
  <2> QED BY <1>1, <1>2, <1>3, <1>7, <2>1, <2>2, <2>3, Answered
<1> QED BY <1>5, <1>6, <1>7 DEF ServerCommand, ForeignRefusesCommand

LEMMA StepServerRequest ==
    ASSUME IInv, NEW c \in Conn, ServerRequest(c)
    PROVE  IInv'
<1> DEFINE m == NextUp(c)
           sv2 == [server[c] EXCEPT !.at = "request",
                      !.role = IF m.kind = "publish" THEN "publisher" ELSE "player",
                      !.reset = m.kind = "play reset",
                      !.sid = IF m.sid = 0 THEN 1 ELSE m.sid]
<1>1. /\ up[c].msgs # <<>> /\ m = up[c].msgs[1] /\ m.kind \in Requests /\ m.sid \in Nat
  <2>1. up[c].msgs # <<>>
    BY NextIsFirst DEF ServerRequest
  <2>2. m = up[c].msgs[1] /\ m.sid \in Nat
    BY <2>1, NextIsFirst DEF Message
  <2> QED BY <2>1, <2>2 DEF ServerRequest, Requests
<1>2. /\ server' = [server EXCEPT ![c] = sv2] /\ client' = [client EXCEPT ![c] = client[c]]
      /\ api' = api /\ ServerReads(c, <<>>) /\ server[c].at = "setup" /\ <<>> \in Seq(Message)
  BY OfConnection, EmptySeq DEF ServerRequest
<1> HIDE DEF m
<1>3. (m.kind = "play reset") \in BOOLEAN /\ (IF m.sid = 0 THEN 1 ELSE m.sid) \in Nat
  BY <1>1
<1>4. /\ sv2 \in ServerState /\ sv2.at = "request"
      /\ sv2.role = (IF m.kind = "publish" THEN "publisher" ELSE "player")
      /\ sv2.sid = (IF m.sid = 0 THEN 1 ELSE m.sid)
      /\ sv2.kind = server[c].kind /\ sv2.next = server[c].next
      /\ sv2.size = server[c].size /\ sv2.buffer = server[c].buffer
      /\ sv2.recorded = server[c].recorded /\ sv2.verdict = server[c].verdict
  <2>1. server[c] \in ServerState
    BY OfConnection
  <2> QED BY <1>3, <2>1 DEF ServerState
<1> HIDE DEF sv2
<1>5. PICK u2, d2 \in Pipe :
          /\ up' = [up EXCEPT ![c] = u2] /\ down' = [down EXCEPT ![c] = d2]
          /\ Reads(up[c], down[c], u2, d2, <<>>)
  BY <1>1, <1>2, OfConnection, ServerReadsOne
<1>6. Good(client[c], sv2, u2, d2)
  <2>1. /\ client[c] \in ClientState /\ server[c] \in ServerState /\ up[c] \in Pipe
        /\ down[c] \in Pipe /\ Good(client[c], server[c], up[c], down[c])
    BY OfConnection
  <2> QED BY <1>1, <1>2, <1>4, <1>5, <2>1, ServerRequestGood
<1> QED BY <1>2, <1>4, <1>5, <1>6, OfConnection, OneConnection

\* A server that accepts with `out`.
LEMMA Accepts ==
    ASSUME IInv, NEW c \in Conn, NEW out \in Seq(Message), NEW recorded \in BOOLEAN,
           NEW changes \in SUBSET Changeable,
           server[c].at = "request",
           server' = [server EXCEPT ![c].at = "live", ![c].verdict = "accepted",
                                    ![c].recorded = recorded, ![c].changes = changes],
           ServerWrites(c, out), UNCHANGED <<api, client>>,
           \A i \in 1 .. Len(out) :
              /\ out[i].kind \notin Refusals
              /\ out[i].kind = "StreamIsRecorded" =>
                    \A j \in 1 .. i - 1 : out[j].kind # "Play.Start",
           recorded = (/\ server[c].role = "player"
                       /\ \E i \in 1 .. Len(out) : out[i].kind = "StreamIsRecorded")
    PROVE  IInv'
<1> DEFINE sv2 == [server[c] EXCEPT !.at = "live", !.verdict = "accepted",
                                    !.recorded = recorded, !.changes = changes]
           d2 == IF up[c].closed THEN down[c] ELSE [down[c] EXCEPT !.msgs = @ \o out]
<1>1. /\ sv2 \in ServerState /\ sv2.at = "live" /\ sv2.verdict = "accepted"
      /\ sv2.recorded = recorded /\ sv2.kind = server[c].kind /\ sv2.next = server[c].next
      /\ sv2.size = server[c].size /\ sv2.buffer = server[c].buffer
      /\ sv2.sid = server[c].sid /\ sv2.role = server[c].role
  BY OfConnection, ZenonT(40) DEF ServerState
<1>2. /\ d2 \in Pipe /\ d2.closed = down[c].closed
      /\ d2.msgs = IF up[c].closed THEN down[c].msgs ELSE down[c].msgs \o out
  <2>1. down[c] \in Pipe /\ down[c].msgs \in Seq(Message)
    BY OfConnection DEF Pipe
  <2>2. down[c].msgs \o out \in Seq(Message)
    BY <2>1, Concatenated
  <2> QED BY <2>1, <2>2 DEF Pipe
<1>3. /\ server' = [server EXCEPT ![c] = sv2] /\ client' = [client EXCEPT ![c] = client[c]]
      /\ api' = api
  BY OfConnection
<1>4. up' = [up EXCEPT ![c] = up[c]] /\ down' = [down EXCEPT ![c] = d2]
  BY OfConnection DEF ServerWrites
<1> HIDE DEF sv2, d2
<1>5. Good(client[c], sv2, up[c], d2)
  <2>1. /\ client[c] \in ClientState /\ server[c] \in ServerState /\ up[c] \in Pipe
        /\ down[c] \in Pipe /\ Good(client[c], server[c], up[c], down[c])
    BY OfConnection
  <2> QED BY <1>1, <1>2, <2>1, AcceptsGood
<1> QED BY <1>1, <1>2, <1>3, <1>4, <1>5, OfConnection, OneConnection

\* What a server that accepts writes: no refusal, and that the stream is recorded before
\* that it starts.
Welcomes(out) ==
    \A i \in 1 .. Len(out) :
       /\ out[i].kind \notin Refusals
       /\ out[i].kind = "StreamIsRecorded" => \A j \in 1 .. i - 1 : out[j].kind # "Play.Start"

IsRecorded(out) == \E i \in 1 .. Len(out) : out[i].kind = "StreamIsRecorded"

\* A message written after the others, other than StreamIsRecorded.
LEMMA WelcomesLonger ==
    ASSUME NEW out \in Seq(Message), NEW m \in Message, Welcomes(out),
           m.kind \notin Refusals \cup {"StreamIsRecorded"}
    PROVE  /\ out \o <<m>> \in Seq(Message) /\ Welcomes(out \o <<m>>)
           /\ IsRecorded(out \o <<m>>) = IsRecorded(out)
<1>1. <<m>> \in Seq(Message) /\ Len(<<m>>) = 1 /\ \A i \in 1 .. Len(<<m>>) : <<m>>[i] = m
  BY OneMessage
<1>2. PICK all : all = out \o <<m>>
  OBVIOUS
<1>3. /\ all \in Seq(Message) /\ Len(all) = Len(out) + 1 /\ Len(out) \in Nat
      /\ \A i \in 1 .. Len(out) : all[i] = out[i]
      /\ \A i \in 1 .. Len(all) : i \in 1 .. Len(out) \/ all[i] = m
  BY <1>1, <1>2, Concatenated, LenProperties
<1>4. Welcomes(all)
  <2> SUFFICES ASSUME NEW i \in 1 .. Len(all)
               PROVE  /\ all[i].kind \notin Refusals
                      /\ all[i].kind = "StreamIsRecorded" =>
                            \A j \in 1 .. i - 1 : all[j].kind # "Play.Start"
    BY DEF Welcomes
  <2>1. CASE i \in 1 .. Len(out)
    <3>1. \A j \in 1 .. i - 1 : all[j] = out[j]
      BY <1>3, <2>1
    <3> QED BY <1>3, <2>1, <3>1 DEF Welcomes
  <2>2. CASE all[i] = m
    BY <2>2
  <2> QED BY <1>3, <2>1, <2>2
<1>5. IsRecorded(all) = IsRecorded(out)
  <2>1. ASSUME NEW i \in 1 .. Len(all), all[i].kind = "StreamIsRecorded"
        PROVE  i \in 1 .. Len(out) /\ out[i].kind = "StreamIsRecorded"
    BY <1>3, <2>1
  <2>2. ASSUME NEW i \in 1 .. Len(out), out[i].kind = "StreamIsRecorded"
        PROVE  i \in 1 .. Len(all) /\ all[i].kind = "StreamIsRecorded"
    BY <1>3, <2>2
  <2> QED BY <2>1, <2>2 DEF IsRecorded
<1> QED BY <1>2, <1>3, <1>4, <1>5

LEMMA AcceptTailIs ==
    ASSUME NEW s \in ServerState, NEW recorded \in BOOLEAN, recorded => s.role = "player",
           NEW out, out = AcceptTail(s, recorded)
    PROVE  out \in Seq(Message) /\ Welcomes(out) /\ IsRecorded(out) = recorded
<1>1. {"StreamBegin", "Publish.Start", "StreamIsRecorded", "Play.Reset", "Play.Start"} \subseteq Kinds
      /\ s.sid \in Nat
  BY DEF Kinds, ServerState
<1>2. /\ OnStream("StreamBegin", s.sid) \in Message /\ OnStream("Publish.Start", s.sid) \in Message
      /\ OnStream("StreamIsRecorded", s.sid) \in Message
      /\ OnStream("Play.Reset", s.sid) \in Message /\ OnStream("Play.Start", s.sid) \in Message
  BY <1>1 DEF OnStream, Message
<1>3. /\ OnStream("StreamBegin", s.sid).kind = "StreamBegin"
      /\ OnStream("Publish.Start", s.sid).kind = "Publish.Start"
      /\ OnStream("StreamIsRecorded", s.sid).kind = "StreamIsRecorded"
      /\ OnStream("Play.Reset", s.sid).kind = "Play.Reset"
      /\ OnStream("Play.Start", s.sid).kind = "Play.Start"
  BY DEF OnStream
<1>4. CASE s.role = "publisher"
  <2>1. out = <<OnStream("StreamBegin", s.sid), OnStream("Publish.Start", s.sid)>>
    BY <1>4 DEF AcceptTail
  <2>2. /\ out \in Seq(Message) /\ Len(out) = 2
        /\ out[1] = OnStream("StreamBegin", s.sid) /\ out[2] = OnStream("Publish.Start", s.sid)
    BY <1>2, <2>1, MessagesInARow
  <2>3. \A i \in 1 .. Len(out) : i = 1 \/ i = 2
    BY <2>2, TwoMessages
  <2>4. \A i \in 1 .. Len(out) : out[i].kind \in {"StreamBegin", "Publish.Start"}
    BY <1>3, <2>2, <2>3
  <2> QED BY <1>4, <2>2, <2>4 DEF Welcomes, IsRecorded, Refusals
<1>5. CASE s.role # "publisher"
  <2> DEFINE first == IF recorded THEN <<OnStream("StreamIsRecorded", s.sid)>> ELSE <<>>
             second == first \o <<OnStream("StreamBegin", s.sid)>>
             reset == <<OnStream("Play.Reset", s.sid)>>
             third == second \o (IF s.reset THEN reset ELSE <<>>)
  <2>1. out = third \o <<OnStream("Play.Start", s.sid)>>
    BY <1>5 DEF AcceptTail
  <2>2. first \in Seq(Message) /\ Welcomes(first) /\ IsRecorded(first) = recorded
    <3>1. CASE recorded
      <4>1. PICK f : f = <<OnStream("StreamIsRecorded", s.sid)>>
        OBVIOUS
      <4>2. /\ f \in Seq(Message) /\ Len(f) = 1
            /\ \A i \in 1 .. Len(f) : f[i].kind = "StreamIsRecorded"
        BY <1>2, <1>3, <4>1, OneMessage
      <4>3. Welcomes(f) /\ IsRecorded(f)
        <5>1. \A i \in 1 .. Len(f) : ~\E j \in 1 .. i - 1 : TRUE
          BY <4>2
        <5>2. 1 \in 1 .. Len(f)
          BY <4>2
        <5> QED BY <4>2, <5>1, <5>2 DEF Welcomes, IsRecorded, Refusals
      <4> QED BY <3>1, <4>1, <4>2, <4>3
    <3>2. CASE ~recorded
      <4>1. <<>> \in Seq(Message) /\ Welcomes(<<>>) /\ IsRecorded(<<>>) = FALSE
        BY EmptySeq DEF Welcomes, IsRecorded
      <4>2. first = <<>> /\ recorded = FALSE
        BY <3>2
      <4> HIDE DEF first
      <4> QED BY <4>1, <4>2
    <3> QED BY <3>1, <3>2
  <2> HIDE DEF first
  <2>3. second \in Seq(Message) /\ Welcomes(second) /\ IsRecorded(second) = recorded
    BY <1>2, <1>3, <2>2, WelcomesLonger DEF Refusals
  <2> HIDE DEF second
  <2>4. third \in Seq(Message) /\ Welcomes(third) /\ IsRecorded(third) = recorded
    <3>1. second \o reset \in Seq(Message) /\ Welcomes(second \o reset)
          /\ IsRecorded(second \o reset) = recorded
      BY <1>2, <1>3, <2>3, WelcomesLonger DEF Refusals
    <3>2. second \o <<>> = second
      BY <2>3, ConcatEmptySeq
    <3> HIDE DEF reset
    <3> QED BY <2>3, <3>1, <3>2
  <2> HIDE DEF third
  <2> QED BY <1>2, <1>3, <2>1, <2>4, WelcomesLonger DEF Refusals
<1> QED BY <1>4, <1>5

LEMMA StepAppAccepts ==
    ASSUME IInv, NEW c \in Conn, NEW recorded \in BOOLEAN, AppAccepts(c, recorded)
    PROVE  IInv'
<1>1. PICK out : out = AcceptTail(server[c], recorded)
  OBVIOUS
<1>2. server[c] \in ServerState /\ (recorded => server[c].role = "player")
  BY OfConnection DEF AppAccepts
<1>3. out \in Seq(Message) /\ Welcomes(out) /\ IsRecorded(out) = recorded
  BY <1>1, <1>2, AcceptTailIs
<1>4. recorded = (/\ server[c].role = "player"
                  /\ \E i \in 1 .. Len(out) : out[i].kind = "StreamIsRecorded")
  BY <1>2, <1>3 DEF IsRecorded
<1>5. PICK changes \in SUBSET Changeable : changes = server[c].changes
  BY <1>2 DEF ServerState
<1>6. server' = [server EXCEPT ![c].at = "live", ![c].verdict = "accepted",
                               ![c].recorded = recorded, ![c].changes = changes]
  <2>1. server[c].changes = changes /\ server \in [Conn -> ServerState]
    BY <1>5, OfConnection
  <2>2. [server[c] EXCEPT !.at = "live", !.verdict = "accepted", !.recorded = recorded]
           = [server[c] EXCEPT !.at = "live", !.verdict = "accepted",
                               !.recorded = recorded, !.changes = changes]
    BY <1>2, <2>1 DEF ServerState
  <2>3. server' = [server EXCEPT ![c] = [server[c] EXCEPT !.at = "live", !.verdict = "accepted",
                                                          !.recorded = recorded]]
    BY <2>1 DEF AppAccepts
  <2> QED BY <2>1, <2>2, <2>3
<1> QED BY <1>1, <1>3, <1>4, <1>6, Accepts DEF AppAccepts, Welcomes

LEMMA StepForeignAccepts ==
    ASSUME IInv, NEW c \in Conn, NEW tail \in ForeignTails, ForeignAccepts(c, tail)
    PROVE  IInv'
<1>1. tail \in Seq(Message) /\ DOMAIN tail = 1 .. Len(tail)
  BY SetupConstants, LenProperties
<1>2. \A i \in 1 .. Len(tail) :
         /\ tail[i].kind \notin Refusals
         /\ tail[i].kind = "StreamIsRecorded" => \A j \in 1 .. i - 1 : tail[j].kind # "Play.Start"
  BY <1>1, ForeignServers
<1>3. PICK recorded \in BOOLEAN :
         recorded = (/\ server[c].role = "player"
                     /\ \E i \in 1 .. Len(tail) : tail[i].kind = "StreamIsRecorded")
  OBVIOUS
<1>4. PICK changes \in SUBSET Changeable : changes = UnderWay(tail)
  BY DEF UnderWay
<1>5. server' = [server EXCEPT ![c].at = "live", ![c].verdict = "accepted",
                               ![c].recorded = recorded, ![c].changes = changes]
  BY <1>1, <1>3, <1>4 DEF ForeignAccepts
<1> QED BY <1>1, <1>2, <1>3, <1>5, Accepts DEF ForeignAccepts

\* The server leaves: AppRejects, ServerErrs and ServerDies.
LEMMA ServerLeaves ==
    ASSUME IInv, NEW c \in Conn, NEW out \in Seq(Message), NEW sv2 \in ServerState,
           server[c].at \in {"c0c1", "c2", "connect", "setup", "request"},
           server' = [server EXCEPT ![c] = sv2], UNCHANGED <<api, client>>,
           sv2.at = "gone", sv2.kind = server[c].kind, sv2.next = server[c].next,
           sv2.size = server[c].size, sv2.buffer = server[c].buffer, sv2.sid = server[c].sid,
           sv2.role = server[c].role, sv2.recorded = server[c].recorded,
           \/ sv2.verdict = "none" /\ out = <<>>
           \/ server[c].at = "request" /\ sv2.verdict = "rejected",
           Refuses(out),
           \E m : /\ m = down[c].msgs \o out \/ m \in Some(down[c].msgs \o out)
                  /\ down' = [down EXCEPT ![c] = [msgs |-> m, closed |-> TRUE]],
           up' = [up EXCEPT ![c].msgs = <<>>]
    PROVE  IInv'
<1>1. PICK m : /\ m = down[c].msgs \o out \/ m \in Some(down[c].msgs \o out)
               /\ down' = [down EXCEPT ![c] = [msgs |-> m, closed |-> TRUE]]
  OBVIOUS
<1>2. /\ up[c] \in Pipe /\ down[c] \in Pipe /\ down[c].msgs \in Seq(Message)
      /\ down[c].msgs \o out \in Seq(Message) /\ Len(down[c].msgs \o out) \in Nat
  BY OfConnection, Concatenated, LenProperties DEF Pipe
<1> DEFINE d2 == [msgs |-> m, closed |-> TRUE]
           u2 == [up[c] EXCEPT !.msgs = <<>>]
<1>3. /\ m \in Seq(Message) /\ Len(m) <= Len(down[c].msgs \o out)
      /\ \A i \in 1 .. Len(m) : m[i] = (down[c].msgs \o out)[i]
  <2>1. CASE m = down[c].msgs \o out
    BY <1>2, <2>1
  <2>2. CASE m \in Some(down[c].msgs \o out)
    BY <1>2, <2>2, SomeOf
  <2> QED BY <1>1, <2>1, <2>2
<1>4. d2 \in Pipe /\ d2.closed /\ d2.msgs = m
  BY <1>3 DEF Pipe
<1>5. u2 \in Pipe /\ u2.closed = up[c].closed /\ u2.msgs = <<>>
  <2>1. up[c] \in Pipe /\ <<>> \in Seq(Message)
    BY <1>2, EmptySeq
  <2> QED BY <2>1 DEF Pipe
<1>6. /\ client' = [client EXCEPT ![c] = client[c]] /\ api' = api
      /\ up' = [up EXCEPT ![c] = u2] /\ down' = [down EXCEPT ![c] = d2]
  BY <1>1, OfConnection
<1> HIDE DEF d2, u2
<1>7. Good(client[c], sv2, u2, d2)
  <2>1. /\ client[c] \in ClientState /\ server[c] \in ServerState
        /\ Good(client[c], server[c], up[c], down[c])
    BY OfConnection
  <2>2. Begins(d2.msgs, down[c].msgs \o out)
    BY <1>3, <1>4 DEF Begins
  <2>3. up[c] \in Pipe /\ down[c] \in Pipe /\ d2 \in Pipe /\ d2.closed /\ u2 \in Pipe
        /\ u2.closed = up[c].closed /\ u2.msgs = <<>>
    BY <1>2, <1>4, <1>5
  <2> QED BY <2>1, <2>2, <2>3, ServerLeavesGood
<1> QED BY <1>4, <1>5, <1>6, <1>7, OfConnection, OneConnection

LEMMA StepAppRejects ==
    ASSUME IInv, NEW c \in Conn, AppRejects(c)
    PROVE  IInv'
<1> DEFINE sv2 == [server[c] EXCEPT !.at = "gone", !.verdict = "rejected"]
<1>1. PICK m : m = OnStream(IF server[c].role = "publisher" THEN "Publish.BadName"
                            ELSE "Play.StreamNotFound", server[c].sid)
  OBVIOUS
<1>2. server[c] \in ServerState /\ server[c].sid \in Nat
  BY OfConnection DEF ServerState
<1>3. m \in Message /\ m.kind \in Refusals
  BY <1>1, <1>2 DEF OnStream, Message, Kinds, Refusals
<1>4. PICK out : out = <<m>>
  OBVIOUS
<1>5. out \in Seq(Message) /\ Refuses(out)
  BY <1>3, <1>4, OneMessage DEF Refuses
<1>6. /\ sv2 \in ServerState /\ sv2.at = "gone" /\ sv2.verdict = "rejected"
      /\ sv2.recorded = server[c].recorded /\ sv2.kind = server[c].kind
      /\ sv2.next = server[c].next /\ sv2.size = server[c].size
      /\ sv2.buffer = server[c].buffer /\ sv2.sid = server[c].sid /\ sv2.role = server[c].role
  BY <1>2 DEF ServerState
<1>7. server' = [server EXCEPT ![c] = sv2]
  BY OfConnection DEF AppRejects
<1> HIDE DEF sv2
<1>8. ServerCloses(c, out) /\ server[c].at = "request" /\ UNCHANGED <<api, client>>
  BY <1>1, <1>4 DEF AppRejects
<1>9. /\ up' = [up EXCEPT ![c].msgs = <<>>]
      /\ \E x : /\ x = down[c].msgs \o out \/ x \in Some(down[c].msgs \o out)
                /\ down' = [down EXCEPT ![c] = [msgs |-> x, closed |-> TRUE]]
  BY <1>8 DEF ServerCloses
<1> QED BY <1>5, <1>6, <1>7, <1>8, <1>9, ServerLeaves

LEMMA StepServerFails ==
    ASSUME IInv, NEW c \in Conn, ServerErrs(c) \/ ServerDies(c)
    PROVE  IInv'
<1> DEFINE sv2 == [server[c] EXCEPT !.at = "gone"]
<1>1. server[c] \in ServerState /\ down[c].msgs \in Seq(Message)
  BY OfConnection DEF Pipe
<1>2. /\ server[c].at \in {"c0c1", "c2", "connect", "setup", "request"}
      /\ UNCHANGED <<api, client>> /\ server' = [server EXCEPT ![c] = sv2]
  BY OfConnection DEF ServerErrs, ServerDies
<1>3. server[c].verdict = "none"
  BY <1>2, OfConnection DEF Good, ServerGood, ServerState
<1>4. /\ sv2 \in ServerState /\ sv2.at = "gone" /\ sv2.verdict = "none"
      /\ sv2.recorded = server[c].recorded /\ sv2.kind = server[c].kind
      /\ sv2.next = server[c].next /\ sv2.size = server[c].size
      /\ sv2.buffer = server[c].buffer /\ sv2.sid = server[c].sid /\ sv2.role = server[c].role
  BY <1>1, <1>3 DEF ServerState
<1> HIDE DEF sv2
<1>5. down[c].msgs \o <<>> = down[c].msgs /\ <<>> \in Seq(Message)
  BY <1>1, ConcatEmptySeq, EmptySeq
<1>6. /\ up' = [up EXCEPT ![c].msgs = <<>>]
      /\ \E x : /\ x = down[c].msgs \o <<>> \/ x \in Some(down[c].msgs \o <<>>)
                /\ down' = [down EXCEPT ![c] = [msgs |-> x, closed |-> TRUE]]
  BY <1>5 DEF ServerErrs, ServerCloses, ServerDies
<1>7. Refuses(<<>>)
  BY EmptySeq DEF Refuses
<1> QED BY <1>2, <1>4, <1>5, <1>6, <1>7, ServerLeaves

-----------------------------------------------------------------------------
(* Every step, and what follows. *)

LEMMA StepOfConnection ==
    ASSUME IInv, NEW c \in Conn,
           \/ Dial(c) \/ ClientStep(c) \/ ClientDies(c) \/ ClientHangs(c) \/ ForeignClient(c)
           \/ ServerStep(c) \/ Verdict(c) \/ ServerDies(c)
    PROVE  IInv'
<1>1. CASE Dial(c)
  BY <1>1, StepDial
<1>2. CASE ClientStep(c)
  BY <1>2, StepClientHandshake, StepClientWaitsForResult, StepClientConnected,
     StepClientCreated, StepClientWaitsForPublishStart, StepClientWaitsForPlayStart,
     StepClientLeaves DEF ClientStep
<1>3. CASE ClientDies(c) \/ ClientHangs(c)
  BY <1>3, StepClientLeaves
<1>4. CASE ForeignClient(c)
  BY <1>4, StepForeignClient
<1>5. CASE ServerStep(c)
  BY <1>5, StepAccept, StepServerHandshake, StepServerHandshakeDone, StepServerApplies,
     StepServerConnect, StepServerCommand, StepServerRequest, StepServerFails DEF ServerStep
<1>6. CASE Verdict(c)
  BY <1>6, StepAppAccepts, StepForeignAccepts, StepAppRejects DEF Verdict
<1>7. CASE ServerDies(c)
  BY <1>7, StepServerFails
<1> QED BY <1>1, <1>2, <1>3, <1>4, <1>5, <1>6, <1>7

\* Stuttering changes nothing IInv speaks about.
LEMMA NothingChanges ==
    ASSUME IInv, UNCHANGED vars
    PROVE  IInv'
BY DEF IInv, TypeOK, vars

\* Every reachable state satisfies the inductive invariant.
THEOREM Invariant == Spec => []IInv
<1>1. ASSUME IInv, [Next]_vars PROVE IInv'
  <2>1. CASE Next
    BY <1>1, <2>1, StepOfConnection DEF Next
  <2>2. CASE UNCHANGED vars
    BY <1>1, <2>2, NothingChanges
  <2> QED BY <1>1, <2>1, <2>2
<1> QED BY <1>1, InitGood, PTL DEF Spec

\* Every variable keeps its type: in particular no loop of connect runs past its bound.
THEOREM TypeCorrect == Spec => []TypeOK
<1>1. IInv => TypeOK
  BY DEF IInv
<1> QED BY <1>1, Invariant, PTL

\* A client that announces a stream, or holds a session, uses a stream id that its own
\* server allocated on this connection: wait_for_result is never answered by the _result
\* of another command.
THEOREM StreamIdsAllocated == Spec => []StreamIdAllocated
<1>1. ASSUME IInv PROVE StreamIdAllocated
  BY <1>1 DEF IInv, Good, ClientGood, StreamIdAllocated
<1> QED BY <1>1, Invariant, PTL

\* The server's request, and its session, have the client's role, stream id, handshake
\* flavour and buffer length, and a live player knows whether its stream is recorded.
THEOREM BothEndsAgree == Spec => []EndsAgree
<1>1. ASSUME IInv PROVE EndsAgree
  <2> SUFFICES ASSUME NEW c \in Conn
               PROVE  /\ server[c].at \in {"request", "live"} =>
                           /\ server[c].role = client[c].opts.role
                           /\ server[c].sid = client[c].sid
                           /\ server[c].kind = client[c].kind
                           /\ IsPlayer(c) => server[c].buffer = client[c].opts.buffer
                      /\ client[c].at = "live" => client[c].recorded = server[c].recorded
    BY DEF EndsAgree
  <2>1. ClientGood(client[c], server[c]) /\ ServerGood(client[c], server[c])
    BY <1>1 DEF IInv, Good
  <2>2. IsPlayer(c) = Plays(client[c])
    BY DEF IsPlayer, Plays
  <2> QED BY <2>1, <2>2 DEF ClientGood, ServerGood, Agreed
<1> QED BY <1>1, Invariant, PTL

-----------------------------------------------------------------------------
(* What a server changes with its verdict. *)

\* A server changes nothing before its verdict, and a player has taken in what it changed
\* then, or finds it among the messages on their way.
Follows(cl, sv, d) ==
    /\ sv.at # "live" => sv.changes = {}
    /\ cl.at \in {"start", "live"} /\ Plays(cl) =>
          sv.changes \subseteq cl.adopted \cup UnderWay(d.msgs)

Following == \A c \in Conn : Follows(client[c], server[c], down[c])

\* One message less is under way once the first is read.
LEMMA UnderWayAfterRead ==
    ASSUME NEW ms \in Seq(Message), NEW ms2 \in Seq(Message), Taken(ms, ms2),
           Len(ms2) = Len(ms) - 1
    PROVE  UnderWay(ms) \subseteq Change(ms[1].kind) \cup UnderWay(ms2)
<1> SUFFICES ASSUME NEW x \in Changeable, NEW i \in 1 .. Len(ms), x \in Change(ms[i].kind)
             PROVE  x \in Change(ms[1].kind) \cup UnderWay(ms2)
  BY DEF UnderWay
<1>1. CASE i = 1
  BY <1>1
<1>2. CASE i # 1
  <2>1. i - 1 \in 1 .. Len(ms2) /\ ms2[i - 1] = ms[i]
    BY <1>2 DEF Taken
  <2> QED BY <2>1 DEF UnderWay
<1> QED BY <1>1, <1>2

\* What is written is under way, with what was.
LEMMA UnderWayAfterWrite ==
    ASSUME NEW ms \in Seq(Message), NEW out \in Seq(Message)
    PROVE  UnderWay(out) \subseteq UnderWay(ms \o out)
<1> SUFFICES ASSUME NEW x \in Changeable, NEW i \in 1 .. Len(out), x \in Change(out[i].kind)
             PROVE  \E j \in 1 .. Len(ms \o out) : x \in Change((ms \o out)[j].kind)
  BY DEF UnderWay
<1>1. /\ Len(ms) \in Nat /\ Len(out) \in Nat /\ Len(ms \o out) = Len(ms) + Len(out)
      /\ (ms \o out)[Len(ms) + i] = out[i]
  BY Concatenated, LenProperties
<1>2. Len(ms) + i \in 1 .. Len(ms \o out)
  BY <1>1
<1> QED BY <1>1, <1>2

\* A connection that no step changes, and one whose server has made no change.
LEMMA NoChangeFollows ==
    ASSUME NEW cl, NEW sv, NEW d, sv.changes = {}
    PROVE  Follows(cl, sv, d)
BY DEF Follows

\* A step changes nothing of another connection.
LEMMA OthersKeep ==
    ASSUME IInv, NEW c \in Conn, NEW e \in Conn, e # c,
           \/ Dial(c) \/ ClientStep(c) \/ ClientDies(c) \/ ClientHangs(c) \/ ForeignClient(c)
           \/ ServerStep(c) \/ Verdict(c) \/ ServerDies(c)
    PROVE  client'[e] = client[e] /\ server'[e] = server[e] /\ down'[e] = down[e]
<1>1. /\ client \in [Conn -> ClientState] /\ server \in [Conn -> ServerState]
      /\ down \in [Conn -> Pipe]
  BY OfConnection
<1>2. /\ \A out : ClientReads(c, out) => down'[e] = down[e]
      /\ \A out : ServerReads(c, out) => down'[e] = down[e]
      /\ \A out : ServerWrites(c, out) => down'[e] = down[e]
      /\ ClientCloses(c) => down'[e] = down[e]
      /\ \A out : ServerCloses(c, out) => down'[e] = down[e]
  BY <1>1 DEF ClientReads, ServerReads, ServerWrites, ClientCloses, ServerCloses
<1>3. CASE Dial(c) \/ ClientDies(c) \/ ClientHangs(c) \/ ForeignClient(c)
  BY <1>1, <1>2, <1>3 DEF Dial, ClientDies, ClientHangs, ForeignClient
<1>4. CASE ClientStep(c)
  <2>1. server' = server
    BY <1>4 DEF ClientStep, ClientHandshake, ClientWaitsForResult, ClientConnected,
       ClientCreated, ClientWaitsForPublishStart, ClientWaitsForPlayStart, ClientRefused,
       ClientErrs
  <2>2. CASE ClientHandshake(c) \/ ClientWaitsForResult(c)
    BY <1>1, <1>2, <2>1, <2>2 DEF ClientHandshake, ClientWaitsForResult
  <2>3. CASE ClientConnected(c) \/ ClientCreated(c)
    BY <1>1, <1>2, <2>1, <2>3 DEF ClientConnected, ClientCreated
  <2>4. CASE ClientWaitsForPublishStart(c)
    BY <1>1, <1>2, <2>1, <2>4 DEF ClientWaitsForPublishStart
  <2>5. CASE ClientWaitsForPlayStart(c)
    BY <1>1, <1>2, <2>1, <2>5 DEF ClientWaitsForPlayStart
  <2>6. CASE ClientRefused(c) \/ ClientErrs(c)
    BY <1>1, <1>2, <2>1, <2>6 DEF ClientRefused, ClientErrs
  <2> QED BY <1>4, <2>2, <2>3, <2>4, <2>5, <2>6 DEF ClientStep
<1>5. CASE ServerStep(c) \/ ServerDies(c)
  <2>1. CASE Accept(c) \/ ServerDies(c) \/ ServerErrs(c)
    BY <1>1, <1>2, <2>1 DEF Accept, ServerDies, ServerErrs
  <2>2. CASE ServerHandshake(c) \/ ServerHandshakeDone(c) \/ ServerApplies(c)
    BY <1>1, <1>2, <2>2 DEF ServerHandshake, ServerHandshakeDone, ServerApplies
  <2>3. CASE ServerConnect(c) \/ ServerCommand(c) \/ ForeignRefusesCommand(c)
    BY <1>1, <1>2, <2>3 DEF ServerConnect, ServerCommand, ForeignRefusesCommand
  <2>4. CASE ServerRequest(c)
    BY <1>1, <1>2, <2>4 DEF ServerRequest
  <2> QED BY <1>5, <2>1, <2>2, <2>3, <2>4 DEF ServerStep
<1>6. CASE Verdict(c)
  BY <1>1, <1>2, <1>6 DEF Verdict, AppAccepts, ForeignAccepts, AppRejects
<1> QED BY <1>3, <1>4, <1>5, <1>6

\* A client's step leaves the server's changes alone, and a player's takes in what it reads.
LEMMA ClientFollows ==
    ASSUME IInv, Following, NEW c \in Conn,
           Dial(c) \/ ClientStep(c) \/ ClientDies(c) \/ ClientHangs(c) \/ ForeignClient(c)
    PROVE  Follows(client'[c], server'[c], down'[c])
<1>1. /\ client[c] \in ClientState /\ server[c] \in ServerState
      /\ client \in [Conn -> ClientState] /\ server \in [Conn -> ServerState]
      /\ down[c] \in Pipe /\ down \in [Conn -> Pipe] /\ down[c].msgs \in Seq(Message)
      /\ ClientGood(client[c], server[c]) /\ ServerGood(client[c], server[c])
      /\ PipesGood(client[c], server[c], up[c], down[c])
      /\ Follows(client[c], server[c], down[c])
  BY OfConnection DEF Good, Following, Pipe
<1>2. server' = server
  BY DEF Dial, ClientStep, ClientHandshake, ClientWaitsForResult, ClientConnected,
     ClientCreated, ClientWaitsForPublishStart, ClientWaitsForPlayStart, ClientRefused,
     ClientErrs, ClientDies, ClientHangs, ForeignClient
<1>3. CASE server[c].at # "live"
  BY <1>1, <1>2, <1>3, NoChangeFollows DEF Follows
<1>4. CASE server[c].at = "live"
  <2>1. client[c].at \notin Early /\ ~down[c].closed
    BY <1>1, <1>4 DEF ServerGood, Agreed, PipesGood
  <2>2. CASE ClientWaitsForPlayStart(c)
    <3> DEFINE kind == NextDown(c).kind
    <3>1. down[c].msgs # <<>> /\ kind = down[c].msgs[1].kind
      BY <2>2, NextIsFirst DEF ClientWaitsForPlayStart
    <3>2. client'[c].adopted = client[c].adopted \cup Change(kind)
      <4>1. PICK ap : ap = Applied(client[c], kind)
        OBVIOUS
      <4>2. ap \in ClientState /\ ap.adopted = client[c].adopted \cup Change(kind)
        BY <1>1, <4>1, AppliedTyped, AppliedKeeps
      <4>3. client' = [client EXCEPT ![c] = [ap EXCEPT
                !.tries = @ + 1, !.recorded = @ \/ kind = "StreamIsRecorded",
                !.at = IF kind = "Play.Start" THEN "live" ELSE @]]
        BY <2>2, <4>1 DEF ClientWaitsForPlayStart
      <4> QED BY <1>1, <4>2, <4>3 DEF ClientState
    <3>3. down'[c].msgs = Tail(down[c].msgs)
      <4>1. down' = [down EXCEPT ![c].msgs = Tail(@)]
        BY <2>1, <2>2 DEF ClientWaitsForPlayStart, ClientReads
      <4> QED BY <1>1, <4>1 DEF Pipe
    <3>4. /\ Taken(down[c].msgs, Tail(down[c].msgs)) /\ Tail(down[c].msgs) \in Seq(Message)
          /\ Len(Tail(down[c].msgs)) = Len(down[c].msgs) - 1
      BY <1>1, <3>1 DEF Taken
    <3>5. UnderWay(down[c].msgs) \subseteq Change(kind) \cup UnderWay(Tail(down[c].msgs))
      BY <1>1, <3>1, <3>4, UnderWayAfterRead
    <3>6. client[c].at = "start" /\ Plays(client[c])
      BY <2>2 DEF ClientWaitsForPlayStart, IsPlayer, Plays
    <3> HIDE DEF kind
    <3> QED BY <1>1, <1>2, <1>4, <3>2, <3>3, <3>5, <3>6 DEF Follows
  <2>3. CASE ClientWaitsForPublishStart(c)
    <3>1. ~Plays(client[c]) /\ client'[c].opts = client[c].opts
      BY <1>1, <2>3 DEF ClientWaitsForPublishStart, IsPlayer, Plays, ClientState
    <3> QED BY <1>2, <1>4, <3>1 DEF Follows, Plays
  <2>4. CASE ClientRefused(c) \/ ClientErrs(c) \/ ClientDies(c) \/ ClientHangs(c)
    <3>1. client'[c].at \in {"refused", "failed", "hung"}
      BY <1>1, <2>4 DEF ClientRefused, ClientErrs, ClientDies, ClientHangs, ClientState
    <3> QED BY <1>2, <1>4, <3>1 DEF Follows
  <2>5. ~( \/ Dial(c) \/ ClientHandshake(c) \/ ClientWaitsForResult(c) \/ ClientConnected(c)
           \/ ClientCreated(c) \/ ForeignClient(c))
    BY <2>1 DEF Early, Dial, ClientHandshake, ClientWaitsForResult, ClientConnected,
       ClientCreated, ForeignClient
  <2> QED BY <2>2, <2>3, <2>4, <2>5 DEF ClientStep
<1> QED BY <1>3, <1>4

\* A server that is driven, rejects or fails has changed nothing, and what one changes when
\* it accepts it writes to a client that is still there.
LEMMA ServerFollows ==
    ASSUME IInv, Following, NEW c \in Conn, ServerStep(c) \/ Verdict(c) \/ ServerDies(c)
    PROVE  Follows(client'[c], server'[c], down'[c])
<1>1. /\ client[c] \in ClientState /\ server[c] \in ServerState
      /\ client \in [Conn -> ClientState] /\ server \in [Conn -> ServerState]
      /\ down[c] \in Pipe /\ down \in [Conn -> Pipe] /\ down[c].msgs \in Seq(Message)
      /\ PipesGood(client[c], server[c], up[c], down[c])
      /\ Follows(client[c], server[c], down[c])
  BY OfConnection DEF Good, Following, Pipe
<1>2. CASE ServerStep(c) \/ ServerDies(c)
  <2>1. server[c].at # "live"
    BY <1>2 DEF ServerStep, Accept, ServerHandshake, ServerHandshakeDone, ServerApplies,
       ServerConnect, ServerCommand, ForeignRefusesCommand, ServerRequest, ServerErrs, ServerDies
  <2>2. server'[c].changes = server[c].changes
    <3>1. CASE Accept(c) \/ ServerHandshakeDone(c)
      BY <1>1, <3>1 DEF Accept, ServerHandshakeDone, ServerState
    <3>2. CASE ServerHandshake(c)
      BY <1>1, <3>2 DEF ServerHandshake, ServerState
    <3>3. CASE ServerApplies(c)
      BY <1>1, <3>3 DEF ServerApplies, ServerState
    <3>4. CASE ServerConnect(c) \/ ServerCommand(c) \/ ForeignRefusesCommand(c)
      BY <1>1, <3>4 DEF ServerConnect, ServerCommand, ForeignRefusesCommand, ServerState
    <3>5. CASE ServerRequest(c)
      BY <1>1, <3>5 DEF ServerRequest, ServerState
    <3>6. CASE ServerErrs(c) \/ ServerDies(c)
      BY <1>1, <3>6 DEF ServerErrs, ServerDies, ServerState
    <3> QED BY <1>2, <3>1, <3>2, <3>3, <3>4, <3>5, <3>6 DEF ServerStep
  <2> QED BY <1>1, <2>1, <2>2, NoChangeFollows DEF Follows
<1>3. CASE AppRejects(c) \/ \E recorded \in BOOLEAN : AppAccepts(c, recorded)
  <2>1. server[c].changes = {}
    BY <1>1, <1>3 DEF Follows, AppRejects, AppAccepts
  <2>2. server'[c].changes = server[c].changes
    <3>1. CASE AppRejects(c)
      BY <1>1, <3>1 DEF AppRejects, ServerState
    <3>2. CASE \E recorded \in BOOLEAN : AppAccepts(c, recorded)
      BY <1>1, <3>2 DEF AppAccepts, ServerState
    <3> QED BY <1>3, <3>1, <3>2
  <2> QED BY <2>1, <2>2, NoChangeFollows
<1>4. ASSUME NEW tail \in ForeignTails, ForeignAccepts(c, tail)
      PROVE  Follows(client'[c], server'[c], down'[c])
  <2>1. client' = client
    BY <1>4 DEF ForeignAccepts
  <2>2. server'[c].at = "live" /\ server'[c].changes = UnderWay(tail)
    <3>1. PICK recorded, changes :
             /\ server' = [server EXCEPT ![c].at = "live", ![c].verdict = "accepted",
                                         ![c].recorded = recorded, ![c].changes = changes]
             /\ changes = UnderWay(tail)
      BY <1>4 DEF ForeignAccepts
    <3> QED BY <1>1, <3>1 DEF ServerState
  <2>3. CASE client[c].at = "start"
    <3>1. ~up[c].closed
      BY <1>1, <2>3 DEF PipesGood, Inside
    <3>2. down' = [down EXCEPT ![c].msgs = @ \o tail]
      BY <1>4, <3>1 DEF ForeignAccepts, ServerWrites
    <3>3. down'[c].msgs = down[c].msgs \o tail
      BY <1>1, <3>2 DEF Pipe
    <3>4. UnderWay(tail) \subseteq UnderWay(down[c].msgs \o tail)
      BY <1>1, SetupConstants, UnderWayAfterWrite
    <3> QED BY <2>1, <2>2, <3>3, <3>4 DEF Follows
  <2>4. client[c].at # "live"
    <3>1. server[c].at = "request"
      BY <1>4 DEF ForeignAccepts
    <3> QED BY <3>1, OfConnection DEF Good, ClientGood, ServerGood, ServerState
  <2> QED BY <2>1, <2>2, <2>3, <2>4 DEF Follows
<1> QED BY <1>2, <1>3, <1>4 DEF Verdict

LEMMA StepFollows ==
    ASSUME IInv, Following, [Next]_vars
    PROVE  Following'
<1>1. CASE UNCHANGED vars
  BY <1>1 DEF vars, Following
<1>2. CASE Next
  <2>1. PICK c \in Conn :
           \/ Dial(c) \/ ClientStep(c) \/ ClientDies(c) \/ ClientHangs(c) \/ ForeignClient(c)
           \/ ServerStep(c) \/ Verdict(c) \/ ServerDies(c)
    BY <1>2 DEF Next
  <2>2. Follows(client'[c], server'[c], down'[c])
    BY <2>1, ClientFollows, ServerFollows
  <2>3. ASSUME NEW e \in Conn, e # c
        PROVE  Follows(client'[e], server'[e], down'[e])
    <3>1. client'[e] = client[e] /\ server'[e] = server[e] /\ down'[e] = down[e]
      BY <2>1, <2>3, OthersKeep
    <3> QED BY <3>1 DEF Following
  <2> QED BY <2>2, <2>3 DEF Following
<1> QED BY <1>1, <1>2

\* When connect returns Ok, windows and chunk sizes that the server announced in answer to
\* connect are in force, and at a player also those it announced with its verdict, unless
\* they are still on their way; when the server hands out a request, the client's chunk
\* size is in force.
THEOREM MediaCanFlow == Spec => []ReadyForMedia
<1>1. ASSUME IInv, Following PROVE ReadyForMedia
  <2> SUFFICES ASSUME NEW c \in Conn
               PROVE  /\ client[c].at = "live" =>
                            /\ client[c].window /\ client[c].size = "announced"
                            /\ IsPlayer(c) => server[c].changes \subseteq
                                                client[c].adopted \cup UnderWay(down[c].msgs)
                      /\ server[c].at \in {"request", "live"} => server[c].size = "announced"
    BY DEF ReadyForMedia
  <2>1. /\ ClientGood(client[c], server[c]) /\ ServerGood(client[c], server[c])
        /\ Follows(client[c], server[c], down[c]) /\ IsPlayer(c) = Plays(client[c])
    BY <1>1 DEF IInv, Good, Following, IsPlayer, Plays
  <2> QED BY <2>1 DEF ClientGood, ServerGood, Answering, Follows
<1>2. Init => Following
  <2> SUFFICES ASSUME Init, NEW c \in Conn PROVE Follows(client[c], server[c], down[c])
    BY DEF Following
  <2>1. server[c].changes = {}
    BY DEF Init
  <2> QED BY <2>1, NoChangeFollows
<1>3. ASSUME IInv, Following, [Next]_vars PROVE Following'
  BY <1>3, StepFollows
<1>4. Spec => []Following
  BY <1>2, <1>3, Invariant, PTL DEF Spec
<1> QED BY <1>1, <1>4, Invariant, PTL

-----------------------------------------------------------------------------
(* Setup implements the contract of Handover. *)

Outcome(cl) == IF cl.at \in {"live", "refused", "failed"} THEN cl.at ELSE "pending"

\* One step of the contract: of the verdict, or of the outcome, or none.
ContractStep(cl, sv, cl2, sv2) ==
    /\ cl2.opts = cl.opts
    /\ \/ Outcome(cl2) = Outcome(cl) /\ sv2.verdict = sv.verdict
       \/ /\ Outcome(cl2) = Outcome(cl)
          /\ sv.verdict = "none" /\ sv2.verdict \in {"accepted", "rejected"}
       \/ /\ Outcome(cl) = "pending" /\ sv2.verdict = sv.verdict
          /\ \/ Outcome(cl2) = "failed"
             \/ /\ Outcome(cl2) = "live"
                /\ sv.verdict = "accepted" \/ (sv.verdict = "rejected" /\ ~Plays(cl))
             \/ Outcome(cl2) = "refused" /\ sv.verdict = "rejected" /\ Plays(cl)

LEMMA ContractSteps ==
    ASSUME IInv, NEW c \in Conn, NEW cl2 \in ClientState, NEW sv2 \in ServerState,
           client' = [client EXCEPT ![c] = cl2], server' = [server EXCEPT ![c] = sv2],
           ContractStep(client[c], server[c], cl2, sv2)
    PROVE  Contract!Next \/ UNCHANGED Contract!vars
<1> DEFINE role == [e \in Conn |-> client[e].opts.role]
           verdict == [e \in Conn |-> server[e].verdict]
           outcome == [e \in Conn |-> Outcome(client[e])]
<1>1. /\ client \in [Conn -> ClientState] /\ server \in [Conn -> ServerState]
      /\ client[c].opts.role \in {"publisher", "player"}
  BY OfConnection DEF ClientState, Option
<1>2. role' = role
  BY <1>1 DEF ContractStep
<1>3. /\ verdict' = [verdict EXCEPT ![c] = sv2.verdict]
      /\ outcome' = [outcome EXCEPT ![c] = Outcome(cl2)]
  BY <1>1
<1>4. verdict[c] = server[c].verdict /\ outcome[c] = Outcome(client[c])
      /\ role[c] = client[c].opts.role
  OBVIOUS
<1>5. /\ [e \in Conn |-> IF client[e].at \in {"live", "refused", "failed"} THEN client[e].at
                         ELSE "pending"] = outcome
      /\ [e \in Conn |-> IF client[e].at \in {"live", "refused", "failed"} THEN client[e].at
                         ELSE "pending"]' = outcome'
  BY DEF Outcome
<1>6. /\ sv2.verdict = server[c].verdict => verdict' = verdict
      /\ Outcome(cl2) = Outcome(client[c]) => outcome' = outcome
  BY <1>3
<1> HIDE DEF role, verdict, outcome
<1>7. \/ UNCHANGED <<role, verdict, outcome>>
      \/ /\ verdict[c] = "none"
         /\ \E v \in {"accepted", "rejected"} : verdict' = [verdict EXCEPT ![c] = v]
         /\ UNCHANGED <<role, outcome>>
      \/ /\ outcome[c] = "pending"
         /\ \/ /\ verdict[c] = "accepted" \/ (verdict[c] = "rejected" /\ role[c] = "publisher")
               /\ outcome' = [outcome EXCEPT ![c] = "live"]
            \/ /\ verdict[c] = "rejected" /\ role[c] = "player"
               /\ outcome' = [outcome EXCEPT ![c] = "refused"]
         /\ UNCHANGED <<role, verdict>>
      \/ /\ outcome[c] = "pending"
         /\ outcome' = [outcome EXCEPT ![c] = "failed"]
         /\ UNCHANGED <<role, verdict>>
  BY <1>1, <1>2, <1>3, <1>4, <1>6 DEF ContractStep, Plays
<1> QED BY <1>5, <1>7
    DEF role, verdict, Contract!Next, Contract!Decide, Contract!Learn, Contract!Fail, Contract!vars

\* connect has not returned, and does not by this step.
LEMMA StillPending ==
    ASSUME IInv, NEW c \in Conn,
           \/ Dial(c) \/ ClientHandshake(c) \/ ClientWaitsForResult(c) \/ ClientConnected(c)
           \/ ClientCreated(c) \/ ClientHangs(c) \/ ForeignClient(c)
    PROVE  Contract!Next \/ UNCHANGED Contract!vars
<1>1. /\ client[c] \in ClientState /\ server[c] \in ServerState
      /\ client \in [Conn -> ClientState] /\ server \in [Conn -> ServerState]
  BY OfConnection
<1>2. PICK cl2 \in ClientState :
         /\ client' = [client EXCEPT ![c] = cl2] /\ cl2.opts = client[c].opts
         /\ client[c].at \in {"idle"} \cup Inside /\ cl2.at \in Inside \cup {"hung"}
  <2>1. client' \in [Conn -> ClientState]
    BY StepOfConnection DEF ClientStep, IInv, TypeOK
  <2>2. \A e \in Conn : e # c => client'[e] = client[e]
    BY <1>1 DEF Dial, ClientHandshake, ClientWaitsForResult, ClientConnected, ClientCreated,
       ClientHangs, ForeignClient
  <2>3. client' = [client EXCEPT ![c] = client'[c]] /\ client'[c] \in ClientState
    BY <1>1, <2>1, <2>2
  <2>4. /\ client'[c].opts = client[c].opts /\ client[c].at \in {"idle"} \cup Inside
        /\ client'[c].at \in Inside \cup {"hung"}
    <3>1. CASE Dial(c)
      BY <1>1, <3>1 DEF Dial, Inside, ClientState
    <3>2. CASE ClientHandshake(c)
      BY <1>1, <3>2 DEF ClientHandshake, Inside, ClientState
    <3>3. CASE ClientWaitsForResult(c)
      BY <1>1, <3>3 DEF ClientWaitsForResult, Applied, Inside, ClientState
    <3>4. CASE ClientConnected(c) \/ ClientCreated(c)
      BY <1>1, <3>4 DEF ClientConnected, ClientCreated, Inside, ClientState
    <3>5. CASE ClientHangs(c) \/ ForeignClient(c)
      <4>1. client' = [client EXCEPT ![c].at = "hung"] /\ client[c].at \in Inside
        BY <3>5 DEF ClientHangs, ForeignClient, Inside
      <4> QED BY <1>1, <4>1 DEF ClientState
    <3> QED BY <3>1, <3>2, <3>3, <3>4, <3>5
  <2> QED BY <2>3, <2>4
<1>3. server' = [server EXCEPT ![c] = server[c]]
  BY <1>1 DEF Dial, ClientHandshake, ClientWaitsForResult, ClientConnected, ClientCreated,
     ClientHangs, ForeignClient
<1>4. ContractStep(client[c], server[c], cl2, server[c])
  BY <1>2 DEF ContractStep, Outcome, Inside
<1> QED BY <1>1, <1>2, <1>3, <1>4, ContractSteps

\* A publisher's connect returns once there is a verdict, whichever it is.
LEMMA PublisherLearns ==
    ASSUME IInv, NEW c \in Conn, ClientWaitsForPublishStart(c)
    PROVE  Contract!Next \/ UNCHANGED Contract!vars
<1>1. PICK at \in {"start", "live"} :
         client' = [client EXCEPT ![c].tries = @ + 1, ![c].at = at]
  BY DEF ClientWaitsForPublishStart
<1> DEFINE cl2 == [client[c] EXCEPT !.tries = @ + 1, !.at = at]
<1>2. /\ client[c] \in ClientState /\ server[c] \in ServerState
      /\ client \in [Conn -> ClientState] /\ server \in [Conn -> ServerState]
  BY OfConnection
<1>3. /\ client' = [client EXCEPT ![c] = cl2] /\ cl2.opts = client[c].opts /\ cl2.at = at
      /\ server' = server /\ client[c].at = "start" /\ ~Plays(client[c])
  BY <1>1, <1>2 DEF ClientWaitsForPublishStart, ClientState, IsPlayer, Plays
<1>4. IInv'
  BY StepClientWaitsForPublishStart
<1> HIDE DEF cl2
<1>5. cl2 \in ClientState /\ ClientGood(cl2, server[c])
  BY <1>2, <1>3, <1>4 DEF IInv, TypeOK, Good
<1>6. at = "live" => server[c].verdict \in {"accepted", "rejected"}
  BY <1>2, <1>3, <1>5 DEF ClientGood, ServerState
<1>7. ContractStep(client[c], server[c], cl2, server[c])
  BY <1>3, <1>6 DEF ContractStep, Outcome
<1>8. server' = [server EXCEPT ![c] = server[c]]
  BY <1>2, <1>3
<1> QED BY <1>2, <1>3, <1>5, <1>7, <1>8, ContractSteps

\* The first message on its way to the client says the verdict.
LEMMA StatusTellsVerdict ==
    ASSUME IInv, NEW c \in Conn
    PROVE  /\ NextDown(c).kind = "Play.Start" => server[c].verdict = "accepted"
           /\ NextDown(c).kind \in Refusals => server[c].verdict = "rejected"
<1>1. CASE down[c].msgs = <<>>
  BY <1>1 DEF NextDown, Msg, Refusals
<1>2. CASE down[c].msgs # <<>>
  <2>1. NextDown(c) = down[c].msgs[1] /\ 1 \in 1 .. Len(down[c].msgs)
    <3>1. down[c].msgs \in Seq(Message)
      BY OfConnection DEF Pipe
    <3> QED BY <1>2, <3>1, NextIsFirst
  <2>2. DownFact(server[c], down[c].msgs[1])
    BY <2>1, OfConnection DEF Good, DownGood
  <2> QED BY <2>1, <2>2 DEF DownFact
<1> QED BY <1>1, <1>2

\* A player's connect returns Ok when its request was accepted.
LEMMA PlayerLearns ==
    ASSUME IInv, NEW c \in Conn, ClientWaitsForPlayStart(c)
    PROVE  Contract!Next \/ UNCHANGED Contract!vars
<1>1. /\ client[c] \in ClientState /\ server[c] \in ServerState
      /\ client \in [Conn -> ClientState] /\ server \in [Conn -> ServerState]
  BY OfConnection
<1>2. IInv'
  BY StepClientWaitsForPlayStart
<1>3. PICK cl2 : /\ client' = [client EXCEPT ![c] = cl2] /\ cl2.opts = client[c].opts
                 /\ cl2.at = IF NextDown(c).kind = "Play.Start" THEN "live" ELSE "start"
  <2> DEFINE cl2 == [Applied(client[c], NextDown(c).kind) EXCEPT
            !.tries = @ + 1,
            !.recorded = @ \/ NextDown(c).kind = "StreamIsRecorded",
            !.at = IF NextDown(c).kind = "Play.Start" THEN "live" ELSE @]
  <2>1. client' = [client EXCEPT ![c] = cl2] /\ client[c].at = "start"
    BY DEF ClientWaitsForPlayStart
  <2>2. cl2.opts = client[c].opts
        /\ cl2.at = IF NextDown(c).kind = "Play.Start" THEN "live" ELSE "start"
    BY <1>1, <2>1 DEF Applied, ClientState
  <2> QED BY <2>1, <2>2
<1>4. /\ server' = [server EXCEPT ![c] = server[c]] /\ client[c].at = "start"
      /\ cl2 \in ClientState
  BY <1>1, <1>2, <1>3 DEF ClientWaitsForPlayStart, IInv, TypeOK
<1>5. ContractStep(client[c], server[c], cl2, server[c])
  BY <1>3, <1>4, StatusTellsVerdict DEF ContractStep, Outcome
<1> QED BY <1>1, <1>3, <1>4, <1>5, ContractSteps

\* connect returns Err.
LEMMA ConnectFails ==
    ASSUME IInv, NEW c \in Conn, ClientRefused(c) \/ ClientErrs(c) \/ ClientDies(c)
    PROVE  Contract!Next \/ UNCHANGED Contract!vars
<1>1. /\ client[c] \in ClientState /\ server[c] \in ServerState
      /\ client \in [Conn -> ClientState] /\ server \in [Conn -> ServerState]
  BY OfConnection
<1>2. PICK at \in {"refused", "failed"} :
         /\ client' = [client EXCEPT ![c].at = at] /\ client[c].at \in Inside
         /\ at = "refused" => Plays(client[c]) /\ server[c].verdict = "rejected"
  BY StatusTellsVerdict DEF ClientRefused, ClientErrs, ClientDies, IsPlayer, Plays, Inside
<1> DEFINE cl2 == [client[c] EXCEPT !.at = at]
<1>3. /\ client' = [client EXCEPT ![c] = cl2] /\ cl2.opts = client[c].opts /\ cl2.at = at
      /\ server' = [server EXCEPT ![c] = server[c]] /\ cl2 \in ClientState
  BY <1>1, <1>2 DEF ClientRefused, ClientErrs, ClientDies, ClientState
<1> HIDE DEF cl2
<1>4. ContractStep(client[c], server[c], cl2, server[c])
  BY <1>2, <1>3 DEF ContractStep, Outcome, Inside
<1> QED BY <1>1, <1>3, <1>4, ContractSteps

\* The server's steps before its verdict, and those that give none.
LEMMA ServerPrepares ==
    ASSUME IInv, NEW c \in Conn, ServerStep(c) \/ ServerDies(c)
    PROVE  Contract!Next \/ UNCHANGED Contract!vars
<1>1. /\ client[c] \in ClientState /\ server[c] \in ServerState
      /\ client \in [Conn -> ClientState] /\ server \in [Conn -> ServerState]
  BY OfConnection
<1>2. IInv'
  BY StepOfConnection
<1>3. /\ \A e \in Conn : e # c => server'[e] = server[e]
      /\ client' = client
  BY <1>1 DEF ServerStep, Accept, ServerHandshake, ServerHandshakeDone, ServerApplies,
     ServerConnect, ServerCommand, ForeignRefusesCommand, ServerRequest, ServerErrs, ServerDies
<1>4. server'[c].verdict = server[c].verdict
  <2>1. CASE Accept(c) \/ ServerHandshakeDone(c)
    BY <1>1, <2>1 DEF Accept, ServerHandshakeDone, ServerState
  <2>2. CASE ServerHandshake(c)
    BY <1>1, <2>2 DEF ServerHandshake, ServerState
  <2>3. CASE ServerApplies(c)
    BY <1>1, <2>3 DEF ServerApplies, ServerState
  <2>4. CASE ServerConnect(c) \/ ServerCommand(c) \/ ForeignRefusesCommand(c)
    BY <1>1, <2>4 DEF ServerConnect, ServerCommand, ForeignRefusesCommand, ServerState
  <2>5. CASE ServerRequest(c)
    BY <1>1, <2>5 DEF ServerRequest, ServerState
  <2>6. CASE ServerErrs(c) \/ ServerDies(c)
    BY <1>1, <2>6 DEF ServerErrs, ServerDies, ServerState
  <2> QED BY <2>1, <2>2, <2>3, <2>4, <2>5, <2>6 DEF ServerStep
<1>5. PICK sv2 \in ServerState :
         server' = [server EXCEPT ![c] = sv2] /\ sv2.verdict = server[c].verdict
  <2>1. server' \in [Conn -> ServerState]
    BY <1>2 DEF IInv, TypeOK
  <2>2. server' = [server EXCEPT ![c] = server'[c]] /\ server'[c] \in ServerState
    BY <1>1, <1>3, <2>1
  <2> QED BY <1>4, <2>2
<1>6. client' = [client EXCEPT ![c] = client[c]]
  BY <1>1, <1>3
<1>7. ContractStep(client[c], server[c], client[c], sv2)
  BY <1>5 DEF ContractStep
<1> QED BY <1>1, <1>5, <1>6, <1>7, ContractSteps

\* The application decides, once.
LEMMA ServerDecides ==
    ASSUME IInv, NEW c \in Conn, Verdict(c)
    PROVE  Contract!Next \/ UNCHANGED Contract!vars
<1>1. /\ client[c] \in ClientState /\ server[c] \in ServerState
      /\ client \in [Conn -> ClientState] /\ server \in [Conn -> ServerState]
      /\ ServerGood(client[c], server[c])
  BY OfConnection DEF Good
<1>2. IInv'
  BY StepOfConnection
<1>3. /\ \A e \in Conn : e # c => server'[e] = server[e]
      /\ client' = client /\ server[c].at = "request"
      /\ server'[c].verdict \in {"accepted", "rejected"}
  <2>1. CASE \E recorded \in BOOLEAN : AppAccepts(c, recorded)
    BY <1>1, <2>1, SMTT(30) DEF AppAccepts, ServerState
  <2>2. CASE \E tail \in ForeignTails : ForeignAccepts(c, tail)
    <3>1. PICK recorded, changes :
             server' = [server EXCEPT ![c].at = "live", ![c].verdict = "accepted",
                                      ![c].recorded = recorded, ![c].changes = changes]
      BY <2>2 DEF ForeignAccepts
    <3>2. client' = client /\ server[c].at = "request"
      BY <2>2 DEF ForeignAccepts
    <3> QED BY <1>1, <3>1, <3>2 DEF ServerState
  <2>3. CASE AppRejects(c)
    BY <1>1, <2>3, SMTT(30) DEF AppRejects, ServerState
  <2> QED BY <2>1, <2>2, <2>3 DEF Verdict
<1>4. PICK sv2 \in ServerState :
         server' = [server EXCEPT ![c] = sv2] /\ sv2.verdict \in {"accepted", "rejected"}
  <2>1. server' \in [Conn -> ServerState]
    BY <1>2 DEF IInv, TypeOK
  <2>2. server' = [server EXCEPT ![c] = server'[c]] /\ server'[c] \in ServerState
    BY <1>1, <1>3, <2>1
  <2> QED BY <1>3, <2>2
<1>5. server[c].verdict = "none"
  BY <1>1, <1>3 DEF ServerGood, ServerState
<1>6. client' = [client EXCEPT ![c] = client[c]]
  BY <1>1, <1>3
<1>7. ContractStep(client[c], server[c], client[c], sv2)
  BY <1>4, <1>5 DEF ContractStep
<1> QED BY <1>1, <1>4, <1>6, <1>7, ContractSteps

\* Connection setup keeps its contract: the application gives one verdict per request, a
\* player's connect returns Ok only if the request was accepted and Rejected only if it was
\* rejected, and a publisher's returns Ok only after a verdict.
THEOREM KeepsContract == Spec => HandoverSpec
<1>1. Init => Contract!Init
  <2> SUFFICES ASSUME Init PROVE Contract!Init
    OBVIOUS
  <2>1. PICK opts \in [Conn -> Option] : client = [c \in Conn |->
                [opts |-> opts[c], at |-> "idle", kind |-> "simple", sid |-> 0, tries |-> 0,
                 window |-> FALSE, size |-> "default", adopted |-> {},
                 recorded |-> FALSE]]
    BY DEF Init
  <2>2. \A c \in Conn : client[c].opts.role \in {"publisher", "player"} /\ client[c].at = "idle"
    BY <2>1 DEF Option
  <2>3. \A c \in Conn : server[c].verdict = "none"
    BY DEF Init
  <2> QED BY <2>2, <2>3 DEF Contract!Init
<1>2. ASSUME IInv, [Next]_vars PROVE [Contract!Next]_(Contract!vars)
  <2>1. CASE Next
    <3>1. PICK c \in Conn :
             \/ Dial(c) \/ ClientStep(c) \/ ClientDies(c) \/ ClientHangs(c) \/ ForeignClient(c)
             \/ ServerStep(c) \/ Verdict(c) \/ ServerDies(c)
      BY <2>1 DEF Next
    <3> QED BY <1>2, <3>1, StillPending, PublisherLearns, PlayerLearns, ConnectFails,
               ServerPrepares, ServerDecides DEF ClientStep
  <2>2. CASE UNCHANGED vars
    BY <2>2 DEF vars, Contract!vars
  <2> QED BY <1>2, <2>1, <2>2
<1> QED BY <1>1, <1>2, Invariant, PTL DEF Spec, HandoverSpec, Contract!Spec
=============================================================================
