------------------------------ MODULE Session ------------------------------
(***************************************************************************)
(* Live sessions: the polls of both ends of every connection, and the      *)
(* relay that is their main use.  One connection, Upstream, publishes (an  *)
(* RtmpClient and an RtmpSession); the others play (a PlaySession and an   *)
(* RtmpPlayer) and come to be when a subscriber joins.  The server's       *)
(* application replays the stored data frames to it and forwards every     *)
(* packet of the publisher (tests/play_relay.rs, tests/data_frame.rs).     *)
(*                                                                         *)
(* A connection delivers messages whole and in order (MessagePipe); how it *)
(* ends is the subject of Teardown.  A peer may be another implementation: *)
(* Traffic says what an end may write, the messages no session of this     *)
(* crate would write included.                                             *)
(***************************************************************************)
EXTENDS Dispatch

CONSTANTS
    Conn, Upstream,
    Traffic,      \* the scenes to choose from: [menu, budget], what the application of
                  \* each end may write, and a bound on how many times they write
    FirstTx,      \* 10: next_tx of RtmpClient and RtmpPlayer after setup
    InitialSize,  \* the chunk size at the end of setup
    Watched       \* the calls and pings of an end that the liveness properties follow

End == Conn \X {"client", "server"}
Peer(e) == <<e[1], IF e[2] = "client" THEN "server" ELSE "client">>
Ingest == <<Upstream, "server">>

Type(e) ==
    IF e[1] = Upstream
    THEN IF e[2] = "client" THEN "RtmpClient" ELSE "RtmpSession"
    ELSE IF e[2] = "client" THEN "RtmpPlayer" ELSE "PlaySession"

ASSUME SessionConstants ==
    /\ Upstream \in Conn
    /\ FirstTx \in Nat \ {0} /\ InitialSize \in Nat \ {0} /\ Watched \in Nat

\* Applications pack their aggregates with build_aggregate; for other packers there is
\* SendShifted.
Built(m) == m.kind = "Aggregate" => m = BuildAggregate(m.subs)

ASSUME TrafficIsBuilt ==
    \A t \in Traffic :
        /\ t.menu \in [End -> SUBSET Message] /\ t.budget \in Nat
        /\ \A e \in End : \A m \in t.menu[e] :
              Built(m) /\ \A i \in DOMAIN m.subs : Built(m.subs[i])

(* What order, relay and stored frames ask of the traffic. *)

\* A nested aggregate is the last of its outer one (see finding 4).
NestedLast ==
    \A t \in Traffic, e \in End : \A m \in t.menu[e] : \A i \in DOMAIN m.subs :
        m.subs[i].kind = "Aggregate" => i = Len(m.subs)

\* A message, or the members it has.
Members(m) == {m} \cup UNION {{s} \cup Range(s.subs) : s \in Range(m.subs)}

\* A player gets media and data from the relay only.
OnlyRelayed ==
    \A t \in Traffic, c \in Conn \ {Upstream} : \A m \in t.menu[<<c, "server">>] :
        \A s \in Members(m) : s.kind \notin Media \cup {"Data", "SetDataFrame"}

\* A bare data message with an object is metadata (see finding 5).
BareIsMetadata ==
    \A t \in Traffic : \A m \in t.menu[<<Upstream, "client">>] : \A s \in Members(m) :
        s.kind = "Data" /\ s.val # 0 => s.name \in {"", "onMetaData"}

VARIABLES
    menu,      \* the messages the application of each end may write
    session,   \* one record per end
    inbox,     \* what an end has not read yet: [msg, size], size that of its chunks
    out,       \* chunk size of each end's writer
    frames,    \* data_frames of the publish session
    relay,     \* the packet the server's application is forwarding, and to whom
    joined,    \* the play connections that are live
    answered,  \* per end: the calls its application has answered
    budget,    \* how many more messages applications may write
    sent,      \* history, per end: the messages its peer wrote to it
    handled    \* history, per end: those its polls have handled, without aggregates

vars == <<menu, session, inbox, out, frames, relay, joined, answered, budget, sent, handled>>
app == <<menu, joined, answered>>
log == <<budget, handled>>

SessionState == [subs : Seq(Sub), ended : BOOLEAN, size : Nat, recorded : BOOLEAN, tx : Nat]

Init ==
    /\ \E t \in Traffic : menu = t.menu /\ budget = t.budget
    /\ session = [e \in End |-> [subs |-> <<>>, ended |-> FALSE, size |-> InitialSize,
                                 recorded |-> FALSE, tx |-> FirstTx]]
    /\ inbox = [e \in End |-> <<>>]
    /\ out = [e \in End |-> InitialSize]
    /\ frames = <<>>
    /\ relay = [packet |-> <<>>, todo |-> {}]
    /\ joined = {}
    /\ answered = [e \in End |-> {}]
    /\ sent = [e \in End |-> <<>>]
    /\ handled = [e \in End |-> <<>>]

-----------------------------------------------------------------------------
(* Writing. *)

\* What a message means to the application that wrote it, an aggregate taken apart.
Unpacked(m) ==
    IF m.kind # "Aggregate" THEN <<m>>
    ELSE FlattenSeq([i \in DOMAIN m.subs |->
            IF m.subs[i].kind = "Aggregate" THEN m.subs[i].subs ELSE <<m.subs[i]>>])

Leaves(ms) == FlattenSeq([i \in DOMAIN ms |-> Unpacked(ms[i])])

\* The chunk size after the changes among ms.
SizeAfter(size, ms) ==
    LET changes == Those(ms, LAMBDA m : m.kind = "SetChunkSize")
    IN  IF changes = <<>> THEN size ELSE Last(changes).val

\* End e writes ms to its peer.  They travel as `wire`, which differs from ms when
\* an aggregate counts its sub-messages' time from another zero.
WriteAs(e, ms, wire) ==
    /\ inbox' = [inbox EXCEPT ![Peer(e)] =
                    @ \o [i \in DOMAIN wire |->
                            [msg |-> wire[i],
                             size |-> SizeAfter(out[e], Leaves(SubSeq(ms, 1, i - 1)))]]]
    /\ out' = [out EXCEPT ![e] = SizeAfter(@, Leaves(ms))]
    /\ sent' = [sent EXCEPT ![Peer(e)] = @ \o ms]

Write(e, ms) == WriteAs(e, ms, ms)

Live(e) == e[1] \in joined \cup {Upstream}

MayWrite(e) == Live(e) /\ ~session[e].ended /\ budget > 0 /\ budget' = budget - 1

\* send_audio, send_metadata, send_ping_request, pause, notify_seek, ... of the end's
\* application, or what a foreign peer writes.
Send(e) ==
    /\ MayWrite(e)
    /\ \E m \in menu[e] : Write(e, <<m>>)
    /\ UNCHANGED <<app, session, frames, relay, handled>>

\* Another muxer's aggregate: its sub-messages count from a zero `shift` before.
Shifted(m, shift) ==
    [m EXCEPT !.subs = [i \in DOMAIN m.subs |->
                           [m.subs[i] EXCEPT !.ts = (@ - shift) % TsMod]]]

SendShifted(e) ==
    /\ MayWrite(e)
    /\ \E m \in menu[e], shift \in 1 .. TsMod - 1 :
          /\ m.kind = "Aggregate"
          /\ WriteAs(e, <<m>>, <<Shifted(m, shift)>>)
    /\ UNCHANGED <<app, session, frames, relay, handled>>

\* A message by itself, or in an aggregate of one.
Wrapped(m) == {m, BuildAggregate(<<m>>)}

\* call and send_call: a fresh transaction id.  The sessions of a server leave the
\* choice of the id to the application, which counts as the clients do.  Another
\* implementation may pack its call in an aggregate.
Call(e) ==
    /\ MayWrite(e)
    /\ Plain("call", 0) \in menu[e]
    /\ \E w \in Wrapped(Plain("call", session[e].tx)) : Write(e, <<w>>)
    /\ session' = [session EXCEPT ![e].tx = @ + 1]
    /\ UNCHANGED <<app, frames, relay, handled>>

\* reply_call_result and reply_call_error: the application answers a call that its
\* session surfaced and that expects a response, or another implementation does, also
\* in an aggregate.
Answer(e, i) ==
    /\ i \in DOMAIN handled[e] \ answered[e]
    /\ Surfaces(Type(e), handled[e][i])
    /\ handled[e][i].kind = "call" /\ handled[e][i].val # 0
    /\ answered' = [answered EXCEPT ![e] = @ \cup {i}]
    /\ \E k \in Replies : \E w \in Wrapped(Plain(k, handled[e][i].val)) : Write(e, <<w>>)
    /\ UNCHANGED <<menu, joined, session, frames, relay, log>>

-----------------------------------------------------------------------------
(* Polling. *)

\* The handler gets m; `rest` is the session without it.
Handle(e, m, rest, left) ==
    LET type == Type(e)
        reply == Answers(type, m)
    IN
    /\ session' = [session EXCEPT ![e] = After(type, rest, m)]
    /\ handled' = IF m.kind = "Aggregate" THEN handled
                  ELSE [handled EXCEPT ![e] = Append(@, m)]
    /\ inbox' = [inbox EXCEPT ![e] = left,
                    ![Peer(e)] = @ \o [i \in DOMAIN reply |->
                                          [msg |-> reply[i], size |-> out[e]]]]
    /\ sent' = [sent EXCEPT ![Peer(e)] = @ \o reply]
    /\ IF e = Ingest
       THEN /\ frames' = FramesAfter(frames, m)
            /\ relay' = IF Surfaces(type, m) /\ Forwarded(m) # <<>>
                        THEN [packet |-> Forwarded(m), todo |-> joined] ELSE relay
       ELSE UNCHANGED <<frames, relay>>
    /\ UNCHANGED <<app, out, budget>>

\* The server's application polls the publisher once it is done with a packet.
MayPoll(e) == Live(e) /\ ~session[e].ended /\ (e = Ingest => relay.todo = {})

\* A turn of the poll loop that serves a queued sub-message...
PollSub(e) ==
    /\ MayPoll(e) /\ session[e].subs # <<>>
    /\ Handle(e, Head(session[e].subs), [session[e] EXCEPT !.subs = Tail(@)], inbox[e])

\* Fault: a message is read while sub-messages wait.
FaultReadsFirst(e) ==
    /\ MayPoll(e) /\ inbox[e] # <<>>
    /\ Handle(e, Head(inbox[e]).msg, session[e], Tail(inbox[e]))

\* ... and one that reads from the wire.
PollWire(e) ==
    /\ MayPoll(e) /\ session[e].subs = <<>> /\ inbox[e] # <<>>
    /\ Handle(e, Head(inbox[e]).msg, session[e], Tail(inbox[e]))

-----------------------------------------------------------------------------
(* The relay. *)

\* Fault: nothing is replayed to a late subscriber.
FaultNoReplay(c) ==
    /\ c \notin joined \cup {Upstream}
    /\ joined' = joined \cup {c}
    /\ UNCHANGED <<menu, answered, session, inbox, out, frames, relay, sent, log>>

\* A subscriber's play request is accepted, and the stored frames are replayed.
Join(c) ==
    /\ c \notin joined \cup {Upstream}
    /\ joined' = joined \cup {c}
    /\ Write(<<c, "server">>, [i \in DOMAIN frames |-> DataMessage(frames[i])])
    /\ UNCHANGED <<menu, answered, session, frames, relay, log>>

\* forward, for one subscriber.
Forward(c) ==
    /\ c \in relay.todo
    /\ relay' = [relay EXCEPT !.todo = @ \ {c}]
    /\ Write(<<c, "server">>, relay.packet)
    /\ UNCHANGED <<app, session, frames, log>>

-----------------------------------------------------------------------------
Poll(e) == PollSub(e) \/ PollWire(e)

Next ==
    \/ \E e \in End :
          \/ Send(e) \/ SendShifted(e) \/ Call(e)
          \/ \E i \in DOMAIN handled[e] : Answer(e, i)
          \/ Poll(e)
    \/ \E c \in Conn : Join(c) \/ Forward(c)

Spec == Init /\ [][Next]_vars

\* Every session that is held is polled, every call gets its answer, and a packet in
\* hand is forwarded.  Nobody has to write or to join.
FairSpec ==
    /\ Spec
    /\ \A e \in End : WF_vars(Poll(e)) /\ WF_vars(\E i \in DOMAIN handled[e] : Answer(e, i))
    /\ \A c \in Conn : WF_vars(Forward(c))

-----------------------------------------------------------------------------
(* Properties. *)

TypeOK ==
    /\ \E t \in Traffic : menu = t.menu /\ budget \in 0 .. t.budget
    /\ session \in [End -> SessionState]
    /\ inbox \in [End -> Seq([msg : Message, size : Nat])]
    /\ out \in [End -> Nat]
    /\ frames \in Seq(Frame)
    /\ \A i, j \in DOMAIN frames : frames[i].name = frames[j].name => i = j
    /\ relay \in [packet : Seq(Leaf), todo : SUBSET joined]
    /\ joined \subseteq Conn \ {Upstream}
    /\ answered \in [End -> SUBSET Nat]
    /\ sent \in [End -> Seq(Message)]
    /\ handled \in [End -> Seq(Leaf)]

\* Everything written to e, in the order its writers packed it.
Meant(e) == Leaves(sent[e])

\* The polls of a session handle every message exactly once, in the order in which the
\* peer wrote or packed it and at the time it gave it, however messages are bundled
\* and whatever zero an aggregate counts from.
HandledInOrder == \A e \in End : IsPrefix(handled[e], Meant(e))

\* No session reads a message with a chunk size other than the one it was written with,
\* also when the size was changed from inside an aggregate.
SizeInForce ==
    [][\A e \in End : Len(inbox'[e]) < Len(inbox[e])
                        => session[e].size = Head(inbox[e]).size]_vars

\* The last word of ms on data frame n is v.
Told(ms, n, v) ==
    \E i \in DOMAIN ms :
        /\ ms[i].kind = "Data" /\ ms[i].name = n /\ ms[i].val = v
        /\ \A j \in DOMAIN ms : j > i => ~(ms[j].kind = "Data" /\ ms[j].name = n)

\* The data messages written to a subscriber agree with the stored data frames, frame by
\* frame, whether the subscriber was there when a frame came or joined later and had it
\* replayed.  What its player makes of them is the matter of MetadataAgrees.
SubscribersAgree ==
    \A c \in joined \ relay.todo : \A i \in DOMAIN frames :
        Told(sent[<<c, "client">>], frames[i].name, frames[i].val)

\* The messages the polls of e returned something for.
Surfaced(e) == Those(handled[e], LAMBDA m : Surfaces(Type(e), m))

DataOf(ms) == Those(ms, LAMBDA m : m.kind \in {"Data", "SetDataFrame"})

\* A player that has caught up holds the metadata the server has stored, early or late
\* as it joined, as long as nobody uses another data frame: a player surfaces the frames
\* of any name as Metadata, without the name.
MetadataAgrees ==
    \A c \in joined \ relay.todo : \A i \in DOMAIN frames :
        LET player == <<c, "client">> IN
        /\ frames[i].name = "onMetaData" /\ frames[i].val # 0
        /\ inbox[player] = <<>> /\ session[player].subs = <<>> /\ ~session[player].ended
        /\ \A m \in Range(DataOf(Meant(player))) : m.name = "onMetaData"
        => LET shown == DataOf(Surfaced(player))
           IN  shown # <<>> /\ Last(shown).val = frames[i].val

MediaOf(ms) == Those(ms, LAMBDA m : m.kind \in Media)

\* The media of a relayed stream that a subscriber surfaces is an unbroken stretch of
\* what the publisher sent, with its timestamps.
RelayKeepsMedia ==
    \A c \in joined :
        \E i, j \in 0 .. Len(MediaOf(Meant(Ingest))) :
            MediaOf(Surfaced(<<c, "client">>)) = SubSeq(MediaOf(Meant(Ingest)), i + 1, j)

OverFor(e) == session[e].ended \/ session[Peer(e)].ended

\* A call that expects a response gets one, under its own id and never a second one, in
\* every direction and also when call or reply travels in an aggregate.
CallsReturn ==
    \A e \in End : \A n \in FirstTx .. FirstTx + Watched - 1 :
        (\E m \in Range(Meant(Peer(e))) : m.kind = "call" /\ m.val = n)
            ~> [](\/ OverFor(e)
                  \/ Cardinality({i \in DOMAIN Surfaced(e) :
                        Surfaced(e)[i].kind \in Replies /\ Surfaced(e)[i].val = n}) = 1)

\* A ping is answered by every session but the publish session of a server.
PingsAnswered ==
    \A e \in End \ {Ingest} : \A n \in 1 .. Watched :
        (Len(Those(Meant(e), LAMBDA m : m.kind = "PingRequest")) >= n)
            ~> \/ OverFor(e)
               \/ Len(Those(sent[Peer(e)], LAMBDA m : m.kind = "PingResponse")) >= n
=============================================================================
