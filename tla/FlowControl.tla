---------------------------- MODULE FlowControl ----------------------------
(***************************************************************************)
(* Acknowledgements and bandwidth limits on one connection: the byte       *)
(* counter of ChunkReader (src/chunk.rs), PeerBandwidthLimiter             *)
(* (src/message.rs), the WindowAckSize and SetPeerBandwidth arms of the    *)
(* setup loops and of the four sessions, and their maybe_send_ack.         *)
(*                                                                         *)
(* The crate acknowledges and never waits for an acknowledgement, and its  *)
(* sessions send no window or limit of their own accord.  One end may be   *)
(* another implementation, which does: it stops writing once a full window *)
(* is unacknowledged, and counts afresh whenever it writes a window or a   *)
(* limit, as set_window_ack_size does on the other side.  Its limits do    *)
(* not exceed the window it announced: the crate keeps one window for both *)
(* (the comment on set_window_ack_size).  Such a server may announce once  *)
(* more between its answer to createStream and the status that ends setup, *)
(* where wait_for_play_start listens and wait_for_publish_start does not.  *)
(*                                                                         *)
(* Sizes count bytes in any unit; a control message has size 1.            *)
(***************************************************************************)
EXTENDS Integers, Sequences

CONSTANTS
    CounterMod,   \* 2^32: the received-byte counter wraps there
    Windows,      \* window sizes an end may announce; 0 turns acknowledgements off
    AppSizes,     \* sizes of application messages
    Budgets       \* bounds to choose from: [media, controls], how many messages of the
                  \* applications, and windows and limits, are written after setup

\* A window so close to 2^32 that one message crosses both it and the wrap is never
\* seen full.  Nothing is acknowledged during setup, which writes up to three messages
\* behind a window that is adopted: a window that small is full before it counts.
ASSUME FlowConstants ==
    /\ CounterMod \in Nat \ {0}
    /\ 0 \in Windows /\ Windows \subseteq Nat /\ AppSizes \subseteq Nat \ {0}
    /\ \A w \in Windows, s \in AppSizes \cup {1} : w \notin 1 .. 3 /\ w + s <= CounterMod
    /\ Budgets \subseteq [media : Nat, controls : Nat]

End == {"client", "server"}
Peer(e) == IF e = "client" THEN "server" ELSE "client"

Hard == 0
Soft == 1
Dynamic == 2
Reserved == 3
LimitTypes == {Hard, Soft, Dynamic, Reserved}

Sized(k, s) == [kind |-> k, size |-> s, val |-> 0, limit |-> Hard]
WindowAckSize(w) == [Sized("WindowAckSize", 1) EXCEPT !.val = w]
SetPeerBandwidth(w, t) == [Sized("SetPeerBandwidth", 1) EXCEPT !.val = w, !.limit = t]
Ack(n) == [Sized("Ack", 1) EXCEPT !.val = n]
Created == Sized("Created", 1)
LastOfSetup == Sized("LastOfSetup", 1)
Media(s) == Sized("Media", s)

\* A window or a limit.
Announcements == {"WindowAckSize", "SetPeerBandwidth"}

Message ==
    {m \in [kind : Announcements \cup {"Ack", "Created", "LastOfSetup", "Media"},
            size : AppSizes \cup {1}, val : Nat, limit : LimitTypes] :
        m.kind \in Announcements => m.val \in Windows}

VARIABLES
    reader,   \* per end: received, window, lastAck of its ChunkReader
    limiter,  \* per end: its PeerBandwidthLimiter, window {} before the first limit
    starting, \* the ends that have entered wait_for_publish_start
    live,     \* the ends that are out of their setup loops
    wire,     \* per end: the messages on their way to it
    sender,   \* per end: the bytes written (modulo 2^32, as an acknowledgement names
              \* them), how many of them it counts as unacknowledged, the window it
              \* announced last
    other,    \* the end that is another implementation, if there is one
    left,     \* messages that may still be written
    fresh,    \* history, per end: bytes read since it last acknowledged or counted afresh
    missed    \* history: the ends that dropped a window, and have adopted none since

vars == <<reader, limiter, starting, live, wire, sender, other, left, fresh, missed>>

Bytes(ms) ==
    LET upTo[i \in 0 .. Len(ms)] == IF i = 0 THEN 0 ELSE upTo[i - 1] + ms[i].size
    IN  upTo[Len(ms)]

\* What an end writes during setup: a server announces a window and a limit of the same
\* size, answers createStream (to a client that publishes: `created`), and tells the client
\* to start; this crate's client writes nothing (w is 0), another may announce a window.
SetupOf(e, w, created, late) ==
    IF e = "server"
    THEN <<WindowAckSize(w), SetPeerBandwidth(w, Dynamic)>> \o created \o late \o <<LastOfSetup>>
    ELSE IF w = 0 THEN <<LastOfSetup>> ELSE <<WindowAckSize(w), LastOfSetup>>

\* What another server may announce between its answer to createStream and the status.
Lates(w) ==
    {<<>>} \cup {<<WindowAckSize(v)>> : v \in Windows}
           \cup {<<SetPeerBandwidth(v, t)>> :
                    v \in {u \in Windows \ {0} : w # 0 => u <= w}, t \in LimitTypes}

\* The window announced last, by w or behind it.
LastOf(w, late) == IF late # <<>> /\ late[1].kind = "WindowAckSize" THEN late[1].val ELSE w

Init ==
    /\ reader = [e \in End |-> [received |-> 0, window |-> 0, lastAck |-> 0]]
    /\ limiter = [e \in End |-> [window |-> {}, hard |-> FALSE]]
    /\ starting = {} /\ live = {}
    /\ other \in {{}} \cup {{e} : e \in End}
    /\ \E first \in [End -> Windows] :
       \E created \in {<<>>, <<Created>>}, late \in Lates(first["server"]) :
          /\ "client" \notin other => first["client"] = 0
          /\ "server" \notin other => late = <<>>
          /\ wire = [e \in End |-> SetupOf(Peer(e), first[Peer(e)], created, late)]
          /\ sender = [e \in End |->
                [sent |-> Bytes(SetupOf(e, first[e], created, late)) % CounterMod,
                 unacked |-> IF e = "server" /\ late = <<>> THEN Len(created) + 1 ELSE 1,
                 announced |-> IF e = "server" THEN LastOf(first[e], late) ELSE first[e]]]
    /\ left \in Budgets
    /\ fresh = [e \in End |-> 0] /\ missed = {}

-----------------------------------------------------------------------------
(* The reader and the limiter. *)

\* Fault: the counter does not wrap.
FaultNoWrap(r, m) == [r EXCEPT !.received = @ + m.size]

\* read_exact_counted, for all the bytes of a message.
Charged(r, m) == [r EXCEPT !.received = (@ + m.size) % CounterMod]

\* Fault: the counter that has wrapped is below the mark, and counts as no bytes at all.
FaultSaturating(r) == IF r.received < r.lastAck THEN 0 ELSE r.received - r.lastAck

\* wrapping_sub: the bytes since the last acknowledgement.
Since(r) == (r.received - r.lastAck) % CounterMod

\* Fault: an acknowledgement is due only once the window has been exceeded.
FaultDueLater(r) == r.window # 0 /\ Since(r) > r.window

AckDue(r) == r.window # 0 /\ Since(r) >= r.window

\* ack_due, when an acknowledgement is due.
Acked(r) == [r EXCEPT !.lastAck = r.received]

\* Fault: the acknowledgement names the bytes since the last one, not the total.
FaultAckOfDifference(r) == Ack(Since(r))

AckOf(r) == Ack(r.received)

\* set_window_ack_size: counting starts afresh.
WithWindow(r, w) == [r EXCEPT !.window = w, !.lastAck = r.received]

\* PeerBandwidthLimiter::apply, the window in effect afterwards.
Effective(l, w, t) ==
    CASE t = Hard \/ (t = Dynamic /\ l.hard) -> {w}
      [] t = Soft -> IF \E cur \in l.window : cur < w THEN l.window ELSE {w}
      [] OTHER -> l.window

\* ... and the limiter itself.
Limited(l, w, t) ==
    [window |-> Effective(l, w, t),
     hard |-> IF t \in {Hard, Soft} THEN t = Hard ELSE l.hard]

-----------------------------------------------------------------------------
(* One poll. *)

\* The end e writes ms; a window or a limit can only be the last of them, and the sender
\* counts afresh from there.
Sends(e, ms) ==
    LET last == ms[Len(ms)]
        restarts == ms # <<>> /\ last.kind \in Announcements
    IN  [sent |-> (sender[e].sent + Bytes(ms)) % CounterMod,
         unacked |-> IF restarts THEN 0 ELSE sender[e].unacked + Bytes(ms),
         announced |-> IF restarts /\ last.kind = "WindowAckSize"
                       THEN last.val ELSE sender[e].announced]

\* How far behind the bytes written an acknowledgement is.
Behind(s, n) == (s.sent - n) % CounterMod

\* A sender takes no acknowledgement from before it started to count afresh.
Acknowledged(s, m) ==
    IF m.kind = "Ack" /\ Behind(s, m.val) < s.unacked
    THEN [s EXCEPT !.unacked = Behind(s, m.val)] ELSE s

\* wait_for_publish_start drops a window or a limit.
Drops(e, m) == e \in starting /\ m.kind \in Announcements

\* Fault: the setup loops drop what is no command.
FaultSetupDropsWindows(e, r, m) == r

\* The other setup loops adopt windows and limits of any type alike; the limiter is not
\* told.  In none of them anything is answered or acknowledged.
ReaderInSetup(e, r, m) ==
    IF m.kind \in Announcements /\ ~Drops(e, m) THEN WithWindow(r, m.val) ELSE r

PollInSetup(e, m, r) ==
    /\ e \notin live
    /\ reader' = [reader EXCEPT ![e] = ReaderInSetup(e, r, m)]
    /\ starting' = IF m.kind = "Created" THEN starting \cup {e} ELSE starting
    /\ live' = IF m.kind = "LastOfSetup" THEN live \cup {e} ELSE live
    /\ wire' = [wire EXCEPT ![e] = Tail(@)]
    /\ fresh' = [fresh EXCEPT ![e] =
                    IF m.kind \in Announcements /\ ~Drops(e, m) THEN 0 ELSE @ + m.size]
    /\ missed' = IF m.kind \notin Announcements THEN missed
                 ELSE IF ~Drops(e, m) THEN missed \ {e}
                 ELSE IF m.kind = "WindowAckSize" THEN missed \cup {e} ELSE missed
    /\ sender' = [sender EXCEPT ![e] = Acknowledged(@, m)]
    /\ UNCHANGED <<limiter, other, left>>

\* Fault: every window is answered, whether it changes anything or not.
FaultAnswersAll(m, changed) ==
    IF m.kind \in Announcements THEN <<WindowAckSize(m.val)>> ELSE <<>>

Answer(m, changed) == IF changed THEN <<WindowAckSize(m.val)>> ELSE <<>>

\* A session: the acknowledgement first, then the message.
PollLive(e, m, r) ==
    LET acked == IF AckDue(r) THEN Acked(r) ELSE r
        ack == IF AckDue(r) THEN <<AckOf(r)>> ELSE <<>>
        l == IF m.kind = "SetPeerBandwidth" THEN Limited(limiter[e], m.val, m.limit)
             ELSE limiter[e]
        changed == l.window # limiter[e].window
        answer == Answer(m, changed)
        adopts == changed \/ m.kind = "WindowAckSize"
    IN  /\ e \in live
        /\ reader' = [reader EXCEPT ![e] = IF adopts THEN WithWindow(acked, m.val) ELSE acked]
        /\ limiter' = [limiter EXCEPT ![e] = l]
        /\ sender' = [sender EXCEPT ![e] = Acknowledged(Sends(e, ack \o answer), m)]
        /\ wire' = [wire EXCEPT ![e] = Tail(@), ![Peer(e)] = @ \o ack \o answer]
        /\ fresh' = [fresh EXCEPT ![e] = IF adopts \/ ack # <<>> THEN 0 ELSE @ + m.size]
        /\ missed' = IF adopts THEN missed \ {e} ELSE missed
        /\ UNCHANGED <<starting, live, other, left>>

\* read_message charges every byte of the message before anything else happens.
Poll(e) ==
    /\ wire[e] # <<>>
    /\ LET m == Head(wire[e])
           r == Charged(reader[e], m)
       IN  PollInSetup(e, m, r) \/ PollLive(e, m, r)

-----------------------------------------------------------------------------
(* What the ends write of their own accord. *)

Waiting(e) ==
    /\ e \in other
    /\ sender[e].announced # 0
    /\ sender[e].unacked >= sender[e].announced

Write(e, m) ==
    /\ e \in live
    /\ wire' = [wire EXCEPT ![Peer(e)] = Append(@, m)]
    /\ sender' = [sender EXCEPT ![e] = Sends(e, <<m>>)]
    /\ UNCHANGED <<reader, limiter, starting, live, other, fresh, missed>>

SendMedia(e, s) ==
    /\ left.media > 0 /\ left' = [left EXCEPT !.media = @ - 1]
    /\ ~Waiting(e)
    /\ Write(e, Media(s))

\* The sessions of this crate write none after setup.
SendControl(e, m) ==
    /\ left.controls > 0 /\ left' = [left EXCEPT !.controls = @ - 1]
    /\ e \in other
    /\ Write(e, m)

SendLimit(e, w, t) ==
    /\ w # 0 /\ (sender[e].announced # 0 => w <= sender[e].announced)
    /\ SendControl(e, SetPeerBandwidth(w, t))

Next ==
    \E e \in End :
        \/ Poll(e)
        \/ \E s \in AppSizes : SendMedia(e, s)
        \/ \E w \in Windows : SendControl(e, WindowAckSize(w))
        \/ \E w \in Windows, t \in LimitTypes : SendLimit(e, w, t)

Spec == Init /\ [][Next]_vars

\* Applications keep polling and TCP delivers what was written.
FairSpec == Spec /\ \A e \in End : WF_vars(Poll(e))

-----------------------------------------------------------------------------
(* Properties. *)

TypeOK ==
    /\ reader \in [End -> [received : 0 .. CounterMod - 1, window : Windows,
                           lastAck : 0 .. CounterMod - 1]]
    /\ limiter \in [End -> [window : SUBSET Windows, hard : BOOLEAN]]
    /\ starting \subseteq End /\ live \subseteq End /\ other \subseteq End /\ missed \subseteq End
    /\ wire \in [End -> Seq(Message)]
    /\ sender \in [End -> [sent : 0 .. CounterMod - 1, unacked : Nat, announced : Windows]]
    /\ left \in [media : Nat, controls : Nat]
    /\ fresh \in [End -> Nat]

\* After every poll less than a window is unacknowledged, wherever the counter has wrapped
\* (ack_due with its wrapping subtraction, set_window_ack_size).
AckedInTime ==
    \A e \in live : reader[e].window # 0 => fresh[e] < reader[e].window

\* The acknowledgements on their way to an end stand for bytes that have reached the other
\* one, each for more than those before it (maybe_send_ack).
AcksNameWhatArrived ==
    \A e \in End : \A i \in DOMAIN wire[e] :
        wire[e][i].kind = "Ack" =>
            /\ Behind(sender[e], wire[e][i].val) >= Bytes(wire[Peer(e)])
            /\ \A j \in 1 .. i - 1 : wire[e][j].kind = "Ack" =>
                  Behind(sender[e], wire[e][i].val) < Behind(sender[e], wire[e][j].val)

\* In no step does an end write so much that a turn of the counter is on its way to its
\* peer, or lies between it and an acknowledgement on its way back.  The code does not see
\* to that; the buffers of a TCP connection do.
WithinATurn ==
    [][\A e \in End :
        LET more == Bytes(wire'[Peer(e)]) - Bytes(wire[Peer(e)]) IN
        /\ Bytes(wire'[Peer(e)]) < CounterMod
        /\ \A i \in DOMAIN wire[e] : wire[e][i].kind = "Ack" =>
              Behind(sender[e], wire[e][i].val) + more < CounterMod]_vars

\* Once nothing is on its way, an end acknowledges no later than its peer waits for it,
\* whatever windows and limits the two have sent each other: unless it is a publisher whose
\* wait_for_publish_start dropped a window, and that has been sent none since.
AcksSoonEnough ==
    \A e \in End :
        wire[Peer(e)] = <<>> /\ sender[e].announced # 0 /\ Peer(e) \notin missed
            => reader[Peer(e)].window \in 1 .. sender[e].announced

\* A Soft limit does not widen the window that an earlier limit put in effect.  It may
\* widen one adopted during setup or announced since: the limiter does not know of those.
SoftNeverWidens ==
    [][\A e \in End :
        /\ wire[e] # <<>> /\ wire'[e] = Tail(wire[e])
        /\ Head(wire[e]).kind = "SetPeerBandwidth" /\ Head(wire[e]).limit = Soft
        /\ e \in live /\ reader[e].window \in limiter[e].window
        => reader'[e].window <= reader[e].window]_vars

\* The end that waits for an acknowledgement (there is at most one) gets it, unless its peer
\* dropped the window during setup.
Blocked == \E e \in other : Waiting(e) /\ Peer(e) \notin missed
Released == Blocked ~> ~Blocked

\* When the applications are silent the ends fall silent too: acknowledgements, which are
\* counted like all bytes, do not answer each other forever.
AcksDieOut == <>[](\A e \in End : wire[e] = <<>>)
=============================================================================
