------------------------------ MODULE Teardown ------------------------------
(***************************************************************************)
(* How a live session ends: RtmpClient, RtmpSession, RtmpPlayer and        *)
(* PlaySession close the same way (a goodbye message, a write-half FIN,    *)
(* drain_until_fin, the close of the socket), while the other end may be   *)
(* reading, writing or closing too.                                        *)
(*                                                                         *)
(* TCP is what src/netutil.rs says it is: a socket closed with unread      *)
(* input, or written to after it is closed, answers with a reset, and a    *)
(* reset may discard whatever the receiver of the reset has not read yet.  *)
(***************************************************************************)
EXTENDS Naturals, Sequences, FiniteSets

CONSTANTS
    MaxSends,   \* bound on the messages the application of an end writes
    MaxReplies  \* bound on the messages an end writes while it reads

End == {"client", "server"}
Peer(e) == CHOOSE p \in End : p # e

ASSUME TeardownBounds == MaxSends \in Nat /\ MaxReplies \in Nat

VARIABLES
    kind,     \* "publish": RtmpClient and RtmpSession; "play": RtmpPlayer and PlaySession
    phase,    \* where the session of an end stands
    inbox,    \* what its socket has not read yet, in flight or in the receive queue
    reset,    \* its socket has received a reset
    how,      \* history: how its socket was closed
    flushed,  \* history: messages it wrote to a connection that could still carry them
    got,      \* history: messages of the peer that reached the session's handler
    replies   \* history: replies written, for the bound

vars == <<kind, phase, inbox, reset, how, flushed, got, replies>>

Phase == {"live",      \* the application sends and polls
          "ended",     \* the last poll returned Ok(None)
          "errored",   \* the last poll returned Err
          "draining",  \* inside close: goodbye written, FIN sent
          "closed"}    \* the socket is closed

How == {"open", "drained", "error", "idle", "budget", "dropped"}

\* "data" is a message with meaning for the application, "goodbye" one that ends the
\* session of whoever reads it, "reply" an acknowledgement or a ping response.
Item == {"data", "goodbye", "reply", "fin"}

Init ==
    /\ kind \in {"publish", "play"}
    /\ phase = [e \in End |-> "live"]
    /\ inbox = [e \in End |-> <<>>]
    /\ reset = [e \in End |-> FALSE]
    /\ how = [e \in End |-> "open"]
    /\ flushed = [e \in End |-> 0]
    /\ got = [e \in End |-> 0]
    /\ replies = [e \in End |-> 0]

-----------------------------------------------------------------------------
(* The connection. *)

Carries(items) == Cardinality({i \in DOMAIN items : items[i] \in {"data", "goodbye"}})

Remains(items) == {SubSeq(items, 1, n) : n \in 0 .. Len(items)}

\* End e, which has `rest` left to read, writes `items`.  A closed peer answers with
\* a reset; on a connection already reset nothing leaves.
Writes(e, rest, items) ==
    LET p == Peer(e) IN
    IF items # <<>> /\ (phase[p] = "closed" \/ reset[e])
    THEN /\ inbox' \in {[inbox EXCEPT ![e] = r] : r \in Remains(rest)}
         /\ reset' = [reset EXCEPT ![e] = TRUE]
         /\ UNCHANGED flushed
    ELSE /\ inbox' = [inbox EXCEPT ![e] = rest, ![p] = @ \o items]
         /\ flushed' = [flushed EXCEPT ![e] = @ + Carries(items)]
         /\ UNCHANGED reset

\* The socket of e is closed with `rest` unread, after its FIN or with it.
ClosesSocket(e, rest, fin) ==
    LET p == Peer(e) IN
    /\ phase' = [phase EXCEPT ![e] = "closed"]
    /\ IF phase[p] = "closed" THEN inbox' = [inbox EXCEPT ![e] = <<>>] /\ UNCHANGED reset
       ELSE IF \E i \in DOMAIN rest : rest[i] # "fin"
       THEN /\ inbox' \in {[inbox EXCEPT ![e] = <<>>, ![p] = r] : r \in Remains(inbox[p])}
            /\ reset' = [reset EXCEPT ![p] = TRUE]
       ELSE /\ inbox' = [inbox EXCEPT ![e] = <<>>, ![p] = @ \o fin]
            /\ UNCHANGED reset

-----------------------------------------------------------------------------
(* A live session. *)

\* send_audio, send_video, send_metadata, forward, send_ping_request...
Send(e) ==
    /\ phase[e] = "live" /\ flushed[e] < MaxSends
    /\ Writes(e, inbox[e], <<"data">>)
    /\ UNCHANGED <<kind, phase, how, got, replies>>

\* What the session becomes when its handler gets an item.
After(item) == IF item = "goodbye" THEN "ended" ELSE "live"

\* poll_event, next_packet or next_event reads a message, owes no reply to it, and
\* hands it to the handler.
Read(e) ==
    /\ phase[e] = "live" /\ inbox[e] # <<>> /\ Head(inbox[e]) # "fin"
    /\ phase' = [phase EXCEPT ![e] = After(Head(inbox[e]))]
    /\ got' = [got EXCEPT ![e] = @ + Carries(<<Head(inbox[e])>>)]
    /\ inbox' = [inbox EXCEPT ![e] = Tail(@)]
    /\ UNCHANGED <<kind, reset, how, flushed, replies>>

\* The same, and maybe_send_ack writes an acknowledgement first.
ReadAndReply(e) ==
    /\ phase[e] = "live" /\ inbox[e] # <<>> /\ Head(inbox[e]) # "fin"
    /\ ~reset[e] /\ replies[e] < MaxReplies
    /\ replies' = [replies EXCEPT ![e] = @ + 1]
    /\ phase' = [phase EXCEPT ![e] = After(Head(inbox[e]))]
    /\ got' = [got EXCEPT ![e] = @ + Carries(<<Head(inbox[e])>>)]
    /\ Writes(e, Tail(inbox[e]), <<"reply">>)
    /\ UNCHANGED <<kind, how>>

\* Fault: the message is handled, and read again after the failed acknowledgement.
FaultReadTwice(e) ==
    /\ phase[e] = "live" /\ inbox[e] # <<>> /\ Head(inbox[e]) # "fin"
    /\ reset[e] /\ replies[e] < MaxReplies
    /\ replies' = [replies EXCEPT ![e] = @ + 1]
    /\ got' = [got EXCEPT ![e] = @ + Carries(<<Head(inbox[e])>>)]
    /\ UNCHANGED <<kind, phase, inbox, reset, how, flushed>>

\* The acknowledgement cannot be written: the poll returns Err, and the message it
\* had read is gone.
ReplyFails(e) ==
    /\ phase[e] = "live" /\ inbox[e] # <<>> /\ Head(inbox[e]) # "fin"
    /\ reset[e] /\ replies[e] < MaxReplies
    /\ phase' = [phase EXCEPT ![e] = "errored"]
    /\ inbox' = [inbox EXCEPT ![e] = Tail(@)]
    /\ UNCHANGED <<kind, reset, how, flushed, got, replies>>

\* Fault: only ConnectionReset ends a session, UnexpectedEof is a quiet line.
FaultEofIsQuiet(e) ==
    /\ phase[e] = "live" /\ inbox[e] = <<>> /\ reset[e]
    /\ phase' = [phase EXCEPT ![e] = "ended"]
    /\ UNCHANGED <<kind, inbox, reset, how, flushed, got, replies>>

\* UnexpectedEof or ConnectionReset: the poll returns Ok(None).
ReadEnd(e) ==
    /\ phase[e] = "live"
    /\ \/ inbox[e] # <<>> /\ Head(inbox[e]) = "fin"
       \/ inbox[e] = <<>> /\ reset[e]
    /\ phase' = [phase EXCEPT ![e] = "ended"]
    /\ UNCHANGED <<kind, inbox, reset, how, flushed, got, replies>>

-----------------------------------------------------------------------------
(* The end of a session. *)

\* closeStream, deleteStream and, to a player, StreamEOF end the session of the
\* reader.  A publisher only sees events: StreamEOF and Unpublish.Success.
Goodbye(e) ==
    IF kind = "publish" /\ e = "server" THEN <<"data", "data">> ELSE <<"goodbye">>

\* Fault: close without the drain, the session dropped right after its goodbye.
FaultNoDrain(e) ==
    LET p == Peer(e) IN
    /\ phase[e] \in {"live", "ended", "errored"}
    /\ phase' = [phase EXCEPT ![e] = "closed"]
    /\ how' = [how EXCEPT ![e] = "drained"]
    /\ flushed' = [flushed EXCEPT ![e] = @ + Carries(Goodbye(e))]
    /\ inbox' \in {[inbox EXCEPT ![e] = <<>>, ![p] = r] :
                      r \in IF inbox[e] = <<>> THEN {inbox[p] \o Goodbye(e) \o <<"fin">>}
                            ELSE Remains(inbox[p] \o Goodbye(e))}
    /\ reset' = [reset EXCEPT ![p] = inbox[e] # <<>>]
    /\ UNCHANGED <<kind, got, replies>>

\* Fault: the FIN leaves with the close of the socket, after the drain.
FaultFinAfterDrain(e) ==
    /\ phase[e] \in {"live", "ended", "errored"}
    /\ phase' = [phase EXCEPT ![e] = "draining"]
    /\ Writes(e, inbox[e], Goodbye(e))
    /\ UNCHANGED <<kind, how, got, replies>>

\* close, up to the drain: the goodbye, the flush and Shutdown::Write, whose errors
\* are ignored.
Close(e) ==
    /\ phase[e] \in {"live", "ended", "errored"}
    /\ phase' = [phase EXCEPT ![e] = "draining"]
    /\ Writes(e, inbox[e], Goodbye(e) \o <<"fin">>)
    /\ UNCHANGED <<kind, how, got, replies>>

\* One read of drain_until_fin finds bytes, and discards them.
DrainData(e) ==
    /\ phase[e] = "draining" /\ inbox[e] # <<>> /\ Head(inbox[e]) # "fin"
    /\ inbox' = [inbox EXCEPT ![e] = Tail(@)]
    /\ UNCHANGED <<kind, phase, reset, how, flushed, got, replies>>

\* Fault: the first read that returns, with bytes or not, ends the drain.
FaultDrainReadsOnce(e) ==
    /\ phase[e] = "draining"
    /\ inbox[e] # <<>> \/ reset[e]
    /\ how' = [how EXCEPT ![e] = IF reset[e] THEN "error" ELSE "drained"]
    /\ ClosesSocket(e, inbox[e], <<>>)
    /\ UNCHANGED <<kind, flushed, got, replies>>

\* It finds the peer's FIN, or an error: close returns and the socket is closed.
DrainEnds(e) ==
    /\ phase[e] = "draining"
    /\ \/ inbox[e] # <<>> /\ Head(inbox[e]) = "fin"
       \/ inbox[e] = <<>> /\ reset[e]
    /\ how' = [how EXCEPT ![e] = IF reset[e] THEN "error" ELSE "drained"]
    /\ ClosesSocket(e, inbox[e], <<>>)
    /\ UNCHANGED <<kind, flushed, got, replies>>

\* DRAIN_IDLE_CUTOFF passes without a byte, or DRAIN_BUDGET is spent.
DrainGivesUp(e) ==
    /\ phase[e] = "draining"
    /\ \/ inbox[e] = <<>> /\ how' = [how EXCEPT ![e] = "idle"]
       \/ how' = [how EXCEPT ![e] = "budget"]
    /\ ClosesSocket(e, inbox[e], <<>>)
    /\ UNCHANGED <<kind, flushed, got, replies>>

\* The application drops the session without close.
Drop(e) ==
    /\ phase[e] \in {"live", "ended", "errored"}
    /\ how' = [how EXCEPT ![e] = "dropped"]
    /\ ClosesSocket(e, inbox[e], <<"fin">>)
    /\ UNCHANGED <<kind, flushed, got, replies>>

-----------------------------------------------------------------------------
Reads(e) == Read(e) \/ ReadAndReply(e) \/ ReplyFails(e) \/ ReadEnd(e)
Drains(e) == DrainData(e) \/ DrainEnds(e)

Next ==
    \E e \in End :
        Send(e) \/ Reads(e) \/ Close(e) \/ Drains(e) \/ DrainGivesUp(e) \/ Drop(e)

Spec == Init /\ [][Next]_vars

\* An application that holds a live session keeps polling it, and a drain that can
\* read does.  Its two time limits are left out: what follows must not need them.
FairSpec ==
    /\ Spec
    /\ \A e \in End : WF_vars(Reads(e)) /\ WF_vars(Drains(e))

-----------------------------------------------------------------------------
(* Properties. *)

TypeOK ==
    /\ kind \in {"publish", "play"}
    /\ phase \in [End -> Phase]
    /\ inbox \in [End -> Seq(Item)]
    /\ reset \in [End -> BOOLEAN]
    /\ how \in [End -> How]
    /\ flushed \in [End -> Nat] /\ got \in [End -> Nat] /\ replies \in [End -> Nat]
    /\ \A e \in End : Carries(inbox[e]) + got[e] <= flushed[Peer(e)]

Stopped(e) == phase[e] \in {"ended", "errored"}

\* A session whose polls came to an end has been given everything its peer wrote up to
\* and including the goodbye, unless the peer dropped its session or its drain ran
\* into a time limit: no reset of an orderly close overtakes the last messages.
NothingLost ==
    \A e \in End :
        Stopped(e) => \/ got[e] = flushed[Peer(e)]
                      \/ how[Peer(e)] \in {"dropped", "idle", "budget"}

\* A reset is always the work of an end that gave up: when both ends close and both
\* drains meet the other's FIN, neither socket is ever reset.
ResetsExplained ==
    \A e \in End : reset[e] => how[Peer(e)] \in {"dropped", "idle", "budget", "error"}

\* Two ends that drain each other do not wait for each other: both get out, without
\* the time limits of either drain.
DrainsMeet ==
    (\A e \in End : phase[e] = "draining") ~> (\A e \in End : phase[e] = "closed")

\* The end of one session reaches a live one that keeps polling.
EndIsSeen ==
    \A e \in End : phase[Peer(e)] \in {"draining", "closed"} ~> phase[e] # "live"

\* drain_until_fin's idle cutoff: "a peer that has gone quiet without closing has
\* nothing more in flight to protect".
QuietPeerLosesNothing ==
    \A e \in End :
        Stopped(e) /\ how[Peer(e)] = "idle" => got[e] = flushed[Peer(e)]
=============================================================================
