--------------------------- MODULE MCNegotiation ---------------------------
(***************************************************************************)
(* Small instances of Negotiation: two connections, so that a one-thread   *)
(* server has a queue, and loops that look at 3 and 4 messages.            *)
(***************************************************************************)
EXTENDS Negotiation, TLC

Opt(r, d, b, e) == [role |-> r, digest |-> d, buffer |-> b, reset |-> e]

CONSTANTS c1, c2

Publisher == Opt("publisher", FALSE, FALSE, FALSE)
Player == Opt("player", TRUE, TRUE, TRUE)

MCConn == {c1, c2}
MCOptions == (c1 :> {Publisher, Player}) @@ (c2 :> {Player})

\* A server that sends media at once and no status, one that probes first and has a
\* recorded stream, and one that changes its chunk size before its status and its window
\* behind it.
Chatty == {[i \in 1 .. 5 |-> Msg("Audio")],
           <<Msg("PingRequest"), Msg("StreamIsRecorded"), Msg("Play.Start")>>,
           <<Msg("SetChunkSize anew"), Msg("Play.Start"), Msg("WindowAckSize anew")>>}

\* One publisher, and a server that accepts it without a message.
OneConn == {c1}
OnePublisher == c1 :> {Publisher}
Silent == {<<>>}
=============================================================================
