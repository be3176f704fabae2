---------------------------- MODULE MessagePipe ----------------------------
(***************************************************************************)
(* What one direction of an RTMP connection promises to the sessions built *)
(* on it: the messages handed to write_message come out of read_message    *)
(* whole, unchanged, once each and in the order they were written.         *)
(***************************************************************************)
EXTENDS Naturals, Sequences

CONSTANT Message

VARIABLES
    sent,       \* every message a write_message call has finished writing
    delivered   \* every message a read_message call has returned

vars == <<sent, delivered>>

Init ==
    /\ sent = <<>>
    /\ delivered = <<>>

Send ==
    /\ sent' \in Seq(Message)
    /\ Len(sent') = Len(sent) + 1
    /\ SubSeq(sent', 1, Len(sent)) = sent
    /\ UNCHANGED delivered

Deliver ==
    /\ Len(delivered) < Len(sent)
    /\ delivered' = Append(delivered, sent[Len(delivered) + 1])
    /\ UNCHANGED sent

Next == Send \/ Deliver

Spec == Init /\ [][Next]_vars

=============================================================================
