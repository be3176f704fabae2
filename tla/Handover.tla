------------------------------ MODULE Handover ------------------------------
(***************************************************************************)
(* What connection setup promises to the two applications.  The server's   *)
(* application gives one verdict on a request; the caller of connect gets  *)
(* one outcome.  A player learns the verdict: it is live only if it was    *)
(* accepted and Rejected only if it was rejected.  A publisher's connect   *)
(* does not look into the status it waits for, so it is live as soon as    *)
(* there is a verdict, whichever it is.  Either side may fail on its own.  *)
(***************************************************************************)
CONSTANT Conn

VARIABLES
    role,      \* what each connection's client came for
    verdict,   \* the server application's answer to its request
    outcome    \* what the client's connect returned

vars == <<role, verdict, outcome>>

Init ==
    /\ role \in [Conn -> {"publisher", "player"}]
    /\ verdict = [c \in Conn |-> "none"]
    /\ outcome = [c \in Conn |-> "pending"]

Decide(c) ==
    /\ verdict[c] = "none"
    /\ \E v \in {"accepted", "rejected"} : verdict' = [verdict EXCEPT ![c] = v]
    /\ UNCHANGED <<role, outcome>>

Learn(c) ==
    /\ outcome[c] = "pending"
    /\ \/ /\ verdict[c] = "accepted" \/ (verdict[c] = "rejected" /\ role[c] = "publisher")
          /\ outcome' = [outcome EXCEPT ![c] = "live"]
       \/ /\ verdict[c] = "rejected" /\ role[c] = "player"
          /\ outcome' = [outcome EXCEPT ![c] = "refused"]
    /\ UNCHANGED <<role, verdict>>

Fail(c) ==
    /\ outcome[c] = "pending"
    /\ outcome' = [outcome EXCEPT ![c] = "failed"]
    /\ UNCHANGED <<role, verdict>>

Next == \E c \in Conn : Decide(c) \/ Learn(c) \/ Fail(c)

Spec == Init /\ [][Next]_vars
=============================================================================
