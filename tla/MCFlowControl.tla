--------------------------- MODULE MCFlowControl ---------------------------
(* A small instance of FlowControl: enough media for the counter to wrap, or two limits  *)
(* in a row.                                                                             *)
EXTENDS FlowControl

MCBudgets == {[media |-> 3, controls |-> 1], [media |-> 0, controls |-> 2]}
=============================================================================
