------------------------------ MODULE MCNotify ------------------------------
(***************************************************************************)
(* Notify for TLC: documents longer than the feedback, as the carrier's    *)
(* are, and one that does not fit into the buffer.                         *)
(***************************************************************************)
EXTENDS Notify

MCPushes == <<[len |-> 5, kind |-> "text"], [len |-> 4, kind |-> "broken"],
              [len |-> 3, kind |-> "elements"], [len |-> 7, kind |-> "text"]>>
=============================================================================
