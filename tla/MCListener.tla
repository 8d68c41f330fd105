----------------------------- MODULE MCListener -----------------------------
(***************************************************************************)
(* Listener for TLC: one client uses the second port, all others the       *)
(* first.  A round in which a PostAcceptEx fails leaves fewer accepts than *)
(* clients there.                                                          *)
(***************************************************************************)
EXTENDS Listener

CONSTANT Other  \* the client of the second port

MCPortOf == [c \in Clients |-> IF c = Other THEN 2 ELSE 1]
=============================================================================
