----------------------------- MODULE MCExchange -----------------------------
(* One connection, byte by byte, with a buffer small enough to fill up. *)
EXTENDS Exchange
=============================================================================
