------------------------------ MODULE MCDBPool ------------------------------
(***************************************************************************)
(* DBPool for TLC: three worker threads compete for two connections, so    *)
(* that one always has to wait, and one connection is opened on demand.    *)
(***************************************************************************)
EXTENDS DBPool
=============================================================================
