----------------------------- MODULE MCMysqlPool -----------------------------
(***************************************************************************)
(* MysqlPool for TLC: four worker threads compete for at most two          *)
(* connections. Start-up may open both or only one of them; the other is   *)
(* then opened on demand.                                                  *)
(***************************************************************************)
EXTENDS MysqlPool
=============================================================================
