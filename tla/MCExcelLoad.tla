----------------------------- MODULE MCExcelLoad -----------------------------
(***************************************************************************)
(* ExcelLoad for TLC: two workers import lists of cards, in both orders,   *)
(* so that they meet on a locked card.  One card is in sim_tbl, the other  *)
(* is not.  With a third import a worker waits for the pool's last         *)
(* connection, or for one that never comes back.  EXCEL_XSQD and           *)
(* EXCEL_ZXQD write one column as EXCEL_ZTXX does and are left to the      *)
(* proofs.                                                                 *)
(***************************************************************************)
EXTENDS ExcelLoad, TLC

CONSTANTS k1, k2

MCBatches ==
    {[sub |-> "SIM", rows |-> <<k1, k2>>, bad |-> 9],
     [sub |-> "XFQD", rows |-> <<k2, k1>>, bad |-> 9],
     [sub |-> "ZTXX", rows |-> <<k1>>, bad |-> 9],
     [sub |-> "TKQD", rows |-> <<k1>>, bad |-> 9],
     [sub |-> "SIM", rows |-> <<k1>>, bad |-> 0],
     [sub |-> "XFQD", rows |-> <<k1, k1>>, bad |-> 2]}

MCOldTbl == (k1 :> [iccid |-> Nil, khmc |-> Nil, zt |-> Nil, dqrq |-> 0]) @@ (k2 :> Nil)
=============================================================================
