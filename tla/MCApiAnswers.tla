---------------------------- MODULE MCApiAnswers ----------------------------
(***************************************************************************)
(* ApiAnswers for TLC.  The answers are the documents quoted in            *)
(* doAPIResponse.cpp, lists of none to two pools, the shape that           *)
(* doPoolList03Response looks for, and one that lacks elements.            *)
(***************************************************************************)
EXTENDS ApiAnswers

Leaf(name, text) == Elem(name, text, <<>>)

DisNumber ==
    Elem("businessServiceResponse", NULL,
         <<Leaf("RspType", "0"), Leaf("result", "1"), Leaf("resultMsg", "stopped"),
           Leaf("GROUP_TRANSACTIONID", "t1")>>)

Pool(nbr, size) ==
    Elem("pool", NULL,
         <<Leaf("create_date", "d1"), Leaf("pool_infoUnit", "GB"),
           Leaf("state", "used"), Leaf("pool_info", size), Leaf("exp_date", "d2"),
           Leaf("acc_nbr", nbr), Leaf("eff_date", "d3")>>)

PoolList(pools) == Elem("poolList", NULL, pools)

Usage == <<Leaf("pool_already", "4"), Leaf("pool_left", "5"),
           Leaf("pool_total", "9"), Leaf("GROUP_TRANSACTIONID", "t2")>>

PoolQry == Elem("SvcCont", NULL, <<Leaf("IRESULT", "0")>> \o Usage)

PoolQryNested == Elem("SvcCont", NULL, <<Elem("IRESULT", "0", Usage)>>)

MCAnswers ==
    {Broken, DisNumber, PoolList(<<>>), PoolList(<<Pool("p1", "9")>>),
     PoolList(<<Pool("p1", "9"), Pool("p2", "1")>>), PoolQry, PoolQryNested}

MCAccepted == {Broken, DisNumber}

MCMembers == "p1" :> 2 @@ "p2" :> 0

\* The answers above are the documented ones.
ASSUME DocumentedAnswers == AnswersDocumented
=============================================================================
