-------------------------- MODULE PagedQueryProofs --------------------------
(***************************************************************************)
(* Proofs about PagedQuery: what the pages of a list have to do with each  *)
(* other, and whose results a buffer object holds, for results, pages and  *)
(* filters of any number.                                                  *)
(***************************************************************************)
EXTENDS PagedQuery, FiniteSetTheorems, TLAPS

\* The commands that are no lists, and all commands.
Others == DOMAIN Adds \cup DOMAIN Lookups \cup DOMAIN ApiCommands
              \cup {"USER_ADD", "USER_LOGIN"}
Cmds == AdoLists \cup MysqlLists \cup Others

Queries == [cmd : Cmds, arg : Args \cup {"all", "address"}]
Results == [of : Queries, n : 0 .. MaxRows, epoch : 0 .. 1]

Fields ==
    /\ conn \in {"closed", "open", "down"}
    /\ epoch \in 0 .. 1
    /\ pRecorder \in Results \cup {NULL}
    /\ res \in Results \cup {NULL}
    /\ nRecSetCount \in 0 .. MaxRows
    /\ nSubSubCmd \in 0 .. 1
    /\ live \in Nat
    /\ reply.kind \in Kinds
    /\ sole \in Queries \cup {NoQuery, Several}
    /\ snap \in -1 .. MaxRows

\* A result in the buffer object is one that this connection asked for.
OwnResults ==
    /\ conn = "closed" => pRecorder = NULL /\ res = NULL
    /\ \A rec \in {pRecorder, res} : rec # NULL => rec.epoch = epoch

\* rec is the result that the list q has left, and no other size has been told.
LeftBy(rec, of) ==
    IF rec = NULL THEN snap = -1
    ELSE rec.of = of /\ nRecSetCount = rec.n /\ snap \in {-1, rec.n}

(***************************************************************************)
(* While a connection is used for one list only, what its command finds in *)
(* the buffer object is what the same list has put there.                  *)
(***************************************************************************)
OneList ==
    conn = "open" =>
        /\ sole = NoQuery => pRecorder = NULL /\ res = NULL /\ snap = -1
        /\ sole.cmd \in AdoLists => LeftBy(pRecorder, sole)
        /\ sole.cmd \in MysqlLists =>
             LeftBy(res, [sole EXCEPT !.arg = IF sole.cmd = "KH_LIST" THEN "address" ELSE @])

IInv ==
    /\ Fields
    /\ OwnResults
    /\ OneList
    /\ PagesFitTogether /\ Isolation /\ ResultsFreed
-----------------------------------------------------------------------------
(* The command tables *)

\* The ADO lists by name.
LEMMA AdoNames ==
    AdoLists =
        {"KH_QUERY", "KH_SIM_LIST", "KH_SIM_XSRQ", "KH_SIM_USING", "KH_SIM_U15D",
         "KH_SIM_U1M", "KH_SIM_D1M", "KH_SIM_D15D", "KHJL_KH", "KHJL_QUERY",
         "KHJL_LIST", "KHJL_SIM_XSRQ", "LLC_LIST", "LLTC_LIST", "DXZH_LIST",
         "SSDQ_LIST"}
<1>1. DOMAIN KhLists = {"KH_QUERY", "KH_SIM_LIST", "KH_SIM_XSRQ", "KH_SIM_USING",
        "KH_SIM_U15D", "KH_SIM_U1M", "KH_SIM_D1M", "KH_SIM_D15D"}
  BY DEF KhLists
<1>2. DOMAIN KhjlLists = {"KHJL_KH", "KHJL_QUERY", "KHJL_LIST", "KHJL_SIM_XSRQ"}
  BY DEF KhjlLists
<1>3. /\ DOMAIN LlcLists = {"LLC_LIST"} /\ DOMAIN LltcLists = {"LLTC_LIST"}
      /\ DOMAIN DxzhLists = {"DXZH_LIST"} /\ DOMAIN SsdqLists = {"SSDQ_LIST"}
  BY DEF LlcLists, LltcLists, DxzhLists, SsdqLists
<1>4. AdoLists = DOMAIN KhLists \cup DOMAIN KhjlLists \cup DOMAIN LlcLists
        \cup DOMAIN LltcLists \cup DOMAIN DxzhLists \cup DOMAIN SsdqLists
  BY DEF AdoLists, AdoTables
<1> QED
  BY <1>1, <1>2, <1>3, <1>4

\* No command belongs to two tables, and none has the name of NoQuery or Several.
LEMMA Tables ==
    /\ "none" \notin Cmds /\ "several" \notin Cmds
    /\ AdoLists \cap MysqlLists = {}
    /\ Others \cap (AdoLists \cup MysqlLists) = {}
    /\ WholeTable \subseteq AdoLists
    /\ "KH_LIST" \in MysqlLists
<1>1. DOMAIN Adds = {"KH_ADD", "KHJL_ADD", "SIM_ADD", "LLC_ADD", "LLTC_ADD", "DXZH_ADD",
        "SSDQ_ADD"}
  BY DEF Adds
<1>2. DOMAIN Lookups = {"KH_COUNT", "SIM_JRHM"}
  BY DEF Lookups
<1>3. DOMAIN ApiCommands = {"DN_DISABLE", "DN_ABLE", "PL_GET_LIST", "PL_LLC_INFO",
        "PL_LLC_POOLQRY"}
  BY DEF ApiCommands
<1> QED
  BY <1>1, <1>2, <1>3, AdoNames DEF Cmds, Others, MysqlLists, WholeTable

\* No query is NoQuery or Several.
LEMMA RealQueries ==
    /\ NoQuery \notin Queries /\ Several \notin Queries
    /\ Several # NoQuery
    /\ NoQuery.cmd \notin Cmds /\ Several.cmd \notin Cmds
BY Tables DEF Queries, NoQuery, Several

\* A result that a query leaves is no NULL pointer.
LEMMA RealResults ==
    ASSUME Fields, NEW q \in Queries, NEW n \in 0 .. MaxRows
    PROVE  /\ Result(q, n) \in Results /\ Result(q, n) # NULL
           /\ Result(q, n).of = q /\ Result(q, n).n = n /\ Result(q, n).epoch = epoch
BY RealQueries DEF Fields, Result, Results, NULL

-----------------------------------------------------------------------------
(* Requests *)

\* A request for a page of an ADO list.
LEMMA AdoRequest ==
    ASSUME NEW r \in PageRequests(AdoLists)
    PROVE  /\ r.cmd \in AdoLists /\ r.tag \in Int /\ r.page \in Int
           /\ r.sub \in 0 .. 1
           /\ Asked(r) \in Queries /\ Asked(r).cmd = r.cmd /\ Executed(r) = Asked(r)
<1>1. /\ r.cmd \in AdoLists /\ r.arg \in Args /\ r.tag \in Tags
      /\ r.page \in Pages /\ r.sub \in 0 .. 1
  BY DEF PageRequests
<1>2. /\ r.tag \in Int /\ r.page \in Int
  BY <1>1, PagedAssumption
<1>3. r.cmd # "KH_LIST"
  BY <1>1, Tables
<1> QED
  BY <1>1, <1>2, <1>3 DEF Asked, Executed, Queries, Cmds

\* A request for a page of a MySQL list.
LEMMA MysqlRequest ==
    ASSUME NEW r \in PageRequests(MysqlLists)
    PROVE  /\ r.cmd \in MysqlLists /\ r.tag \in Int /\ r.page \in Int
           /\ Asked(r) \in Queries /\ Asked(r).cmd = r.cmd /\ Executed(r) \in Queries
           /\ Executed(r) = [Asked(r) EXCEPT !.arg = IF Asked(r).cmd = "KH_LIST"
                                                     THEN "address" ELSE @]
<1>1. /\ r.cmd \in MysqlLists /\ r.arg \in Args /\ r.tag \in Tags
      /\ r.page \in Pages
  BY DEF PageRequests
<1>2. /\ r.tag \in Int /\ r.page \in Int
  BY <1>1, PagedAssumption
<1>3. r.cmd \notin WholeTable
  BY <1>1, Tables
<1> QED
  BY <1>1, <1>2, <1>3 DEF Asked, Executed, Queries, Cmds

\* A request that is not for a list.
LEMMA OtherRequest ==
    ASSUME NEW C \in SUBSET Others, NEW subs \in SUBSET (0 .. 1), NEW r \in Requests(C, subs)
    PROVE  /\ r.cmd \in Others /\ r.sub \in 0 .. 1
           /\ Asked(r) \in Queries /\ Asked(r).cmd = r.cmd
<1>1. r.cmd \in Others /\ r.arg \in Args /\ r.sub \in 0 .. 1
  BY DEF Requests
<1>2. r.cmd \notin WholeTable
  BY <1>1, Tables
<1> QED
  BY <1>1, <1>2 DEF Asked, Queries, Cmds

\* A command either is the connection's only one or makes it one of several.
LEMMA Used ==
    ASSUME Fields, NEW r, Asked(r) \in Queries, Use(r)
    PROVE  /\ sole' \in Queries \cup {NoQuery, Several} /\ sole' # NoQuery
           /\ sole' # Asked(r) => sole'.cmd \notin Cmds
           /\ sole' = Asked(r) => sole \in {NoQuery, Asked(r)}
BY RealQueries DEF Fields, Use

-----------------------------------------------------------------------------
(* Pages *)

\* The rows after row a.
LEMMA RestSize ==
    ASSUME NEW a \in Nat, NEW n \in Nat, a <= n
    PROVE  Cardinality(a + 1 .. n) = n - a
<1>1. Cardinality(a + 1 .. n) = IF a + 1 > n THEN 0 ELSE n - (a + 1) + 1
  BY FS_Interval
<1>2. n - a = IF a + 1 > n THEN 0 ELSE n - (a + 1) + 1
  OBVIOUS
<1> DEFINE c == Cardinality(a + 1 .. n)
<1>3. c = IF a + 1 > n THEN 0 ELSE n - (a + 1) + 1
  BY <1>1
<1> HIDE DEF c
<1>4. c = n - a
  BY <1>2, <1>3
<1> QED
  BY <1>4 DEF c

\* The rows of an interval that starts after row a and ends at row b or n.
LEMMA PageSize ==
    ASSUME NEW a \in Nat, NEW p \in Nat, NEW n \in Nat, a <= n
    PROVE  Cardinality({i \in 1 .. n : a < i /\ i <= a + p}) =
               IF n - a > p THEN p ELSE n - a
<1>1. CASE n - a > p
  <2>1. {i \in 1 .. n : a < i /\ i <= a + p} = a + 1 .. a + p
    BY <1>1
  <2>2. Cardinality(a + 1 .. a + p) = IF a + 1 > a + p THEN 0 ELSE (a + p) - (a + 1) + 1
    BY FS_Interval
  <2>3. p = IF a + 1 > a + p THEN 0 ELSE (a + p) - (a + 1) + 1
    OBVIOUS
  <2>4. Cardinality(a + 1 .. a + p) = p
    <3> DEFINE c == Cardinality(a + 1 .. a + p)
    <3>1. c = IF a + 1 > a + p THEN 0 ELSE (a + p) - (a + 1) + 1
      BY <2>2
    <3> HIDE DEF c
    <3>2. c = p
      BY <2>3, <3>1
    <3> QED
      BY <3>2 DEF c
  <2> QED
    BY <1>1, <2>1, <2>4, Zenon
<1>2. CASE ~(n - a > p)
  <2>1. {i \in 1 .. n : a < i /\ i <= a + p} = a + 1 .. n
    BY <1>2
  <2>2. Cardinality(a + 1 .. n) = n - a
    BY RestSize
  <2> QED
    BY <1>2, <2>1, <2>2, Zenon
<1> QED
  BY <1>1, <1>2

\* Where a page that is in range starts.
LEMMA PageStart ==
    ASSUME NEW r, r.tag \in Int, r.page \in Int, NEW n \in Nat, InRange(r, n)
    PROVE  Start(r) \in Nat /\ r.page \in Nat \ {0} /\ Start(r) <= n
<1>1. r.tag >= 1 /\ r.page >= 1 /\ Start(r) <= n
  BY DEF InRange
<1>2. PICK u \in Nat : u = r.tag - 1
  BY <1>1
<1>3. PICK p \in Nat \ {0} : p = r.page
  BY <1>1
<1>4. u * p \in Nat
  OBVIOUS
<1> QED
  BY <1>1, <1>2, <1>3, <1>4 DEF Start

\* What AdoPage sends of the result that the same list has left.
LEMMA AdoPageFits ==
    ASSUME NEW r \in PageRequests(AdoLists), NEW rec \in Results,
           rec.of = Executed(r), snap' = rec.n,
           r.cmd \in WholeTable => nSubSubCmd' = r.sub,
           PageReply(r, rec, rec.n, AdoRows(r, rec))
    PROVE  PagesFitTogether'
<1>1. /\ reply'.kind = "page" /\ reply'.req = r /\ reply'.of = rec.of
      /\ reply'.nCount = rec.n /\ reply'.array = Announced(r, rec.n)
      /\ reply'.rows = AdoRows(r, rec) /\ reply'.sub = nSubSubCmd'
  BY DEF PageReply
<1>2. r.tag \in Int /\ r.page \in Int /\ r.cmd \notin MysqlLists
  BY AdoRequest, Tables
<1>3. rec.n \in Nat
  BY PagedAssumption DEF Results
<1>4. ASSUME InRange(r, rec.n)
      PROVE  /\ AdoRows(r, rec) =
                  {i \in 1 .. rec.n : Start(r) < i /\ i <= Start(r) + r.page}
             /\ Announced(r, rec.n) = Cardinality(AdoRows(r, rec))
  <2>1. PICK start \in Nat : start = Start(r) /\ start <= rec.n
    BY <1>2, <1>3, <1>4, PageStart
  <2>2. PICK p \in Nat : p = r.page /\ p >= 0
    BY <1>2, <1>3, <1>4, PageStart
  <2>3. AdoRows(r, rec) = {i \in 1 .. rec.n : start < i /\ i <= start + p}
    BY <2>1, <2>2 DEF AdoRows
  <2>4. Announced(r, rec.n) = IF rec.n - start > p THEN p ELSE rec.n - start
    BY <2>1, <2>2 DEF Announced
  <2>5. Cardinality({i \in 1 .. rec.n : start < i /\ i <= start + p}) =
          IF rec.n - start > p THEN p ELSE rec.n - start
    BY <1>3, <2>1, <2>2, PageSize
  <2> QED
    BY <2>1, <2>2, <2>3, <2>4, <2>5
<1> QED
  BY <1>1, <1>2, <1>4 DEF PagesFitTogether

\* What a MySQL list sends of the result that the same list has left.
LEMMA MysqlPageFits ==
    ASSUME NEW r \in PageRequests(MysqlLists), NEW rec \in Results,
           rec.of = Executed(r), snap' = rec.n,
           PageReply(r, rec, rec.n, MysqlRows(r, rec))
    PROVE  PagesFitTogether'
<1>1. /\ reply'.kind = "page" /\ reply'.req = r /\ reply'.of = rec.of
      /\ reply'.nCount = rec.n /\ reply'.array = Announced(r, rec.n)
      /\ reply'.rows = MysqlRows(r, rec)
  BY DEF PageReply
<1>2. r.tag \in Int /\ r.page \in Int /\ r.cmd \in MysqlLists
  BY MysqlRequest
<1>3. rec.n \in Nat
  BY PagedAssumption DEF Results
<1>4. r.cmd \notin AdoLists /\ r.cmd \notin WholeTable
  BY <1>2, Tables
<1>5. ASSUME InRange(r, rec.n)
      PROVE  /\ MysqlRows(r, rec) = Start(r) + 1 .. rec.n
             /\ Announced(r, rec.n) = Cardinality(MysqlRows(r, rec))
                  <=> rec.n <= Start(r) + r.page
  <2>1. PICK start \in Nat : start = Start(r) /\ start <= rec.n
    BY <1>2, <1>3, <1>5, PageStart
  <2>2. PICK p \in Nat : p = r.page
    BY <1>2, <1>3, <1>5, PageStart
  <2>3. MysqlRows(r, rec) = start + 1 .. rec.n
    <3>1. MysqlRows(r, rec) = {i \in 1 .. rec.n : start < i}
      BY <2>1 DEF MysqlRows
    <3>2. {i \in 1 .. rec.n : start < i} = start + 1 .. rec.n
      BY <1>3
    <3> QED
      BY <3>1, <3>2, Zenon
  <2>4. Announced(r, rec.n) = IF rec.n - start > p THEN p ELSE rec.n - start
    BY <2>1, <2>2 DEF Announced
  <2>5. Cardinality(MysqlRows(r, rec)) = rec.n - start
    BY <1>3, <2>1, <2>3, RestSize
  <2> QED
    BY <1>3, <2>1, <2>2, <2>3, <2>4, <2>5
<1> QED
  BY <1>1, <1>2, <1>4, <1>5 DEF PagesFitTogether

\* A page counts for nothing on a connection that asked for other things too.
LEMMA MixedPage ==
    ASSUME NEW r, reply'.kind = "page" => reply'.req = r, sole' # Asked(r)
    PROVE  PagesFitTogether'
BY DEF PagesFitTogether, Asked

-----------------------------------------------------------------------------
(* The actions *)

\* A new buffer object has no result.
LEMMA InitInv == Init => IInv
<1> SUFFICES ASSUME Init PROVE IInv
  OBVIOUS
<1> USE DEF Init
<1>1. Fields
  BY PagedAssumption DEF Fields, NoReply, Kinds
<1>2. OwnResults /\ OneList
  BY DEF OwnResults, OneList
<1>3. PagesFitTogether /\ Isolation /\ ResultsFreed
  BY DEF PagesFitTogether, Isolation, ResultsFreed, NoReply
<1> QED
  BY <1>1, <1>2, <1>3 DEF IInv

\* BUFFER_OBJ::init leaves nothing of the connection before.
LEMMA AllocInv == IInv /\ allocBObj => IInv'
<1> SUFFICES ASSUME IInv, allocBObj PROVE IInv'
  OBVIOUS
<1> USE DEF allocBObj, ReleaseRecorder
<1>1. Fields'
  BY PagedAssumption DEF IInv, Fields, NoReply, Kinds
<1>2. OwnResults'
  BY DEF OwnResults
<1>3. OneList'
  BY Tables DEF OneList, NoQuery, Cmds
<1>4. PagesFitTogether' /\ Isolation'
  BY DEF PagesFitTogether, Isolation, NoReply
<1>5. ResultsFreed'
  BY DEF IInv, OwnResults, ResultsFreed
<1> QED
  BY <1>1, <1>2, <1>3, <1>4, <1>5 DEF IInv

\* freeBObj gives back the MySQL result, if there is one.
LEMMA FreeInv == IInv /\ freeBObj => IInv'
<1> SUFFICES ASSUME IInv, freeBObj PROVE IInv'
  OBVIOUS
<1> USE DEF freeBObj, ReleaseRecorder
<1>1. Fields'
  BY DEF IInv, Fields, ResultsFreed, NoReply, Kinds
<1>2. OwnResults' /\ OneList'
  BY DEF OwnResults, OneList
<1>3. PagesFitTogether' /\ Isolation'
  BY DEF PagesFitTogether, Isolation, NoReply
<1>4. ResultsFreed'
  BY DEF IInv, ResultsFreed
<1> QED
  BY <1>1, <1>2, <1>3, <1>4 DEF IInv
\* The reply that ErrorInfo or an exception makes says nothing of results.
LEMMA PlainReply ==
    ASSUME reply'.kind \in Kinds \ {"page", "row"}
    PROVE  PagesFitTogether' /\ Isolation'
BY DEF PagesFitTogether, Isolation

\* An ADO list, from the result it finds or with a query of its own.
LEMMA AdoListInv ==
    ASSUME IInv, NEW r \in PageRequests(AdoLists), AdoList(r)
    PROVE  IInv'
<1>0. /\ r.cmd \in AdoLists /\ r.sub \in 0 .. 1
      /\ Asked(r) \in Queries /\ Asked(r).cmd = r.cmd /\ Executed(r) = Asked(r)
  BY AdoRequest
<1>1. /\ conn = "open" /\ Use(r) /\ UNCHANGED <<conn, epoch, res, live>>
      /\ nSubSubCmd' = IF r.cmd \in WholeTable THEN r.sub ELSE nSubSubCmd
  BY DEF AdoList
<1>2. /\ sole' \in Queries \cup {NoQuery, Several} /\ sole' # NoQuery
      /\ sole' # Asked(r) => sole'.cmd \notin Cmds
      /\ sole' = Asked(r) => sole \in {NoQuery, Asked(r)}
  BY <1>0, <1>1, Used DEF IInv
<1>3. r.cmd \notin MysqlLists
  BY <1>0, Tables
<1>4. ResultsFreed'
  BY <1>1 DEF IInv, ResultsFreed
<1>5. nSubSubCmd' \in 0 .. 1
  BY <1>0, <1>1 DEF IInv, Fields
\* What is left to show of each way through the function.
<1> DEFINE Goal == /\ pRecorder' \in Results \cup {NULL}
                   /\ pRecorder' # NULL => pRecorder'.epoch = epoch
                   /\ nRecSetCount' \in 0 .. MaxRows /\ snap' \in -1 .. MaxRows
                   /\ reply'.kind \in Kinds
                   /\ sole' = Asked(r) => LeftBy(pRecorder, sole)'
                   /\ PagesFitTogether' /\ Isolation'
<1>6. ASSUME Goal PROVE IInv'
  <2>1. Fields'
    BY <1>1, <1>2, <1>5, <1>6 DEF IInv, Fields
  <2>2. OwnResults'
    BY <1>1, <1>6 DEF IInv, OwnResults
  <2>3. OneList'
    BY <1>0, <1>2, <1>3, <1>6 DEF OneList, Cmds
  <2> QED
    BY <1>4, <1>6, <2>1, <2>2, <2>3 DEF IInv
\* A page of the result rec, of which count rows are on record.
<1>7. ASSUME NEW rec \in Results, rec # NULL, rec.epoch = epoch, NEW count \in 0 .. MaxRows,
             pRecorder' = rec, nRecSetCount' = count, AdoPage(r, rec, count),
             sole' = Asked(r) => rec.of = Asked(r) /\ count = rec.n /\ snap \in {-1, count}
      PROVE  Goal
  <2>1. snap' \in {-1, count, snap}
    BY <1>7 DEF AdoPage, PageReply
  <2>2. snap' \in -1 .. MaxRows
    BY <1>7, <2>1, PagedAssumption DEF IInv, Fields
  <2>3. CASE sole' = Asked(r)
    <3>1. CASE reply'.kind = "exception" /\ UNCHANGED snap
      <4>1. PagesFitTogether' /\ Isolation' /\ reply'.kind \in Kinds
        BY <3>1, PlainReply DEF Kinds
      <4>2. LeftBy(pRecorder, sole)'
        BY <1>7, <2>3, <3>1 DEF LeftBy
      <4> QED
        BY <1>7, <2>2, <4>1, <4>2
    <3>2. CASE PageReply(r, rec, count, AdoRows(r, rec))
      <4>1. snap' = rec.n /\ PageReply(r, rec, rec.n, AdoRows(r, rec))
        BY <1>7, <2>3, <3>2 DEF PageReply
      <4>2. PagesFitTogether'
        BY <1>0, <1>1, <1>7, <2>3, <4>1, AdoPageFits
      <4>3. reply'.kind = "page" /\ reply'.epoch = epoch
        BY <1>7, <3>2 DEF PageReply
      <4>4. Isolation' /\ reply'.kind \in Kinds
        BY <1>1, <4>3 DEF Isolation, Kinds
      <4>5. LeftBy(pRecorder, sole)'
        BY <1>7, <2>3, <4>1 DEF LeftBy
      <4> QED
        BY <1>7, <2>2, <4>2, <4>4, <4>5
    <3> QED
      BY <1>7, <3>1, <3>2 DEF AdoPage
  <2>4. CASE sole' # Asked(r)
    <3>1. CASE reply'.kind = "exception"
      <4>1. PagesFitTogether' /\ Isolation' /\ reply'.kind \in Kinds
        BY <3>1, PlainReply DEF Kinds
      <4> QED
        BY <1>7, <2>2, <2>4, <4>1
    <3>2. CASE PageReply(r, rec, count, AdoRows(r, rec))
      <4>1. reply'.kind = "page" /\ reply'.epoch = epoch /\ reply'.req = r
        BY <1>7, <3>2 DEF PageReply
      <4>2. PagesFitTogether'
        BY <2>4, <4>1, MixedPage
      <4>3. Isolation' /\ reply'.kind \in Kinds
        BY <1>1, <4>1 DEF Isolation, Kinds
      <4> QED
        BY <1>7, <2>2, <2>4, <4>2, <4>3
    <3> QED
      BY <1>7, <3>1, <3>2 DEF AdoPage
  <2> QED
    BY <2>3, <2>4
<1>8. CASE pRecorder # NULL /\ AdoPage(r, pRecorder, nRecSetCount)
           /\ UNCHANGED <<pRecorder, nRecSetCount>>
  <2>1. pRecorder \in Results /\ pRecorder.epoch = epoch /\ nRecSetCount \in 0 .. MaxRows
    BY <1>8 DEF IInv, Fields, OwnResults
  <2>2. sole' = Asked(r) => sole = Asked(r)
    BY <1>1, <1>2, <1>8 DEF IInv, OneList
  <2>3. sole' = Asked(r) =>
          pRecorder.of = Asked(r) /\ nRecSetCount = pRecorder.n /\ snap \in {-1, nRecSetCount}
    BY <1>0, <1>1, <1>8, <2>2 DEF IInv, OneList, LeftBy
  <2> QED
    BY <1>6, <1>7, <1>8, <2>1, <2>3
<1>9. ASSUME pRecorder = NULL, NEW s \in Select_From_Tbl(Executed(r), pRecorder), pRecorder' = s.rec,
             IF s.ok THEN nRecSetCount' = s.rec.n /\ AdoPage(r, s.rec, s.rec.n)
             ELSE UNCHANGED nRecSetCount /\ ErrorInfo
      PROVE  IInv'
  <2>1. sole' = Asked(r) => snap = -1
    BY <1>0, <1>1, <1>2, <1>9 DEF IInv, OneList, LeftBy
  <2>2. CASE s.ok
    <3>1. PICK n \in 1 .. MaxRows : s.rec = Result(Executed(r), n)
      BY <2>2 DEF Select_From_Tbl
    <3>2. /\ s.rec \in Results /\ s.rec # NULL /\ s.rec.of = Asked(r)
          /\ s.rec.epoch = epoch /\ s.rec.n \in 0 .. MaxRows
      BY <1>0, <3>1, RealResults, PagedAssumption DEF IInv
    <3> QED
      BY <1>6, <1>7, <1>9, <2>1, <2>2, <3>2
  <2>3. CASE ~s.ok
    <3>1. pRecorder' = NULL /\ UNCHANGED <<nRecSetCount, snap>> /\ reply' = [kind |-> "error"]
      BY <1>9, <2>3 DEF Select_From_Tbl, ErrorInfo
    <3>2. PagesFitTogether' /\ Isolation' /\ reply'.kind \in Kinds
      BY <3>1, PlainReply DEF Kinds
    <3>3. sole' = Asked(r) => LeftBy(pRecorder, sole)'
      BY <2>1, <3>1 DEF LeftBy
    <3>4. nRecSetCount' \in 0 .. MaxRows /\ snap' \in -1 .. MaxRows
      BY <3>1 DEF IInv, Fields
    <3> QED
      BY <1>6, <3>1, <3>2, <3>3, <3>4
  <2> QED
    BY <2>2, <2>3
<1> QED
  BY <1>8, <1>9 DEF AdoList
\* A MySQL list, likewise; here an empty result is a result.
LEMMA MysqlListInv ==
    ASSUME IInv, NEW r \in PageRequests(MysqlLists), MysqlList(r)
    PROVE  IInv'
<1> DEFINE Exec(q) == [q EXCEPT !.arg = IF q.cmd = "KH_LIST" THEN "address" ELSE @]
<1>0. /\ r.cmd \in MysqlLists
      /\ Asked(r) \in Queries /\ Asked(r).cmd = r.cmd
      /\ Executed(r) \in Queries /\ Executed(r) = Exec(Asked(r))
  BY MysqlRequest
<1>1. conn = "open" /\ Use(r) /\ UNCHANGED <<conn, epoch, pRecorder, nSubSubCmd>>
  BY DEF MysqlList
<1>2. /\ sole' \in Queries \cup {NoQuery, Several} /\ sole' # NoQuery
      /\ sole' # Asked(r) => sole'.cmd \notin Cmds
      /\ sole' = Asked(r) => sole \in {NoQuery, Asked(r)}
  BY <1>0, <1>1, Used DEF IInv
<1>3. r.cmd \notin AdoLists
  BY <1>0, Tables
<1>4. live = IF res # NULL THEN 1 ELSE 0
  BY <1>1 DEF IInv, ResultsFreed
<1> DEFINE Goal == /\ res' \in Results \cup {NULL}
                   /\ res' # NULL => res'.epoch = epoch
                   /\ live' = IF res' # NULL THEN 1 ELSE 0
                   /\ nRecSetCount' \in 0 .. MaxRows /\ snap' \in -1 .. MaxRows
                   /\ reply'.kind \in Kinds
                   /\ sole' = Asked(r) => LeftBy(res, Exec(sole))'
                   /\ PagesFitTogether' /\ Isolation'
<1>5. ASSUME Goal PROVE IInv'
  <2>1. live' \in Nat
    BY <1>5
  <2>2. Fields'
    BY <1>1, <1>2, <1>5, <2>1 DEF IInv, Fields
  <2>3. OwnResults'
    BY <1>1, <1>5 DEF IInv, OwnResults
  <2>4. OneList'
    BY <1>0, <1>2, <1>3, <1>5 DEF OneList, Cmds
  <2>5. ResultsFreed'
    BY <1>5 DEF ResultsFreed
  <2> QED
    BY <1>5, <2>2, <2>3, <2>4, <2>5 DEF IInv
<1>6. ASSUME NEW rec \in Results, rec # NULL, rec.epoch = epoch, NEW count \in 0 .. MaxRows,
             res' = rec, live' = 1, nRecSetCount' = count,
             PageReply(r, rec, count, MysqlRows(r, rec)),
             sole' = Asked(r) => rec.of = Executed(r) /\ count = rec.n /\ snap \in {-1, count}
      PROVE  IInv'
  <2>1. /\ snap' = IF sole' # Asked(r) THEN -1 ELSE IF snap = -1 THEN count ELSE snap
        /\ reply'.kind = "page" /\ reply'.epoch = epoch /\ reply'.req = r
    BY <1>6 DEF PageReply
  <2>2. snap' \in -1 .. MaxRows
    BY <1>6, <2>1, PagedAssumption DEF IInv, Fields
  <2>3. Isolation' /\ reply'.kind \in Kinds
    BY <1>1, <2>1 DEF Isolation, Kinds
  <2>4. CASE sole' = Asked(r)
    <3>1. snap' = rec.n /\ PageReply(r, rec, rec.n, MysqlRows(r, rec))
      BY <1>6, <2>1, <2>4
    <3>2. PagesFitTogether'
      BY <1>6, <2>4, <3>1, MysqlPageFits
    <3>3. LeftBy(res, Exec(sole))'
      BY <1>0, <1>6, <2>4, <3>1 DEF LeftBy
    <3> QED
      BY <1>5, <1>6, <2>2, <2>3, <3>2, <3>3
  <2>5. CASE sole' # Asked(r)
    <3>1. PagesFitTogether'
      BY <2>1, <2>5, MixedPage
    <3> QED
      BY <1>5, <1>6, <2>2, <2>3, <2>5, <3>1
  <2> QED
    BY <2>4, <2>5
<1>7. CASE res # NULL /\ PageReply(r, res, nRecSetCount, MysqlRows(r, res))
           /\ UNCHANGED <<res, nRecSetCount, live>>
  <2>1. /\ res \in Results /\ res.epoch = epoch /\ nRecSetCount \in 0 .. MaxRows
        /\ live = 1
    BY <1>4, <1>7 DEF IInv, Fields, OwnResults
  <2>2. sole' = Asked(r) => sole = Asked(r)
    BY <1>1, <1>2, <1>7 DEF IInv, OneList
  <2>3. sole' = Asked(r) =>
          res.of = Executed(r) /\ nRecSetCount = res.n /\ snap \in {-1, nRecSetCount}
    BY <1>0, <1>1, <1>7, <2>2 DEF IInv, OneList, LeftBy
  <2> QED
    BY <1>6, <1>7, <2>1, <2>3
<1>8. ASSUME res = NULL, NEW s \in SelectFromTbl(Executed(r)), res' = s,
             IF s # NULL
             THEN /\ live' = live + 1 /\ nRecSetCount' = s.n
                  /\ PageReply(r, s, s.n, MysqlRows(r, s))
             ELSE UNCHANGED <<live, nRecSetCount>> /\ ErrorInfo
      PROVE  IInv'
  <2>1. sole' = Asked(r) => snap = -1
    BY <1>0, <1>1, <1>2, <1>8 DEF IInv, OneList, LeftBy
  <2>2. CASE s # NULL
    <3>1. PICK n \in 0 .. MaxRows : s = Result(Executed(r), n)
      BY <1>8, <2>2 DEF SelectFromTbl
    <3>2. /\ s \in Results /\ s.of = Executed(r) /\ s.epoch = epoch /\ s.n \in 0 .. MaxRows
      BY <1>0, <3>1, RealResults DEF IInv
    <3>3. live' = 1
      BY <1>4, <1>8, <2>2
    <3> QED
      BY <1>6, <1>8, <2>1, <2>2, <3>2, <3>3
  <2>3. CASE s = NULL
    <3>1. UNCHANGED <<live, nRecSetCount, snap>> /\ reply' = [kind |-> "error"]
      BY <1>8, <2>3 DEF ErrorInfo
    <3>2. PagesFitTogether' /\ Isolation' /\ reply'.kind \in Kinds
      BY <3>1, PlainReply DEF Kinds
    <3>3. sole' = Asked(r) => LeftBy(res, Exec(sole))'
      BY <1>8, <2>1, <2>3, <3>1 DEF LeftBy
    <3>4. nRecSetCount' \in 0 .. MaxRows /\ snap' \in -1 .. MaxRows
      BY <3>1 DEF IInv, Fields
    <3> QED
      BY <1>4, <1>5, <1>8, <2>3, <3>1, <3>2, <3>3, <3>4
  <2> QED
    BY <2>2, <2>3
<1> QED
  BY <1>7, <1>8 DEF MysqlList

\* A command that is no list and answers with one row, an error or a crash.
LEMMA OtherInv ==
    ASSUME IInv, NEW r, r.cmd \in Others, Asked(r) \in Queries, Asked(r).cmd = r.cmd,
           conn = "open", Use(r), conn' \in {"open", "down"},
           pRecorder' \in Results \cup {NULL}, pRecorder' # NULL => pRecorder'.epoch = epoch,
           nSubSubCmd' \in 0 .. 1, live' \in Nat, conn' = "open" => live' = live,
           \/ reply'.kind \in Kinds \ {"page", "row"}
           \/ reply'.kind = "row" /\ reply'.epoch = epoch,
           UNCHANGED <<epoch, res, nRecSetCount, snap>>
    PROVE  IInv'
<1>1. /\ sole' \in Queries \cup {NoQuery, Several} /\ sole' # NoQuery
      /\ sole' # Asked(r) => sole'.cmd \notin Cmds
  BY Used DEF IInv
<1>2. Fields'
  BY <1>1 DEF IInv, Fields, Kinds
<1>3. OwnResults'
  BY DEF IInv, OwnResults
<1>4. sole'.cmd \notin AdoLists /\ sole'.cmd \notin MysqlLists
  BY <1>1, Tables DEF Cmds
<1>5. OneList'
  BY <1>1, <1>4 DEF OneList
<1>6. PagesFitTogether' /\ Isolation'
  BY PlainReply DEF PagesFitTogether, Isolation
<1>7. ResultsFreed'
  BY DEF IInv, ResultsFreed
<1> QED
  BY <1>2, <1>3, <1>5, <1>6, <1>7 DEF IInv

\* Select1 leaves a result of this connection, or the one that was there, or none.
LEMMA Select1Leaves ==
    ASSUME IInv, NEW r, Asked(r) \in Queries, Select1(r)
    PROVE  /\ pRecorder' \in Results \cup {NULL}
           /\ pRecorder' # NULL => pRecorder'.epoch = epoch
           /\ \/ reply'.kind \in Kinds \ {"page", "row"}
              \/ reply'.kind = "row" /\ reply'.epoch = epoch
           /\ UNCHANGED snap
<1>1. PICK s \in Select_From_Tbl(Asked(r), pRecorder) :
          /\ pRecorder' = s.rec
          /\ IF s.ok
             THEN reply' = [kind |-> "row", epoch |-> s.rec.epoch] /\ UNCHANGED snap
             ELSE ErrorInfo
  BY DEF Select1
<1>2. CASE s.ok
  <2>1. PICK n \in 1 .. MaxRows : s.rec = Result(Asked(r), n)
    BY <1>2 DEF Select_From_Tbl
  <2>2. s.rec \in Results /\ s.rec.epoch = epoch
    BY <2>1, RealResults, PagedAssumption DEF IInv
  <2> QED
    BY <1>1, <1>2, <2>2
<1>3. CASE ~s.ok
  <2>1. s.rec \in {pRecorder, NULL}
    BY <1>3 DEF Select_From_Tbl
  <2> QED
    BY <1>1, <1>3, <2>1 DEF IInv, Fields, OwnResults, ErrorInfo, Kinds
<1> QED
  BY <1>2, <1>3
\* So does a query of another buffer's result, or of this one's.
LEMMA SelectLeaves ==
    ASSUME IInv, NEW q \in Queries, NEW old \in Results \cup {NULL},
           old # NULL => old.epoch = epoch, NEW s \in Select_From_Tbl(q, old)
    PROVE  /\ s.rec \in Results \cup {NULL}
           /\ s.rec # NULL => s.rec.epoch = epoch
           /\ s.ok => s.rec \in Results /\ s.rec.epoch = epoch
<1>1. CASE s.ok
  <2>1. PICK n \in 1 .. MaxRows : s.rec = Result(q, n)
    BY <1>1 DEF Select_From_Tbl
  <2> QED
    BY <2>1, RealResults, PagedAssumption DEF IInv
<1>2. CASE ~s.ok
  BY <1>2 DEF Select_From_Tbl
<1> QED
  BY <1>1, <1>2

\* What an API command leaves in pRecorder is of this connection.
LEMMA ApiLeaves ==
    ASSUME IInv, NEW r, Asked(r) \in Queries, ApiCommand(r)
    PROVE  /\ pRecorder' \in Results \cup {NULL}
           /\ pRecorder' # NULL => pRecorder'.epoch = epoch
           /\ \/ reply'.kind \in Kinds \ {"page", "row"}
              \/ reply'.kind = "row" /\ reply'.epoch = epoch
           /\ UNCHANGED snap
<1>0. pRecorder \in Results \cup {NULL} /\ (pRecorder # NULL => pRecorder.epoch = epoch)
  BY DEF IInv, Fields, OwnResults
<1>1. PICK key \in Select_From_Tbl(Asked(r), pRecorder) :
          \/ ErrorInfo /\ pRecorder' = key.rec
          \/ /\ key.ok /\ r.cmd # "PL_LLC_POOLQRY"
             /\ pRecorder' = key.rec
             /\ reply' = [kind |-> "row", epoch |-> key.rec.epoch] /\ UNCHANGED snap
          \/ /\ key.ok /\ r.cmd = "PL_LLC_POOLQRY"
             /\ \E num \in Select_From_Tbl(Asked(r), key.rec) :
                  /\ pRecorder' = num.rec
                  /\ IF num.ok
                     THEN reply' = [kind |-> "row", epoch |-> num.rec.epoch] /\ UNCHANGED snap
                     ELSE ErrorInfo
  BY DEF ApiCommand
<1>2. /\ key.rec \in Results \cup {NULL}
      /\ key.rec # NULL => key.rec.epoch = epoch
      /\ key.ok => key.rec \in Results /\ key.rec.epoch = epoch
  BY <1>0, SelectLeaves
<1>3. CASE ErrorInfo /\ pRecorder' = key.rec
  BY <1>2, <1>3 DEF ErrorInfo, Kinds
<1>4. CASE /\ key.ok /\ pRecorder' = key.rec
           /\ reply' = [kind |-> "row", epoch |-> key.rec.epoch] /\ UNCHANGED snap
  BY <1>2, <1>4
<1>5. ASSUME key.ok, NEW num \in Select_From_Tbl(Asked(r), key.rec), pRecorder' = num.rec,
             IF num.ok
             THEN reply' = [kind |-> "row", epoch |-> num.rec.epoch] /\ UNCHANGED snap
             ELSE ErrorInfo
      PROVE  /\ pRecorder' \in Results \cup {NULL}
             /\ pRecorder' # NULL => pRecorder'.epoch = epoch
             /\ \/ reply'.kind \in Kinds \ {"page", "row"}
                \/ reply'.kind = "row" /\ reply'.epoch = epoch
             /\ UNCHANGED snap
  <2>1. /\ num.rec \in Results \cup {NULL}
        /\ num.rec # NULL => num.rec.epoch = epoch
        /\ num.ok => num.rec \in Results /\ num.rec.epoch = epoch
    BY <1>2, <1>5, SelectLeaves
  <2> QED
    BY <1>5, <2>1 DEF ErrorInfo, Kinds
<1> QED
  BY <1>1, <1>3, <1>4, <1>5

\* The commands that are no lists, one by one.
LEMMA OthersInv ==
    ASSUME IInv,
           \/ \E r \in Requests(DOMAIN Adds, {0}) : Add(r)
           \/ \E r \in Requests(DOMAIN Lookups, {0}) : Lookup(r)
           \/ \E r \in Requests(DOMAIN ApiCommands, 0 .. 1) : ApiCommand(r)
           \/ \E r \in Requests({"USER_ADD"}, {0}) : UserAdd(r)
           \/ \E r \in Requests({"USER_LOGIN"}, {0}) : UserLogin(r)
    PROVE  IInv'
<1>0. /\ pRecorder \in Results \cup {NULL}
      /\ pRecorder # NULL => pRecorder.epoch = epoch
      /\ nSubSubCmd \in 0 .. 1 /\ live \in Nat
  BY DEF IInv, Fields, OwnResults
<1> DEFINE Known(r) == /\ r.cmd \in Others /\ r.sub \in 0 .. 1
                       /\ Asked(r) \in Queries /\ Asked(r).cmd = r.cmd
<1>1. ASSUME NEW r \in Requests(DOMAIN Adds, {0}), Add(r) PROVE IInv'
  <2>1. Known(r)
    BY OtherRequest DEF Others
  <2>2. CASE Select1(r)
    BY <1>0, <1>1, <2>1, <2>2, Select1Leaves, OtherInv DEF Add
  <2>3. CASE ErrorInfo /\ UNCHANGED pRecorder
    <3>1. reply'.kind \in Kinds \ {"page", "row"} /\ UNCHANGED snap
      BY <2>3 DEF ErrorInfo, Kinds
    <3> QED
      BY <1>0, <1>1, <2>1, <2>3, <3>1, OtherInv DEF Add
  <2> QED
    BY <1>1, <2>2, <2>3 DEF Add
<1>2. ASSUME NEW r \in Requests(DOMAIN Lookups, {0}), Lookup(r) PROVE IInv'
  <2>1. Known(r)
    BY OtherRequest DEF Others
  <2> QED
    BY <1>0, <1>2, <2>1, Select1Leaves, OtherInv DEF Lookup
<1>3. ASSUME NEW r \in Requests(DOMAIN ApiCommands, 0 .. 1), ApiCommand(r) PROVE IInv'
  <2>1. Known(r)
    BY OtherRequest DEF Others
  <2> QED
    BY <1>0, <1>3, <2>1, ApiLeaves, OtherInv DEF ApiCommand
<1>4. ASSUME NEW r \in Requests({"USER_ADD"}, {0}), UserAdd(r) PROVE IInv'
  <2>1. Known(r)
    BY OtherRequest DEF Others
  <2>2. /\ conn' \in {"open", "down"} /\ live' \in Nat /\ UNCHANGED snap
        /\ conn' = "open" => live' = live
        /\ \/ reply'.kind \in Kinds \ {"page", "row"}
           \/ reply'.kind = "row" /\ reply'.epoch = epoch
    BY <1>0, <1>4 DEF UserAdd, FetchUser, ErrorInfo, Kinds
  <2> QED
    BY <1>0, <1>4, <2>1, <2>2, OtherInv DEF UserAdd
<1>5. ASSUME NEW r \in Requests({"USER_LOGIN"}, {0}), UserLogin(r) PROVE IInv'
  <2>1. Known(r)
    BY OtherRequest DEF Others
  <2>2. /\ conn' \in {"open", "down"} /\ live' \in Nat /\ UNCHANGED snap
        /\ conn' = "open" => live' = live
        /\ \/ reply'.kind \in Kinds \ {"page", "row"}
           \/ reply'.kind = "row" /\ reply'.epoch = epoch
    BY <1>0, <1>5 DEF UserLogin, FetchUser, ErrorInfo, Kinds
  <2> QED
    BY <1>0, <1>5, <2>1, <2>2, OtherInv DEF UserLogin
<1> QED
  BY <1>1, <1>2, <1>3, <1>4, <1>5

\* Every step preserves the invariant.
LEMMA NextInv == IInv /\ [Next]_vars => IInv'
<1> SUFFICES ASSUME IInv, [Next]_vars PROVE IInv'
  OBVIOUS
<1>1. CASE UNCHANGED vars
  <2> USE <1>1 DEF vars
  <2>1. Fields'
    BY DEF IInv, Fields
  <2>2. OwnResults' /\ OneList'
    BY DEF IInv, OwnResults, OneList, LeftBy
  <2>3. PagesFitTogether' /\ Isolation' /\ ResultsFreed'
    BY DEF IInv, PagesFitTogether, Isolation, ResultsFreed
  <2> QED
    BY <2>1, <2>2, <2>3 DEF IInv
<1> QED
  BY <1>1, AllocInv, FreeInv, AdoListInv, MysqlListInv, OthersInv DEF Next

-----------------------------------------------------------------------------
(***************************************************************************)
(* The inductive invariant: a buffer object holds only results that its    *)
(* present connection asked for, and while that connection uses one list,  *)
(* pRecorder or res is what this list left and nRecSetCount its size.      *)
(***************************************************************************)
THEOREM Invariance == Spec => []IInv
BY InitInv, NextInv, PTL DEF Spec

\* The fields keep their types, for results and pages of any size.
THEOREM TypeCorrect == Spec => []TypeOK
<1>1. IInv => TypeOK
  BY PagedAssumption DEF IInv, Fields, TypeOK, Results, NULL
<1> QED
  BY <1>1, Invariance, PTL

(***************************************************************************)
(* On a connection used for one list only every page is of one result and  *)
(* tells its size.  A page in range has, for an ADO list, exactly the rows *)
(* asked for and as many as announced; for USER_LIST and KH_LIST it runs   *)
(* on to the end, and announces what it sends only if it is the last one.  *)
(* This holds for any nTag, nPage and result.                              *)
(***************************************************************************)
THEOREM PagesFit == Spec => []PagesFitTogether
<1>1. IInv => PagesFitTogether
  BY DEF IInv
<1> QED
  BY <1>1, Invariance, PTL

\* No reply shows rows of an earlier connection on the same buffer object.
THEOREM ConnectionsApart == Spec => []Isolation
<1>1. IInv => Isolation
  BY DEF IInv
<1> QED
  BY <1>1, Invariance, PTL

\* allocBObj, freeBObj and the MySQL commands lose no result and free none twice.
THEOREM NoResultLost == Spec => []ResultsFreed
<1>1. IInv => ResultsFreed
  BY DEF IInv
<1> QED
  BY <1>1, Invariance, PTL
=============================================================================
