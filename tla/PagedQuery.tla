----------------------------- MODULE PagedQuery -----------------------------
(***************************************************************************)
(* The commands that read the database, as one BUFFER_OBJ sees them.  A    *)
(* list is read page by page: its first page runs the query and leaves the *)
(* result in the buffer object (pRecorder for ADO, res for the MySQL       *)
(* client library), and the later pages are cut out of that result.  All   *)
(* commands of a connection share these two fields and nRecSetCount; the   *)
(* buffer object itself serves one connection after the other.             *)
(*                                                                         *)
(* What a query returns is any number of rows: other clients change the    *)
(* tables all the time.  A row is known by its query and its number.       *)
(***************************************************************************)
EXTENDS Integers, FiniteSets

CONSTANTS
    Commands,   \* the commands the clients use
    Args,       \* filters: a customer, a user, a number
    RootArg,    \* the filter of a user of type 1
    MaxRows,    \* bound: rows of a result
    Tags,       \* nTag, the page asked for; any number the client likes
    Pages       \* nPage, the rows wanted per page; likewise

ASSUME PagedAssumption ==
    /\ RootArg \in Args
    /\ MaxRows \in Nat \ {0}
    /\ Tags \subseteq Int /\ Pages \subseteq Int

VARIABLES
    conn,          \* "closed", "open", or "down" once the server has crashed
    epoch,         \* flips with every connection
    pRecorder,     \* the ADO result in the buffer object
    res,           \* the MySQL result in the buffer object
    nRecSetCount,
    nSubSubCmd,
    live,          \* MySQL results that are not freed
    reply,         \* the reply to the last command
    sole,          \* the only command and filter used on this connection
    snap           \* nCount of its first page, while only that is used

vars == <<conn, epoch, pRecorder, res, nRecSetCount, nSubSubCmd, live, reply, sole, snap>>

-----------------------------------------------------------------------------
(* The commands, with the columns their query selects and their parser reads *)

KhLists ==
    [KH_QUERY |-> "xsrq", KH_SIM_LIST |-> "sim", KH_SIM_XSRQ |-> "sim",
     KH_SIM_USING |-> "sim", KH_SIM_U15D |-> "sim", KH_SIM_U1M |-> "sim",
     KH_SIM_D1M |-> "sim", KH_SIM_D15D |-> "sim"]
KhjlLists ==
    [KHJL_KH |-> "kh", KHJL_QUERY |-> "xsrq", KHJL_LIST |-> "khjl", KHJL_SIM_XSRQ |-> "sim"]
LlcLists == [LLC_LIST |-> "llc"]
LltcLists == [LLTC_LIST |-> "lltc"]
DxzhLists == [DXZH_LIST |-> "dxzh"]
SsdqLists == [SSDQ_LIST |-> "ssdq"]

AdoTables == {KhLists, KhjlLists, LlcLists, LltcLists, DxzhLists, SsdqLists}

AdoLists == UNION {DOMAIN table : table \in AdoTables}

\* The lists of a whole table; these carry an nSubSubCmd.
WholeTable == {"KHJL_LIST", "LLC_LIST", "LLTC_LIST", "DXZH_LIST", "SSDQ_LIST"}

MysqlLists == {"USER_LIST", "KH_LIST"}

Adds == [KH_ADD |-> "kh", KHJL_ADD |-> "khjl", SIM_ADD |-> "sim", LLC_ADD |-> "llc",
         LLTC_ADD |-> "lltc", DXZH_ADD |-> "dxzh", SSDQ_ADD |-> "ssdq"]

Lookups == [KH_COUNT |-> "count", SIM_JRHM |-> "sim"]

\* DISABLE_NUMBER_DATA and POOL_LIST_DATA look up the account's key first.
ApiCommands == [DN_DISABLE |-> "key", DN_ABLE |-> "key", PL_GET_LIST |-> "key",
                PL_LLC_INFO |-> "key", PL_LLC_POOLQRY |-> "key"]

Columns(cmd) ==
    LET table == CHOOSE t \in AdoTables \cup {Adds, Lookups, ApiCommands} : cmd \in DOMAIN t
    IN table[cmd]

\* GetCollect throws when the column it names is not there.
CanRead(parser, columns) == parser = columns \/ (parser = "khjl" /\ columns = "kh")

(***************************************************************************)
(* The requests for a page of a list; those of a whole table carry a sub   *)
(* and no filter.  nTag and nPage are the client's and not looked at: zero *)
(* and negative ones are taken like any other.                             *)
(***************************************************************************)
PageRequests(cmds) ==
    {r \in [cmd : cmds \cap Commands, arg : Args, tag : Tags, page : Pages, sub : 0 .. 1] :
       IF r.cmd \in WholeTable THEN r.arg = RootArg ELSE r.sub = 0}

Requests(cmds, subs) == [cmd : cmds \cap Commands, arg : Args, sub : subs]

\* The query a list runs.  KH_LIST prints the address of USER_ITEM as the filter.
Executed(r) ==
    [cmd |-> r.cmd,
     arg |-> IF r.cmd \in WholeTable THEN "all"
             ELSE IF r.cmd = "KH_LIST" THEN "address" ELSE r.arg]

\* The query the client asked for.
Asked(r) == [cmd |-> r.cmd, arg |-> IF r.cmd \in WholeTable THEN "all" ELSE r.arg]

NoQuery == [cmd |-> "none", arg |-> "none"]
Several == [cmd |-> "several", arg |-> "none"]
Result(q, n) == [of |-> q, n |-> n, epoch |-> epoch]
NULL == [of |-> NoQuery, n |-> 0, epoch |-> 0]

NoReply == [kind |-> "none"]

Use(r) == sole' = IF sole \in {NoQuery, Asked(r)} THEN Asked(r) ELSE Several

-----------------------------------------------------------------------------
Init ==
    /\ conn = "closed" /\ epoch = 0
    /\ pRecorder = NULL /\ res = NULL
    /\ nRecSetCount = 0 /\ nSubSubCmd = 0
    /\ live = 0
    /\ reply = NoReply /\ sole = NoQuery /\ snap = -1

\* Faulty variant: the reference is given up and the pointer not cleared.
ReleaseKeepsPointer(rec) == rec

ReleaseRecorder(rec) == NULL

\* BUFFER_OBJ::init forgets nSubSubCmd unless the memory is new.
allocBObj ==
    /\ conn = "closed"
    /\ conn' = "open"
    /\ epoch' = 1 - epoch
    /\ pRecorder' = ReleaseRecorder(pRecorder)
    /\ res' = NULL
    /\ nRecSetCount' = 0
    /\ nSubSubCmd' \in {0, nSubSubCmd}
    /\ reply' = NoReply /\ sole' = NoQuery /\ snap' = -1
    /\ UNCHANGED live

\* Faulty variants: the MySQL result is not freed, or freed without a look.
freeBObjLeaks ==
    /\ conn = "open"
    /\ conn' = "closed"
    /\ pRecorder' = ReleaseRecorder(pRecorder)
    /\ res' = NULL
    /\ reply' = NoReply
    /\ UNCHANGED <<epoch, nRecSetCount, nSubSubCmd, live, sole, snap>>

freeBObjBlind ==
    /\ conn = "open"
    /\ conn' = "closed"
    /\ pRecorder' = ReleaseRecorder(pRecorder)
    /\ live' = live - 1
    /\ res' = NULL
    /\ reply' = NoReply
    /\ UNCHANGED <<epoch, nRecSetCount, nSubSubCmd, sole, snap>>

\* The connection ends.
freeBObj ==
    /\ conn = "open"
    /\ conn' = "closed"
    /\ pRecorder' = ReleaseRecorder(pRecorder)
    /\ live' = IF res # NULL THEN live - 1 ELSE live
    /\ res' = NULL
    /\ reply' = NoReply
    /\ UNCHANGED <<epoch, nRecSetCount, nSubSubCmd, sole, snap>>

-----------------------------------------------------------------------------
(***************************************************************************)
(* Select_From_Tbl: without a connection the old result stays; a failed    *)
(* Open and an empty result leave none.                                    *)
(***************************************************************************)
Select_From_Tbl(q, old) ==
    {[ok |-> FALSE, rec |-> old], [ok |-> FALSE, rec |-> NULL]}
      \cup {[ok |-> TRUE, rec |-> Result(q, n)] : n \in 1 .. MaxRows}

\* SelectFromTbl of the MySQL library: an empty result is a result.
SelectFromTbl(q) == {NULL} \cup {Result(q, n) : n \in 0 .. MaxRows}

ErrorInfo == reply' = [kind |-> "error"] /\ UNCHANGED snap

\* nStart, the row InitMsgpack moves to.
Start(r) == (r.tag - 1) * r.page

\* The number InitMsgpack announces.  pack_array takes it as unsigned.
Announced(r, count) ==
    LET nTemp == count - Start(r)
    IN IF nTemp > r.page THEN r.page ELSE nTemp

\* The reply to a list: nCount, the announced number of rows, the rows.
PageReply(r, rec, count, rows) ==
    /\ reply' = [kind |-> "page", req |-> r, of |-> rec.of, epoch |-> rec.epoch, size |-> rec.n,
                 nCount |-> count, array |-> Announced(r, count), rows |-> rows,
                 sub |-> nSubSubCmd']
    /\ snap' = IF sole' # Asked(r) THEN -1 ELSE IF snap = -1 THEN count ELSE snap

\* A page of an ADO list stops after nPage rows; a negative nPage never gets to 0.
AdoRows(r, rec) ==
    {i \in 1 .. rec.n : Start(r) < i /\ (r.page >= 0 => i <= Start(r) + r.page)}

(***************************************************************************)
(* A page of a MySQL list runs to the end of the result, whatever nPage    *)
(* is.  mysql_data_seek takes nStart as unsigned: a negative one is beyond *)
(* the end.                                                                *)
(***************************************************************************)
MysqlRows(r, rec) == IF Start(r) < 0 THEN {} ELSE {i \in 1 .. rec.n : Start(r) < i}

(***************************************************************************)
(* A parser throws on another list's columns and before the first row,     *)
(* where Move leaves a negative nStart.  ProcessCommand catches that and   *)
(* answers 0xbb.                                                           *)
(***************************************************************************)
AdoPage(r, rec, count) ==
    IF \/ Start(r) < 0
       \/ AdoRows(r, rec) # {} /\ ~CanRead(Columns(r.cmd), Columns(rec.of.cmd))
    THEN reply' = [kind |-> "exception"] /\ UNCHANGED snap
    ELSE PageReply(r, rec, count, AdoRows(r, rec))

\* Faulty variant: every page runs the query again.
AdoListRequeries(r) ==
    /\ conn = "open"
    /\ Use(r)
    /\ nSubSubCmd' = IF r.cmd \in WholeTable THEN r.sub ELSE nSubSubCmd
    /\ \E s \in Select_From_Tbl(Executed(r), pRecorder) :
         /\ pRecorder' = s.rec
         /\ IF s.ok
            THEN nRecSetCount' = s.rec.n /\ AdoPage(r, s.rec, s.rec.n)
            ELSE UNCHANGED nRecSetCount /\ ErrorInfo
    /\ UNCHANGED <<conn, epoch, res, live>>

\* The ADO lists of doKhData, doKhjlData, doLlcData, doLltcData, doDxzhData, doSsdqData.
AdoList(r) ==
    /\ conn = "open"
    /\ Use(r)
    /\ nSubSubCmd' = IF r.cmd \in WholeTable THEN r.sub ELSE nSubSubCmd
    /\ \/ /\ pRecorder # NULL
          /\ AdoPage(r, pRecorder, nRecSetCount)
          /\ UNCHANGED <<pRecorder, nRecSetCount>>
       \/ /\ pRecorder = NULL
          /\ \E s \in Select_From_Tbl(Executed(r), pRecorder) :
               /\ pRecorder' = s.rec
               /\ IF s.ok
                  THEN nRecSetCount' = s.rec.n /\ AdoPage(r, s.rec, s.rec.n)
                  ELSE UNCHANGED nRecSetCount /\ ErrorInfo
    /\ UNCHANGED <<conn, epoch, res, live>>

(***************************************************************************)
(* USER_LIST and KH_LIST.  For a user of type 1 KH_LIST sends an empty     *)
(* statement, which fails.                                                 *)
(***************************************************************************)
MysqlList(r) ==
    /\ conn = "open"
    /\ Use(r)
    /\ UNCHANGED nSubSubCmd
    /\ \/ /\ res # NULL
          /\ PageReply(r, res, nRecSetCount, MysqlRows(r, res))
          /\ UNCHANGED <<res, nRecSetCount, live>>
       \/ /\ res = NULL
          /\ \E s \in SelectFromTbl(Executed(r)) :
               /\ s # NULL => ~(r.cmd = "KH_LIST" /\ r.arg = RootArg)
               /\ res' = s
               /\ IF s # NULL
                  THEN /\ live' = live + 1
                       /\ nRecSetCount' = s.n
                       /\ PageReply(r, s, s.n, MysqlRows(r, s))
                  ELSE UNCHANGED <<live, nRecSetCount>> /\ ErrorInfo
    /\ UNCHANGED <<conn, epoch, pRecorder>>

(***************************************************************************)
(* The commands that answer with one row: an INSERT that may fail, then a  *)
(* query into pRecorder, which stays there.                                *)
(***************************************************************************)
Select1(r) ==
    \E s \in Select_From_Tbl(Asked(r), pRecorder) :
        /\ pRecorder' = s.rec
        /\ IF s.ok
           THEN reply' = [kind |-> "row", epoch |-> s.rec.epoch] /\ UNCHANGED snap
           ELSE ErrorInfo

Add(r) ==
    /\ conn = "open"
    /\ Use(r)
    /\ \/ ErrorInfo /\ UNCHANGED pRecorder
       \/ Select1(r)
    /\ UNCHANGED <<conn, epoch, res, nRecSetCount, nSubSubCmd, live>>

Lookup(r) ==
    /\ conn = "open"
    /\ Use(r)
    /\ Select1(r)
    /\ UNCHANGED <<conn, epoch, res, nRecSetCount, nSubSubCmd, live>>

(***************************************************************************)
(* The key of the account goes into pRecorder too, and the number of cards *)
(* that PL_LLC_POOLQRY counts when the API has answered; that answer, or   *)
(* that the call failed, is the reply (Exchange, ApiAnswers).  No list can *)
(* read what is left in pRecorder.                                         *)
(***************************************************************************)
ApiCommand(r) ==
    /\ conn = "open"
    /\ Use(r)
    /\ nSubSubCmd' = r.sub
    /\ \E key \in Select_From_Tbl(Asked(r), pRecorder) :
         \/ ErrorInfo /\ pRecorder' = key.rec
         \/ /\ key.ok /\ r.cmd # "PL_LLC_POOLQRY"
            /\ pRecorder' = key.rec
            /\ reply' = [kind |-> "row", epoch |-> key.rec.epoch] /\ UNCHANGED snap
         \/ /\ key.ok /\ r.cmd = "PL_LLC_POOLQRY"
            /\ \E num \in Select_From_Tbl(Asked(r), key.rec) :
                 /\ pRecorder' = num.rec
                 /\ IF num.ok
                    THEN reply' = [kind |-> "row", epoch |-> num.rec.epoch] /\ UNCHANGED snap
                    ELSE ErrorInfo
    /\ UNCHANGED <<conn, epoch, res, nRecSetCount, live>>

(***************************************************************************)
(* One row of user_tbl, in a local result that is freed.  A result without *)
(* rows is a result for SelectFromTbl; mysql_fetch_row returns no row and  *)
(* ParserUser reads through the null pointer, which the catch clauses of   *)
(* ProcessCommand do not catch.                                            *)
(***************************************************************************)
FetchUser(r) ==
    \E s \in SelectFromTbl(Asked(r)) :
        \/ s = NULL /\ ErrorInfo /\ UNCHANGED <<conn, live>>
        \/ /\ s # NULL /\ s.n > 0
           /\ reply' = [kind |-> "row", epoch |-> epoch]
           /\ UNCHANGED <<conn, snap, live>>
        \/ /\ s # NULL /\ s.n = 0
           /\ conn' = "down"
           /\ reply' = [kind |-> "crash"]
           /\ live' = live + 1
           /\ UNCHANGED snap

\* USER_ADD: no connection or a failed INSERT, or the row that was inserted.
UserAdd(r) ==
    /\ conn = "open"
    /\ Use(r)
    /\ \/ ErrorInfo /\ UNCHANGED <<conn, live>>
       \/ FetchUser(r)
    /\ UNCHANGED <<epoch, pRecorder, res, nRecSetCount, nSubSubCmd>>

\* USER_LOGIN: no connection, or the row with that name and password.
UserLogin(r) ==
    /\ conn = "open"
    /\ Use(r)
    /\ \/ ErrorInfo /\ UNCHANGED <<conn, live>>
       \/ FetchUser(r)
    /\ UNCHANGED <<epoch, pRecorder, res, nRecSetCount, nSubSubCmd>>

-----------------------------------------------------------------------------
Next ==
    \/ allocBObj
    \/ freeBObj
    \/ \E r \in PageRequests(AdoLists) : AdoList(r)
    \/ \E r \in PageRequests(MysqlLists) : MysqlList(r)
    \/ \E r \in Requests(DOMAIN Adds, {0}) : Add(r)
    \/ \E r \in Requests(DOMAIN Lookups, {0}) : Lookup(r)
    \/ \E r \in Requests(DOMAIN ApiCommands, 0 .. 1) : ApiCommand(r)
    \/ \E r \in Requests({"USER_ADD"}, {0}) : UserAdd(r)
    \/ \E r \in Requests({"USER_LOGIN"}, {0}) : UserLogin(r)

Spec == Init /\ [][Next]_vars

-----------------------------------------------------------------------------
Kinds == {"none", "error", "exception", "page", "row", "crash"}

\* The fields keep their types, and a buffer object holds one MySQL result at most.
TypeOK ==
    /\ conn \in {"closed", "open", "down"}
    /\ epoch \in 0 .. 1
    /\ pRecorder.n \in 0 .. MaxRows /\ res.n \in 0 .. MaxRows
    /\ nRecSetCount \in 0 .. MaxRows
    /\ nSubSubCmd \in 0 .. 1
    /\ live \in Nat
    /\ reply.kind \in Kinds
    /\ snap \in -1 .. MaxRows

\* A page that starts within n rows.
InRange(r, n) == r.tag >= 1 /\ r.page >= 1 /\ Start(r) <= n

(***************************************************************************)
(* What a client that uses a connection for one list only can rely on,     *)
(* whatever happens to the tables meanwhile and however often the first    *)
(* attempts fail: every page is cut out of one result and reports its      *)
(* size.  A page of an ADO list has exactly the rows asked for, and as     *)
(* many as it announces.  USER_LIST and KH_LIST do not page: what they     *)
(* send runs on to the end, so that pages overlap, and they announce what  *)
(* they send exactly when nothing follows the page asked for.              *)
(***************************************************************************)
PagesFitTogether ==
    reply.kind = "page" /\ sole = Asked(reply.req) =>
        LET r == reply.req
            told == reply.array = Cardinality(reply.rows)
        IN /\ reply.of = Executed(r)
           /\ reply.nCount = snap
           /\ r.cmd \in WholeTable => reply.sub = r.sub
           /\ InRange(r, snap) /\ r.cmd \in AdoLists =>
                 /\ reply.rows = {i \in 1 .. snap : Start(r) < i /\ i <= Start(r) + r.page}
                 /\ told
           /\ InRange(r, snap) /\ r.cmd \in MysqlLists =>
                 /\ reply.rows = Start(r) + 1 .. snap
                 /\ told <=> snap <= Start(r) + r.page

(***************************************************************************)
(* A buffer object is used by one connection after the other; no reply     *)
(* shows rows that an earlier connection asked for.                        *)
(***************************************************************************)
Isolation == reply.kind \in {"page", "row"} => reply.epoch = epoch

(***************************************************************************)
(* mysql_store_result hands over memory that only mysql_free_result gives  *)
(* back: there is never a result that the buffer object does not know.     *)
(***************************************************************************)
ResultsFreed == conn # "down" => live = IF res # NULL THEN 1 ELSE 0

-----------------------------------------------------------------------------
(* What the protocol document says of the replies *)

\* nCount is the number of rows in the database for the condition asked for.
CountIsOfTheCondition ==
    reply.kind = "page" => reply.of = Asked(reply.req) /\ reply.nCount = reply.size
=============================================================================
