------------------------------ MODULE ExcelLoad ------------------------------
(***************************************************************************)
(* doExcelLoad (ExcelLoad.cpp): a list of cards imported in one            *)
(* transaction.  The six subcommands have the same shape: AllocTransConner,*)
(* BeginTrans, one Execute per row, CommitTrans, and on a _com_error       *)
(* RollbackTrans; they differ in the statement.  Worker threads import     *)
(* concurrently, each on its own pooled connection.                        *)
(*                                                                         *)
(* Only a _com_error thrown between the first row and CommitTrans is       *)
(* caught here.  Every other exception (a field of the wrong type; an      *)
(* error of BeginTrans or of RollbackTrans itself) leaves doExcelLoad and  *)
(* is caught in ProcessCommand, which knows nothing of the connection.     *)
(*                                                                         *)
(* The pool's own workings are DBPool's; here it is the set of idle        *)
(* connections.                                                            *)
(***************************************************************************)
EXTENDS Naturals, Sequences, FiniteSets, SequencesExt

CONSTANTS Workers,      \* the I/O worker threads
          Conns,        \* ADO connections
          NoConn,       \* a NULL _ConnectionPtr*
          Cards,        \* values of jrhm, the key of sim_tbl
          Batches,      \* the imports clients send
          OldTbl,       \* sim_tbl at the start
          Nil,          \* SQL's NULL, and a row that does not exist
          MaxImports    \* bound: imports altogether

Subs == {"SIM", "XSQD", "ZTXX", "XFQD", "TKQD", "ZXQD"}

(***************************************************************************)
(* bad: the row with a field of the wrong msgpack type, 0 for the fields   *)
(* before the rows; a number beyond the rows means that all is well.       *)
(***************************************************************************)
Batch == [sub : Subs, rows : Seq(Cards), bad : Nat]

\* A row of sim_tbl: who last wrote its columns, and the expiry date.
Rows == [iccid : Workers \cup {Nil}, khmc : Workers \cup {Nil},
         zt : Workers \cup {Nil}, dqrq : Nat \cup {Nil}]

ASSUME ExcelAssumption ==
    /\ {"none", "shelf", "lost"} \cap Workers = {}
    /\ IsFiniteSet(Conns) /\ NoConn \notin Conns
    /\ Nil \notin Workers
    /\ \A b \in Batches : b \in Batch
    /\ OldTbl \in [Cards -> Rows \cup {Nil}]
    /\ MaxImports \in Nat

VARIABLES
    tbl,        \* sim_tbl, what is committed of it
    pool,       \* idle connections
    open,       \* connections with an open transaction
    writes,     \* rows written in it, not committed; their cards are locked
    alive,      \* connections the server has not dropped
    pc,         \* where each worker is
    cmd,        \* the import it runs
    i,          \* the row it is at
    held,       \* its pConner
    reply,      \* its last answer to the client: "0", "1" or "bb"
    log,        \* history: the committed imports, in order
    outcome,    \* history: what became of the worker's last transaction
    imports     \* imports so far

db == <<tbl, open, writes, alive, log>>
vars == <<db, pool, pc, cmd, i, held, reply, outcome, imports>>

Leaked == Conns \ (pool \cup {held[w] : w \in Workers})

NoWrites == [k \in {} |-> Nil]

Locked(k) == \E d \in Conns : k \in DOMAIN writes[d]

-----------------------------------------------------------------------------
(***************************************************************************)
(* What the statement of a subcommand does to a row (Nil: no such row).    *)
(* A renewal counts from the later of its own date, here 1, and the old    *)
(* expiry date, for one month; DATE_ADD of a NULL date is NULL.            *)
(***************************************************************************)
Renew(dqrq) == IF dqrq = Nil THEN Nil ELSE (IF 1 > dqrq THEN 1 ELSE dqrq) + 1

Statement(sub, row, w) ==
    CASE row = Nil /\ sub # "SIM" -> Nil
      [] row = Nil /\ sub = "SIM" ->
            [iccid |-> w, khmc |-> Nil, zt |-> Nil, dqrq |-> Nil]
      [] row # Nil /\ sub = "SIM" -> [row EXCEPT !.iccid = w]
      [] row # Nil /\ sub = "XSQD" -> [row EXCEPT !.khmc = w]
      [] row # Nil /\ sub \in {"ZTXX", "ZXQD"} -> [row EXCEPT !.zt = w]
      [] row # Nil /\ sub = "XFQD" -> [row EXCEPT !.dqrq = Renew(@)]

\* EXCEL_TKQD's statement has no SET: the server rejects it.
IsSyntaxError(sub) == sub = "TKQD"

\* The table with a transaction's rows in place.
Overlay(t, wr) == [k \in Cards |-> IF k \in DOMAIN wr THEN wr[k] ELSE t[k]]

Init ==
    /\ tbl = OldTbl
    /\ pool = Conns
    /\ open = {}
    /\ writes = [d \in Conns |-> NoWrites]
    /\ alive = Conns
    /\ pc = [w \in Workers |-> "idle"]
    /\ cmd \in [Workers -> {CHOOSE b \in Batches : TRUE}]
    /\ i = [w \in Workers |-> 1]
    /\ held = [w \in Workers |-> NoConn]
    /\ reply = [w \in Workers |-> "0"]
    /\ log = <<>>
    /\ outcome = [w \in Workers |-> "committed"]
    /\ imports = 0

GoTo(w, label) == pc' = [pc EXCEPT ![w] = label]

Answer(w, r) == reply' = [reply EXCEPT ![w] = r]

\* The server forgets the transaction of a connection.
EndTrans(d) ==
    /\ open' = open \ {d}
    /\ writes' = [writes EXCEPT ![d] = NoWrites]

(***************************************************************************)
(* ProcessCommand catches what doExcelLoad did not and answers 0xbb; the   *)
(* connection is neither freed nor known to anybody.                       *)
(***************************************************************************)
Escape(w) ==
    /\ held' = [held EXCEPT ![w] = NoConn]
    /\ Answer(w, "bb")
    /\ GoTo(w, "idle")

-----------------------------------------------------------------------------
\* A client sends an import; subcommands without a case are Exchange's.
doExcelLoad(w) ==
    /\ pc[w] = "idle"
    /\ imports < MaxImports
    /\ imports' = imports + 1
    /\ \E b \in Batches : cmd' = [cmd EXCEPT ![w] = b]
    /\ i' = [i EXCEPT ![w] = 1]
    /\ outcome' = [outcome EXCEPT ![w] = "none"]
    /\ GoTo(w, "alloc")
    /\ UNCHANGED <<db, pool, held, reply>>

\* Faulty variant: the connection stays in the pool while it is used.
AllocShared(w) ==
    /\ pc[w] = "alloc"
    /\ \E d \in pool : held' = [held EXCEPT ![w] = d]
    /\ GoTo(w, "begin")
    /\ UNCHANGED <<db, pool, cmd, i, reply, outcome, imports>>

(***************************************************************************)
(* AllocTransConner takes a connection.  It reopens one whose State is not *)
(* adStateOpen, but ADO does not notice every drop when it happens.        *)
(***************************************************************************)
AllocTransConner(w) ==
    /\ pc[w] = "alloc"
    /\ \E d \in pool :
         /\ pool' = pool \ {d}
         /\ held' = [held EXCEPT ![w] = d]
         /\ alive' \in {alive, alive \cup {d}}
    /\ GoTo(w, "begin")
    /\ UNCHANGED <<tbl, open, writes, log, cmd, i, reply, outcome, imports>>

\* ... or returns NULL.
AllocFails(w) ==
    /\ pc[w] = "alloc"
    /\ pool # {}
    /\ Answer(w, "1")
    /\ GoTo(w, "idle")
    /\ UNCHANGED <<db, pool, cmd, i, held, outcome, imports>>

\* Faulty variant: BeginTrans is forgotten, so nothing is ever rolled back.
BeginTransForgotten(w) ==
    /\ pc[w] = "begin"
    /\ GoTo(w, "rows")
    /\ UNCHANGED <<db, pool, cmd, i, held, reply, outcome, imports>>

\* BeginTrans, then the fields before the rows, which EXCEL_SIM alone has.
BeginTrans(w) ==
    /\ pc[w] = "begin"
    /\ held[w] \in alive
    /\ open' = open \cup {held[w]}
    /\ IF cmd[w].sub = "SIM" /\ cmd[w].bad = 0
       THEN Escape(w)
       ELSE GoTo(w, "rows") /\ UNCHANGED <<held, reply>>
    /\ UNCHANGED <<tbl, pool, writes, alive, log, cmd, i, outcome, imports>>

\* BeginTrans throws outside the try block.
BeginTransFails(w) ==
    /\ pc[w] = "begin"
    /\ held[w] \notin alive
    /\ Escape(w)
    /\ UNCHANGED <<db, pool, cmd, i, outcome, imports>>

(***************************************************************************)
(* One turn of the loop: read the row's fields, then Execute.  Without an  *)
(* open transaction the server commits the row at once.                    *)
(***************************************************************************)
Execute(w) ==
    LET d == held[w]
        k == cmd[w].rows[i[w]]
        new == Statement(cmd[w].sub, Overlay(tbl, writes[d])[k], w)
    IN
    /\ pc[w] = "rows"
    /\ i[w] <= Len(cmd[w].rows)
    /\ cmd[w].bad # i[w]
    /\ d \in alive
    /\ ~IsSyntaxError(cmd[w].sub)
    /\ \A e \in Conns \ {d} : k \notin DOMAIN writes[e]
    /\ IF d \in open
       THEN /\ writes' = [writes EXCEPT ![d] =
                 [l \in DOMAIN @ \cup {k} |-> IF l = k THEN new ELSE @[l]]]
            /\ UNCHANGED tbl
       ELSE tbl' = [tbl EXCEPT ![k] = new] /\ UNCHANGED writes
    /\ i' = [i EXCEPT ![w] = @ + 1]
    /\ UNCHANGED <<open, alive, log, pool, pc, cmd, held, reply, outcome, imports>>

\* A field of the row has the wrong type: msgpack::type_error.
RowTypeError(w) ==
    /\ pc[w] = "rows"
    /\ i[w] <= Len(cmd[w].rows)
    /\ cmd[w].bad = i[w]
    /\ Escape(w)
    /\ UNCHANGED <<db, pool, cmd, i, outcome, imports>>


(***************************************************************************)
(* Execute throws a _com_error: always for a statement the server cannot   *)
(* parse, and at any time when the connection is gone, a lock is not       *)
(* granted in time or the server refuses the row.                          *)
(***************************************************************************)
ExecuteFails(w) ==
    /\ pc[w] = "rows"
    /\ i[w] <= Len(cmd[w].rows)
    /\ cmd[w].bad # i[w]
    /\ GoTo(w, "catch")
    /\ UNCHANGED <<db, pool, cmd, i, held, reply, outcome, imports>>

\* Faulty variant: CommitTrans is forgotten.
CommitForgotten(w) ==
    /\ pc[w] = "rows"
    /\ i[w] > Len(cmd[w].rows)
    /\ held[w] \in alive
    /\ EndTrans(held[w])
    /\ Answer(w, "0")
    /\ GoTo(w, "free")
    /\ UNCHANGED <<tbl, alive, log, pool, cmd, i, held, outcome, imports>>

\* All rows are written: CommitTrans.
CommitTrans(w) ==
    /\ pc[w] = "rows"
    /\ i[w] > Len(cmd[w].rows)
    /\ held[w] \in alive
    /\ tbl' = Overlay(tbl, writes[held[w]])
    /\ EndTrans(held[w])
    /\ log' = Append(log, [by |-> w, batch |-> cmd[w]])
    /\ outcome' = [outcome EXCEPT ![w] = "committed"]
    /\ Answer(w, "0")
    /\ GoTo(w, "free")
    /\ UNCHANGED <<alive, pool, cmd, i, held, imports>>

(***************************************************************************)
(* CommitTrans throws because the connection is gone; the server may have  *)
(* committed before its answer was lost.                                   *)
(***************************************************************************)
CommitTransFails(w) ==
    LET d == held[w] IN
    /\ pc[w] = "rows"
    /\ i[w] > Len(cmd[w].rows)
    /\ \/ /\ d \notin alive
          /\ UNCHANGED <<db, outcome>>
       \/ /\ d \in alive
          /\ tbl' = Overlay(tbl, writes[d])
          /\ EndTrans(d)
          /\ alive' = alive \ {d}
          /\ log' = Append(log, [by |-> w, batch |-> cmd[w]])
          /\ outcome' = [outcome EXCEPT ![w] = "unknown"]
    /\ GoTo(w, "catch")
    /\ UNCHANGED <<pool, cmd, i, held, reply, imports>>

\* Faulty variant: the handler frees the connection without RollbackTrans.
RollbackForgotten(w) ==
    /\ pc[w] = "catch"
    /\ held[w] \in alive
    /\ Answer(w, "1")
    /\ GoTo(w, "free")
    /\ UNCHANGED <<db, pool, cmd, i, held, outcome, imports>>

\* catch (_com_error): RollbackTrans.
RollbackTrans(w) ==
    /\ pc[w] = "catch"
    /\ held[w] \in alive
    /\ EndTrans(held[w])
    /\ Answer(w, "1")
    /\ GoTo(w, "free")
    /\ UNCHANGED <<tbl, alive, log, pool, cmd, i, held, outcome, imports>>

\* RollbackTrans on a lost connection throws out of the handler.
RollbackTransFails(w) ==
    /\ pc[w] = "catch"
    /\ held[w] \notin alive
    /\ Escape(w)
    /\ UNCHANGED <<db, pool, cmd, i, outcome, imports>>

\* FreeConner, then the error or success reply.
FreeConner(w) ==
    /\ pc[w] = "free"
    /\ pool' = pool \cup {held[w]}
    /\ held' = [held EXCEPT ![w] = NoConn]
    /\ GoTo(w, "idle")
    /\ UNCHANGED <<db, cmd, i, reply, outcome, imports>>

\* The server drops a connection and rolls its transaction back.
ServerDrops(d) ==
    /\ d \in alive
    /\ alive' = alive \ {d}
    /\ EndTrans(d)
    /\ UNCHANGED <<tbl, log, pool, pc, cmd, i, held, reply, outcome, imports>>

-----------------------------------------------------------------------------
Step(w) ==
    \/ AllocTransConner(w) \/ AllocFails(w)
    \/ BeginTrans(w) \/ BeginTransFails(w)
    \/ Execute(w) \/ RowTypeError(w) \/ ExecuteFails(w)
    \/ CommitTrans(w) \/ CommitTransFails(w)
    \/ RollbackTrans(w) \/ RollbackTransFails(w)
    \/ FreeConner(w)

Next ==
    \/ \E w \in Workers : doExcelLoad(w) \/ Step(w)
    \/ \E d \in Conns : ServerDrops(d)

Spec == Init /\ [][Next]_vars

(***************************************************************************)
(* Worker threads run, and a statement that waits for a lock ends after    *)
(* the server's lock wait timeout (ExecuteFails).                          *)
(***************************************************************************)
FairSpec == Spec /\ \A w \in Workers : WF_vars(Step(w))

-----------------------------------------------------------------------------
\* The table after one whole import, and after a sequence of them.
Imported(t, entry) ==
    FoldLeft(LAMBDA u, k : [u EXCEPT ![k] = Statement(entry.batch.sub, @, entry.by)],
             t, entry.batch.rows)

(***************************************************************************)
(* Imports are all or nothing, also when they overlap in time and in       *)
(* cards, fail half way or lose their connection: sim_tbl is always what   *)
(* the committed imports, run whole and one after the other, make of it.   *)
(***************************************************************************)
AllOrNothing == tbl = FoldLeft(Imported, OldTbl, log)

(***************************************************************************)
(* A client that is told 0 has its import in the table; one that is told   *)
(* anything else has not, unless the connection broke inside CommitTrans.  *)
(***************************************************************************)
RepliesTrue ==
    \A w \in Workers : pc[w] = "idle" =>
        /\ reply[w] = "0" => outcome[w] = "committed"
        /\ reply[w] # "0" => outcome[w] \in {"none", "unknown"}

(***************************************************************************)
(* A locked card is released again, unless the connection that locked it   *)
(* was leaked by an exception that passed doExcelLoad's handler.           *)
(***************************************************************************)
CardsReleased ==
    \A k \in Cards :
        Locked(k) ~> ~Locked(k) \/ \E d \in Leaked : k \in DOMAIN writes[d]


\* Where each connection is, as BoundedPool sees it.
Place ==
    [d \in Conns |->
        CASE \E w \in Workers : held[w] = d -> CHOOSE w \in Workers : held[w] = d
          [] (\A w \in Workers : held[w] # d) /\ d \in pool -> "shelf"
          [] OTHER -> "lost"]

UsedPool == INSTANCE BoundedPool WITH
                Threads <- Workers, Limit <- Cardinality(Conns), place <- Place

(***************************************************************************)
(* Imports use the pool as BoundedPool allows, the promise DBPool keeps:   *)
(* each takes its connection from the shelf and puts it back or, when an   *)
(* exception passes the handler, loses it; it never hands one on.          *)
(***************************************************************************)
UsesBoundedPool == UsedPool!PoolSpec
=============================================================================
