------------------------------ MODULE MysqlPool ------------------------------
(***************************************************************************)
(* The pool of MYSQL connections of DBPool.cpp (lines 425-544), which the  *)
(* user commands use beside the ADO pool: vctMysql and g_nCurrentNumber    *)
(* under csMysql, and the manual-reset event hWaitMysql.                   *)
(*                                                                         *)
(* It differs from DBPool where it matters: the connection is pinged, and  *)
(* if need be replaced by a new one, after csMysql was left, and every     *)
(* caller gives its connection back on every path.                         *)
(***************************************************************************)
EXTENDS Naturals, Sequences, FiniteSets, SequencesExt

CONSTANTS Threads,          \* the I/O worker threads
          Conns,            \* addresses a MYSQL object can have
          NoConn,           \* a NULL MYSQL*
          MinConnection,    \* g_nMinConnection
          MaxConnection     \* g_nMaxConnection

ASSUME MysqlAssumption ==
    /\ IsFiniteSet(Threads) /\ Threads # {}
    /\ IsFiniteSet(Conns)
    /\ NoConn \notin Conns
    /\ MinConnection \in Nat \ {0}
    /\ MaxConnection \in Nat
    /\ MinConnection <= MaxConnection

\* The places are also the abstract places of BoundedPool.
ASSUME PlacesAssumption ==
    {"none", "shelf", "lost"} \cap Threads = {}

VARIABLES
    pool,       \* vctMysql, popped and pushed at its back
    cur,        \* g_nCurrentNumber
    event,      \* hWaitMysql is signalled
    pc,         \* where each thread is
    held,       \* the thread's local pMysql
    alive       \* connections the server has not dropped

vars == <<pool, cur, event, pc, held, alive>>

(***************************************************************************)
(* idle       not in the pool's code                                       *)
(* alloc      at the head of Mysql_AllocConnection's loop                  *)
(* towait     out of csMysql, before WaitForSingleObject                   *)
(* waiting    blocked in WaitForSingleObject                               *)
(* ping       has a connection, before mysql_ping                          *)
(* reconnect  has closed a dead connection, before Mysql_ConnectDB         *)
(* remove     could not reconnect, at Mysql_RemoveFromPool                 *)
(* use        runs its SQL, then Mysql_BackToPool                          *)
(* signal     has pushed the connection, before SetEvent                   *)
(***************************************************************************)
PCs == {"idle", "alloc", "towait", "waiting", "ping", "reconnect", "remove",
        "use", "signal"}

Holding == {"ping", "use"}

\* Threads the counter counts although they have no connection.
Between == {t \in Threads : pc[t] \in {"reconnect", "remove"}}

Pooled == ToSet(pool)

\* The MYSQL objects that exist.
Allocated == Pooled \cup {held[t] : t \in {u \in Threads : pc[u] \in Holding}}

GoTo(t, label) == pc' = [pc EXCEPT ![t] = label]

-----------------------------------------------------------------------------
(***************************************************************************)
(* Mysql_InitConnectionPool skips the connections it cannot open, and      *)
(* main then runs CreateUserTbl, which takes a connection and gives it     *)
(* back; if it gets none main returns before there is a worker thread.     *)
(***************************************************************************)
Init ==
    /\ \E n \in 1 .. MinConnection :
         pool \in {s \in [1 .. n -> Conns] : IsInjective(s)}
    /\ cur = Len(pool)
    /\ event = TRUE
    /\ pc = [t \in Threads |-> "idle"]
    /\ held = [t \in Threads |-> NoConn]
    /\ alive = ToSet(pool)

\* A command handler of doUserData calls Mysql_AllocConnection.
Request(t) ==
    /\ pc[t] = "idle"
    /\ GoTo(t, "alloc")
    /\ UNCHANGED <<pool, cur, event, held, alive>>

\* Faulty variant: the connection is read with back() and never popped.
AllocPopNoPop(t) ==
    /\ pc[t] = "alloc"
    /\ pool # <<>>
    /\ held' = [held EXCEPT ![t] = Last(pool)]
    /\ GoTo(t, "ping")
    /\ UNCHANGED <<pool, cur, event, alive>>

\* An idle connection: back() and pop_back().
AllocPop(t) ==
    /\ pc[t] = "alloc"
    /\ pool # <<>>
    /\ held' = [held EXCEPT ![t] = Last(pool)]
    /\ pool' = Front(pool)
    /\ GoTo(t, "ping")
    /\ UNCHANGED <<cur, event, alive>>

\* None, and the limit is not reached: Mysql_ConnectDB inside csMysql.
AllocNew(t) ==
    /\ pc[t] = "alloc"
    /\ pool = <<>>
    /\ cur < MaxConnection
    /\ \E c \in Conns \ Allocated :
         /\ held' = [held EXCEPT ![t] = c]
         /\ alive' = alive \cup {c}
    /\ cur' = cur + 1
    /\ GoTo(t, "ping")
    /\ UNCHANGED <<pool, event>>

\* ... and the server cannot be reached: the caller gets NULL.
AllocNewFails(t) ==
    /\ pc[t] = "alloc"
    /\ pool = <<>>
    /\ cur < MaxConnection
    /\ GoTo(t, "idle")
    /\ UNCHANGED <<pool, cur, event, held, alive>>

\* At the limit: ResetEvent inside csMysql, then leave it.
AllocReset(t) ==
    /\ pc[t] = "alloc"
    /\ pool = <<>>
    /\ cur >= MaxConnection
    /\ event' = FALSE
    /\ GoTo(t, "towait")
    /\ UNCHANGED <<pool, cur, held, alive>>

\* Faulty variant: ResetEvent is called after csMysql was left.
WaitForMysqlLateReset(t) ==
    /\ pc[t] = "towait"
    /\ event' = FALSE
    /\ GoTo(t, "waiting")
    /\ UNCHANGED <<pool, cur, held, alive>>

\* WaitForSingleObject(hWaitMysql, INFINITE): through if signalled, else block.
WaitForMysql(t) ==
    /\ pc[t] = "towait"
    /\ GoTo(t, IF event THEN "alloc" ELSE "waiting")
    /\ UNCHANGED <<pool, cur, event, held, alive>>

\* mysql_ping answers.
PingOK(t) ==
    /\ pc[t] = "ping"
    /\ held[t] \in alive
    /\ GoTo(t, "use")
    /\ UNCHANGED <<pool, cur, event, held, alive>>

\* mysql_ping fails: Mysql_CloseConnection.
PingFails(t) ==
    /\ pc[t] = "ping"
    /\ held[t] \notin alive
    /\ held' = [held EXCEPT ![t] = NoConn]
    /\ GoTo(t, "reconnect")
    /\ UNCHANGED <<pool, cur, event, alive>>

\* Mysql_ConnectDB makes a new connection, outside csMysql; it is not pinged.
Reconnect(t) ==
    /\ pc[t] = "reconnect"
    /\ \E c \in Conns \ Allocated :
         /\ held' = [held EXCEPT ![t] = c]
         /\ alive' = alive \cup {c}
    /\ GoTo(t, "use")
    /\ UNCHANGED <<pool, cur, event>>

ReconnectFails(t) ==
    /\ pc[t] = "reconnect"
    /\ GoTo(t, "remove")
    /\ UNCHANGED <<pool, cur, event, held, alive>>

\* Faulty variant: the counter is left alone.
RemoveForgotten(t) ==
    /\ pc[t] = "remove"
    /\ GoTo(t, "idle")
    /\ UNCHANGED <<pool, cur, event, held, alive>>

\* Mysql_RemoveFromPool lowers the counter in csMysql, with no SetEvent.
RemoveFromPool(t) ==
    /\ pc[t] = "remove"
    /\ cur' = cur - 1
    /\ GoTo(t, "idle")
    /\ UNCHANGED <<pool, event, held, alive>>

(***************************************************************************)
(* The SQL is over, with a result or an error: Mysql_BackToPool pushes the *)
(* connection, alive or not.                                               *)
(***************************************************************************)
BackToPool(t) ==
    /\ pc[t] = "use"
    /\ pool' = Append(pool, held[t])
    /\ held' = [held EXCEPT ![t] = NoConn]
    /\ GoTo(t, "signal")
    /\ UNCHANGED <<cur, event, alive>>

\* Faulty variant: the SetEvent is dropped, as Mysql_RemoveFromPool has none.
SetEventDropped(t) ==
    /\ pc[t] = "signal"
    /\ GoTo(t, "idle")
    /\ UNCHANGED <<pool, cur, event, held, alive>>

\* SetEvent: the event stays signalled and every blocked thread is released.
SetEvent(t) ==
    /\ pc[t] = "signal"
    /\ event' = TRUE
    /\ pc' = [u \in Threads |-> CASE u = t -> "idle"
                                  [] u # t /\ pc[u] = "waiting" -> "alloc"
                                  [] OTHER -> pc[u]]
    /\ UNCHANGED <<pool, cur, held, alive>>

\* The database server closes a connection.
ServerDrops(c) ==
    /\ c \in alive \cap Allocated
    /\ alive' = alive \ {c}
    /\ UNCHANGED <<pool, cur, event, pc, held>>

-----------------------------------------------------------------------------
\* The steps a thread takes once it has asked for a connection.
Step(t) ==
    \/ AllocPop(t)
    \/ AllocNew(t)
    \/ AllocNewFails(t)
    \/ AllocReset(t)
    \/ WaitForMysql(t)
    \/ PingOK(t)
    \/ PingFails(t)
    \/ Reconnect(t)
    \/ ReconnectFails(t)
    \/ RemoveFromPool(t)
    \/ BackToPool(t)
    \/ SetEvent(t)

Next ==
    \/ \E t \in Threads : Request(t) \/ Step(t)
    \/ \E c \in Conns : ServerDrops(c)

Spec == Init /\ [][Next]_vars

(***************************************************************************)
(* A thread that is not blocked keeps running and a query ends; whether    *)
(* requests arrive or the server drops a connection is up to the           *)
(* environment.                                                            *)
(***************************************************************************)
FairSpec == Spec /\ \A t \in Threads : WF_vars(Step(t))

-----------------------------------------------------------------------------
TypeOK ==
    /\ pool \in Seq(Conns)
    /\ cur \in 0 .. MaxConnection
    /\ event \in BOOLEAN
    /\ pc \in [Threads -> PCs]
    /\ held \in [Threads -> Conns \cup {NoConn}]
    /\ \A t \in Threads : held[t] \in Conns <=> pc[t] \in Holding
    /\ alive \subseteq Conns

(***************************************************************************)
(* libmysql allows one query at a time on a connection: no two threads     *)
(* have the same one, although the replacement of a dead connection is     *)
(* made outside csMysql, and none in use lies in vctMysql.                 *)
(***************************************************************************)
Exclusive ==
    /\ IsInjective(pool)
    /\ \A t, u \in Threads :
         t # u /\ pc[t] \in Holding /\ pc[u] \in Holding => held[t] # held[u]
    /\ \A t \in Threads : pc[t] \in Holding => held[t] \notin Pooled

(***************************************************************************)
(* g_nCurrentNumber counts the connections that exist and the ones that    *)
(* Mysql_AllocConnection is replacing outside csMysql; so it stays true    *)
(* whatever the server drops and however the replacement ends.             *)
(***************************************************************************)
Accounting == cur = Cardinality(Allocated) + Cardinality(Between)

(***************************************************************************)
(* A thread that waits, or is about to, while a connection lies in the     *)
(* pool still has a SetEvent coming.                                       *)
(***************************************************************************)
NoLostWakeup ==
    (\E t \in Threads : pc[t] \in {"towait", "waiting"}) /\ pool # <<>> /\ ~event
        => \E u \in Threads : pc[u] = "signal"

(***************************************************************************)
(* The pool's code keeps these four together at every step: the wakeup is  *)
(* not lost because the counter is right, and the counter is right because *)
(* each connection has one holder.                                         *)
(***************************************************************************)
IInv == TypeOK /\ Exclusive /\ Accounting /\ NoLostWakeup

(***************************************************************************)
(* Never are all threads asleep, although Mysql_RemoveFromPool wakes       *)
(* nobody (DBPool.cpp:484-486): the thread whose reconnection failed finds *)
(* the slot it freed and does not wait itself.                             *)
(***************************************************************************)
NeverAllAsleep == \E t \in Threads : pc[t] # "waiting"

(***************************************************************************)
(* The sleeper that Mysql_RemoveFromPool forgot is released by whoever     *)
(* uses a connection next.                                                 *)
(***************************************************************************)
NextUserReleases ==
    \A t, u \in Threads :
        pc[t] = "waiting" /\ pc[u] = "use" ~> pc[t] # "waiting"

-----------------------------------------------------------------------------
\* Where each connection is, as BoundedPool sees it.
Place ==
    [c \in Conns |->
        CASE c \in Pooled -> "shelf"
          [] c \notin Allocated -> "none"
          [] OTHER -> CHOOSE t \in Threads : pc[t] \in Holding /\ held[t] = c]

Abstract == INSTANCE BoundedPool WITH Limit <- MaxConnection, place <- Place

(***************************************************************************)
(* Mysql_AllocConnection and Mysql_BackToPool implement the bounded pool:  *)
(* a replacement is a Discard followed by an Open, and the slot counted    *)
(* for it leaves room for the Open.                                        *)
(***************************************************************************)
ImplementsBoundedPool == Abstract!PoolSpec
=============================================================================
