------------------------------- MODULE DBPool -------------------------------
(***************************************************************************)
(* The pool of ADO connections of DBPool.cpp (lines 35-405): a vector of   *)
(* idle connections and a counter guarded by the critical section csConner,*)
(* and the manual-reset event hWaitConner on which a caller sleeps when    *)
(* the pool is empty and the counter is at its limit.                      *)
(*                                                                         *)
(* Every access to vctConner and g_nCurrentNum is inside csConner, so one  *)
(* visit of the critical section is one step.  SetEvent and the wait are   *)
(* outside it and are steps of their own.                                  *)
(***************************************************************************)
EXTENDS Naturals, Sequences, FiniteSets, SequencesExt

CONSTANTS Threads,      \* the I/O worker threads
          Conns,        \* addresses an _ConnectionPtr object can have
          NoConn,       \* a NULL _ConnectionPtr*
          MinConner,    \* g_nMinConner
          MaxConner     \* g_nMaxConner

ASSUME PoolAssumption ==
    /\ IsFiniteSet(Threads) /\ Threads # {}
    /\ IsFiniteSet(Conns)
    /\ NoConn \notin Conns
    /\ MinConner \in Nat
    /\ MaxConner \in Nat
    /\ MinConner <= MaxConner

(***************************************************************************)
(* The places are also the abstract places of BoundedPool.                 *)
(***************************************************************************)
ASSUME NamesAssumption ==
    {"none", "shelf", "lost"} \cap Threads = {}

VARIABLES
    pool,       \* vctConner, popped and pushed at its back
    cur,        \* g_nCurrentNum
    event,      \* hWaitConner is signalled
    pc,         \* where each thread is
    job,        \* what the thread wants the connection for
    held,       \* the thread's local pConner
    open,       \* connections whose ADO State is adStateOpen
    leaked      \* connections whose holder returned without FreeConner

vars == <<pool, cur, event, pc, job, held, open, leaked>>

(***************************************************************************)
(* "query": Select_From_Tbl and ExecuteSql, which free the connection on   *)
(* every path.  "trans": doExcelLoad, which takes it by AllocTransConner.  *)
(***************************************************************************)
Jobs == {"query", "trans"}

(***************************************************************************)
(* idle     not in the pool's code                                         *)
(* alloc    at the head of AllocConner's loop                              *)
(* towait   out of the critical section, before WaitForSingleObject        *)
(* waiting  blocked in WaitForSingleObject                                 *)
(* check    has a connection, looks at its State                           *)
(* use      runs its SQL                                                   *)
(* free     at FreeConner                                                  *)
(* signal   has pushed the connection, before SetEvent                     *)
(* dec      ReInitConner has deleted the connection, counter not yet down  *)
(***************************************************************************)
PCs == {"idle", "alloc", "towait", "waiting", "check", "use", "free",
        "signal", "dec"}

Holding == {"check", "use", "free"}

Pooled == ToSet(pool)

\* The connections that exist: every _ConnectionPtr object not yet deleted.
Allocated == Pooled \cup {held[t] : t \in {u \in Threads : pc[u] \in Holding}}
                    \cup leaked

Decrementing == {t \in Threads : pc[t] = "dec"}

GoTo(t, label) == pc' = [pc EXCEPT ![t] = label]

-----------------------------------------------------------------------------
(***************************************************************************)
(* InitAdoMysql and InitConnerPool run before the worker threads exist; if *)
(* one connection cannot be opened main returns.                           *)
(***************************************************************************)
Init ==
    /\ pool \in {s \in [1 .. MinConner -> Conns] : IsInjective(s)}
    /\ cur = MinConner
    /\ event = FALSE
    /\ pc = [t \in Threads |-> "idle"]
    /\ job = [t \in Threads |-> "query"]
    /\ held = [t \in Threads |-> NoConn]
    /\ open = ToSet(pool)
    /\ leaked = {}

\* A command handler calls Select_From_Tbl, ExecuteSql or AllocTransConner.
Request(t) ==
    /\ pc[t] = "idle"
    /\ \E j \in Jobs : job' = [job EXCEPT ![t] = j]
    /\ GoTo(t, "alloc")
    /\ UNCHANGED <<pool, cur, event, held, open, leaked>>

\* Faulty variant: the connection is read with back() and never popped.
AllocPopNoPop(t) ==
    /\ pc[t] = "alloc"
    /\ pool # <<>>
    /\ held' = [held EXCEPT ![t] = Last(pool)]
    /\ GoTo(t, "check")
    /\ UNCHANGED <<pool, cur, event, job, open, leaked>>

\* AllocConner finds an idle connection: back() and pop_back().
AllocPop(t) ==
    /\ pc[t] = "alloc"
    /\ pool # <<>>
    /\ held' = [held EXCEPT ![t] = Last(pool)]
    /\ pool' = Front(pool)
    /\ GoTo(t, "check")
    /\ UNCHANGED <<cur, event, job, open, leaked>>

\* Faulty variant: the limit is tested with <= .
AllocNewOffByOne(t) ==
    /\ pc[t] = "alloc"
    /\ pool = <<>>
    /\ cur <= MaxConner
    /\ \E c \in Conns \ Allocated :
         /\ held' = [held EXCEPT ![t] = c]
         /\ open' = open \cup {c}
    /\ cur' = cur + 1
    /\ GoTo(t, "check")
    /\ UNCHANGED <<pool, event, job, leaked>>

\* AllocConner grows the pool: AddNewConner opens a connection inside csConner.
AllocNew(t) ==
    /\ pc[t] = "alloc"
    /\ pool = <<>>
    /\ cur < MaxConner
    /\ \E c \in Conns \ Allocated :
         /\ held' = [held EXCEPT ![t] = c]
         /\ open' = open \cup {c}
    /\ cur' = cur + 1
    /\ GoTo(t, "check")
    /\ UNCHANGED <<pool, event, job, leaked>>

\* Faulty variant: the counter goes up although no connection was opened.
AllocNewFailsCounted(t) ==
    /\ pc[t] = "alloc"
    /\ pool = <<>>
    /\ cur < MaxConner
    /\ cur' = cur + 1
    /\ GoTo(t, "idle")
    /\ UNCHANGED <<pool, event, job, held, open, leaked>>

\* AddNewConner cannot open a connection: AllocConner returns NULL.
AllocNewFails(t) ==
    /\ pc[t] = "alloc"
    /\ pool = <<>>
    /\ cur < MaxConner
    /\ GoTo(t, "idle")
    /\ UNCHANGED <<pool, cur, event, job, held, open, leaked>>

\* AllocConner at the limit: ResetEvent inside csConner, then leave it.
AllocReset(t) ==
    /\ pc[t] = "alloc"
    /\ pool = <<>>
    /\ cur >= MaxConner
    /\ event' = FALSE
    /\ GoTo(t, "towait")
    /\ UNCHANGED <<pool, cur, job, held, open, leaked>>

\* Faulty variant: ResetEvent is called after leaving csConner, before the wait.
WaitForConnerLateReset(t) ==
    /\ pc[t] = "towait"
    /\ event' = FALSE
    /\ GoTo(t, "waiting")
    /\ UNCHANGED <<pool, cur, job, held, open, leaked>>

\* WaitForSingleObject(hWaitConner, INFINITE): through if signalled, else block.
WaitForConner(t) ==
    /\ pc[t] = "towait"
    /\ GoTo(t, IF event THEN "alloc" ELSE "waiting")
    /\ UNCHANGED <<pool, cur, event, job, held, open, leaked>>

\* The connection is still open.
CheckOpen(t) ==
    /\ pc[t] = "check"
    /\ held[t] \in open
    /\ GoTo(t, "use")
    /\ UNCHANGED <<pool, cur, event, job, held, open, leaked>>

\* The connection was closed under us; ReleaseConner and ReInitConner reopen it.
ReInitConner(t) ==
    /\ pc[t] = "check"
    /\ held[t] \notin open
    /\ open' = open \cup {held[t]}
    /\ GoTo(t, "use")
    /\ UNCHANGED <<pool, cur, event, job, held, leaked>>

\* ReInitConner fails and deletes the object.
ReInitConnerFails(t) ==
    /\ pc[t] = "check"
    /\ held[t] \notin open
    /\ held' = [held EXCEPT ![t] = NoConn]
    /\ GoTo(t, "dec")
    /\ UNCHANGED <<pool, cur, event, job, open, leaked>>

\* Faulty variant: the counter is left alone.
DecrementForgotten(t) ==
    /\ pc[t] = "dec"
    /\ GoTo(t, "idle")
    /\ UNCHANGED <<pool, cur, event, job, held, open, leaked>>

\* ... and takes it off the counter in csConner, with no SetEvent.
DecrementCurrent(t) ==
    /\ pc[t] = "dec"
    /\ cur' = cur - 1
    /\ GoTo(t, "idle")
    /\ UNCHANGED <<pool, event, job, held, open, leaked>>

\* The SQL is over: result, error, Commit or Rollback all lead to FreeConner.
Finish(t) ==
    /\ pc[t] = "use"
    /\ GoTo(t, "free")
    /\ UNCHANGED <<pool, cur, event, job, held, open, leaked>>

(***************************************************************************)
(* A field of an Excel row has the wrong msgpack type, or BeginTrans or    *)
(* RollbackTrans throws: the exception passes doExcelLoad's handler and is *)
(* caught in ProcessCommand.  Nobody holds the connection any more.        *)
(* ExcelLoad has the details.                                              *)
(***************************************************************************)
TransUnwind(t) ==
    /\ pc[t] = "use"
    /\ job[t] = "trans"
    /\ leaked' = leaked \cup {held[t]}
    /\ held' = [held EXCEPT ![t] = NoConn]
    /\ GoTo(t, "idle")
    /\ UNCHANGED <<pool, cur, event, job, open>>

\* FreeConner pushes the connection back in csConner.
FreeConner(t) ==
    /\ pc[t] = "free"
    /\ pool' = Append(pool, held[t])
    /\ held' = [held EXCEPT ![t] = NoConn]
    /\ GoTo(t, "signal")
    /\ UNCHANGED <<cur, event, job, open, leaked>>

(***************************************************************************)
(* SetEvent on a manual-reset event: it stays signalled, and every thread  *)
(* blocked on it is released at that moment.                               *)
(***************************************************************************)
SetEvent(t) ==
    /\ pc[t] = "signal"
    /\ event' = TRUE
    /\ pc' = [u \in Threads |-> CASE u = t -> "idle"
                                  [] u # t /\ pc[u] = "waiting" -> "alloc"
                                  [] OTHER -> pc[u]]
    /\ UNCHANGED <<pool, cur, job, held, open, leaked>>

\* The database server closes a connection.
ServerDrops(c) ==
    /\ c \in open \cap Allocated
    /\ open' = open \ {c}
    /\ UNCHANGED <<pool, cur, event, pc, job, held, leaked>>

-----------------------------------------------------------------------------
\* The steps a thread takes once it has asked for a connection.
Step(t) ==
    \/ AllocPop(t)
    \/ AllocNew(t)
    \/ AllocNewFails(t)
    \/ AllocReset(t)
    \/ WaitForConner(t)
    \/ CheckOpen(t)
    \/ ReInitConner(t)
    \/ ReInitConnerFails(t)
    \/ DecrementCurrent(t)
    \/ Finish(t)
    \/ TransUnwind(t)
    \/ FreeConner(t)
    \/ SetEvent(t)

Next ==
    \/ \E t \in Threads : Request(t) \/ Step(t)
    \/ \E c \in Conns : ServerDrops(c)

Spec == Init /\ [][Next]_vars

(***************************************************************************)
(* The operating system keeps running every thread that is not blocked,    *)
(* and a query ends (ADO's CommandTimeout); whether requests arrive or the *)
(* server drops a connection is up to the environment.                     *)
(***************************************************************************)
FairSpec == Spec /\ \A t \in Threads : WF_vars(Step(t))

-----------------------------------------------------------------------------
TypeOK ==
    /\ pool \in Seq(Conns)
    /\ cur \in 0 .. MaxConner
    /\ event \in BOOLEAN
    /\ pc \in [Threads -> PCs]
    /\ job \in [Threads -> Jobs]
    /\ held \in [Threads -> Conns \cup {NoConn}]
    /\ \A t \in Threads : held[t] \in Conns <=> pc[t] \in Holding
    /\ open \subseteq Conns
    /\ leaked \subseteq Conns

(***************************************************************************)
(* A connection has one owner: no two threads run SQL on the same one, and *)
(* one that is in use is neither in vctConner nor in it twice.             *)
(***************************************************************************)
Exclusive ==
    /\ IsInjective(pool)
    /\ \A t, u \in Threads :
         t # u /\ pc[t] \in Holding /\ pc[u] \in Holding => held[t] # held[u]
    /\ \A t \in Threads : pc[t] \in Holding => held[t] \notin Pooled \cup leaked
    /\ Pooled \cap leaked = {}

(***************************************************************************)
(* g_nCurrentNum counts the connections that exist, except while           *)
(* ReInitConner is between delete and the decrement.                       *)
(***************************************************************************)
Accounting == cur = Cardinality(Allocated) + Cardinality(Decrementing)

\* The database never sees more than g_nMaxConner connections of this pool.
BoundedConnections == Cardinality(Allocated) <= MaxConner

(***************************************************************************)
(* AllocConner resets the event before it leaves csConner and FreeConner   *)
(* sets it after the push, so a thread that waits, or is about to, while a *)
(* connection lies in the pool still has a SetEvent coming.                *)
(***************************************************************************)
NoLostWakeup ==
    (\E t \in Threads : pc[t] \in {"towait", "waiting"}) /\ pool # <<>> /\ ~event
        => \E u \in Threads : pc[u] = "signal"

(***************************************************************************)
(* All threads blocked on the pool at once, the server's only deadlock     *)
(* here, takes one cause: doExcelLoad leaked every connection.             *)
(***************************************************************************)
OnlyLeaksDeadlock ==
    (\A t \in Threads : pc[t] = "waiting") => Cardinality(leaked) = MaxConner

(***************************************************************************)
(* A blocked thread is released again, unless a failed ReInitConner gave   *)
(* up a slot without SetEvent (DBPool.cpp:300-305) or every connection was *)
(* leaked by doExcelLoad.                                                  *)
(***************************************************************************)
BlockedIsReleased ==
    \A t \in Threads :
        pc[t] = "waiting" ~> \/ pc[t] # "waiting"
                            \/ cur < MaxConner
                            \/ Cardinality(leaked) = MaxConner

(***************************************************************************)
(* The pool as a whole never wedges: when every worker thread is inside    *)
(* the pool, one of them gets out, unless every connection was leaked.     *)
(***************************************************************************)
NeverWedged ==
    (\A t \in Threads : pc[t] # "idle")
        ~> \/ \E t \in Threads : pc[t] = "idle"
           \/ Cardinality(leaked) = MaxConner

-----------------------------------------------------------------------------
\* Where each connection is, as BoundedPool sees it.
Place ==
    [c \in Conns |->
        CASE c \in Pooled -> "shelf"
          [] c \notin Pooled /\ c \in leaked -> "lost"
          [] c \notin Allocated -> "none"
          [] OTHER -> CHOOSE t \in Threads : pc[t] \in Holding /\ held[t] = c]

Abstract == INSTANCE BoundedPool WITH Limit <- MaxConner, place <- Place

(***************************************************************************)
(* AllocConner, FreeConner, AddNewConner and ReInitConner with their lock, *)
(* event and counter implement the bounded pool.                           *)
(***************************************************************************)
ImplementsBoundedPool == Abstract!PoolSpec
=============================================================================
