--------------------------- MODULE MysqlPoolProofs ---------------------------
(***************************************************************************)
(* Proofs about MysqlPool, for every set of threads and connections and    *)
(* every pool size.                                                        *)
(***************************************************************************)
EXTENDS MysqlPool, FiniteSetTheorems, SequenceTheorems, TLAPS

\* SetEvent releases every blocked thread, so a blocked thread sees no signal.
BlockedSeesReset == \A t \in Threads : pc[t] = "waiting" => ~event

(***************************************************************************)
(* When all threads are at the wait, the last to come found the counter at *)
(* its limit, and nobody is left to lower it.                              *)
(***************************************************************************)
AllAtWait ==
    (\A t \in Threads : pc[t] \in {"towait", "waiting"}) /\ ~event
        => cur = MaxConnection

\* IInv is inductive; the wait needs these two besides.
WaitInv == BlockedSeesReset /\ AllAtWait

\* What pop_back() does to a vector without duplicates.
LEMMA PopBack ==
    ASSUME NEW S, NEW q \in Seq(S), q # <<>>, IsInjective(q)
    PROVE  /\ Front(q) \in Seq(S)
           /\ Len(Front(q)) = Len(q) - 1
           /\ Last(q) \in S
           /\ Last(q) \in ToSet(q)
           /\ ToSet(Front(q)) = ToSet(q) \ {Last(q)}
           /\ IsInjective(Front(q))
<1> DEFINE n == Len(q)
<1>1. n \in Nat \ {0} /\ DOMAIN q = 1 .. n /\ \A i \in 1 .. n : q[i] \in S
  BY EmptySeq, LenProperties
<1>a. n \in Nat /\ n >= 1
  BY <1>1
<1>2. /\ Front(q) \in Seq(S)
      /\ Len(Front(q)) = n - 1
      /\ \A i \in 1 .. (n - 1) : Front(q)[i] = q[i]
  <2>1. \A i \in 1 .. (n - 1) : q[i] \in S
    BY <1>1
  <2> QED
    BY <1>1, <2>1, SubSeqProperties DEF Front
<1>3. DOMAIN Front(q) = 1 .. (n - 1)
  BY <1>1, <1>2, LenProperties
<1>4. Last(q) = q[n]
  BY DEF Last
<1>5. Last(q) \in S /\ Last(q) \in ToSet(q)
  BY <1>1, <1>4 DEF ToSet
<1>6. IsInjective(Front(q))
  BY <1>1, <1>2, <1>3 DEF IsInjective
<1>7. ToSet(Front(q)) = ToSet(q) \ {Last(q)}
  <2>1. ASSUME NEW x \in ToSet(Front(q)) PROVE x \in ToSet(q) \ {Last(q)}
    <3>1. PICK i \in 1 .. (n - 1) : x = q[i]
      BY <1>2, <1>3 DEF ToSet
    <3>2. i \in 1 .. n /\ n \in 1 .. n /\ i # n
      BY <1>a
    <3>3. q[i] # q[n]
      BY <3>2, <1>1 DEF IsInjective
    <3>4. q[i] \in ToSet(q)
      BY <3>2, <1>1 DEF ToSet
    <3> QED
      BY <3>1, <3>3, <3>4, <1>4
  <2>2. ASSUME NEW x \in ToSet(q) \ {Last(q)} PROVE x \in ToSet(Front(q))
    <3>1. PICK i \in 1 .. n : x = q[i]
      BY <1>1 DEF ToSet
    <3>2. i \in 1 .. (n - 1)
      BY <1>1, <1>4, <3>1, <2>2
    <3> QED
      BY <3>1, <3>2, <1>2, <1>3 DEF ToSet
  <2> QED
    BY <2>1, <2>2
<1> QED
  BY <1>2, <1>5, <1>6, <1>7

\* What push_back() of a new element does to a vector without duplicates.
LEMMA PushBack ==
    ASSUME NEW S, NEW q \in Seq(S), NEW x \in S, IsInjective(q), x \notin ToSet(q)
    PROVE  /\ Append(q, x) \in Seq(S)
           /\ ToSet(Append(q, x)) = ToSet(q) \cup {x}
           /\ IsInjective(Append(q, x))
           /\ Append(q, x) # <<>>
<1> DEFINE n == Len(q)
           r == Append(q, x)
<1>1. n \in Nat /\ DOMAIN q = 1 .. n
  BY LenProperties
<1>2. /\ r \in Seq(S)
      /\ Len(r) = n + 1
      /\ DOMAIN r = 1 .. (n + 1)
      /\ \A i \in 1 .. n : r[i] = q[i]
      /\ r[n + 1] = x
  BY <1>1
<1>3. ToSet(r) = ToSet(q) \cup {x}
  <2>1. ASSUME NEW y \in ToSet(r) PROVE y \in ToSet(q) \cup {x}
    <3>1. PICK i \in 1 .. (n + 1) : y = r[i]
      BY <1>2 DEF ToSet
    <3>2. i \in 1 .. n \/ i = n + 1
      BY <1>1
    <3> QED
      BY <3>1, <3>2, <1>1, <1>2 DEF ToSet
  <2>2. ASSUME NEW y \in ToSet(q) \cup {x} PROVE y \in ToSet(r)
    <3>1. (\E i \in 1 .. n : y = q[i]) \/ y = x
      BY <1>1 DEF ToSet
    <3>2. \A i \in 1 .. n : i \in 1 .. (n + 1)
      BY <1>1
    <3>3. n + 1 \in 1 .. (n + 1)
      BY <1>1
    <3> QED
      BY <3>1, <3>2, <3>3, <1>2 DEF ToSet
  <2> QED
    BY <2>1, <2>2
<1>4. IsInjective(r)
  <2> SUFFICES ASSUME NEW i \in 1 .. (n + 1), NEW j \in 1 .. (n + 1), r[i] = r[j]
               PROVE  i = j
    BY <1>2 DEF IsInjective
  <2>1. (i \in 1 .. n \/ i = n + 1) /\ (j \in 1 .. n \/ j = n + 1)
    BY <1>1
  <2>2. \A k \in 1 .. n : q[k] # x
    BY <1>1 DEF ToSet
  <2> QED
    BY <2>1, <2>2, <1>1, <1>2 DEF IsInjective
<1> QED
  BY <1>1, <1>2, <1>3, <1>4, EmptySeq

\* A vector without duplicates has as many elements as positions.
LEMMA InjectiveCount ==
    ASSUME NEW S, NEW n \in Nat, NEW q \in [1 .. n -> S], IsInjective(q)
    PROVE  /\ q \in Seq(S)
           /\ IsFiniteSet(ToSet(q))
           /\ Cardinality(ToSet(q)) = n
<1>1. q \in Seq(S)
  BY SeqDef
<1>2. q \in Surjection(1 .. n, ToSet(q))
  BY DEF Surjection, ToSet
<1>3. q \in Injection(1 .. n, ToSet(q))
  BY <1>2 DEF Injection, IsInjective, Surjection
<1>4. IsFiniteSet(1 .. n) /\ Cardinality(1 .. n) = n
  BY FS_Interval
<1> QED
  BY <1>1, <1>2, <1>3, <1>4, FS_Surjection

\* Allocated by membership.
LEMMA AllocatedMember ==
    \A c : c \in Allocated <=> \/ c \in Pooled
                               \/ \E t \in Threads : pc[t] \in Holding /\ held[t] = c
BY DEF Allocated

\* The same after a step.
LEMMA AllocatedMemberNext ==
    \A c : c \in Allocated' <=> \/ c \in Pooled'
                                \/ \E t \in Threads : pc'[t] \in Holding /\ held'[t] = c
BY DEF Allocated

\* The counted sets are finite.
LEMMA FiniteCounts ==
    ASSUME TypeOK
    PROVE  /\ Allocated \subseteq Conns
           /\ IsFiniteSet(Allocated) /\ Cardinality(Allocated) \in Nat
           /\ IsFiniteSet(Between) /\ Cardinality(Between) \in Nat
<1>1. Pooled \subseteq Conns
  BY LenProperties DEF TypeOK, Pooled, ToSet
<1>2. Allocated \subseteq Conns
  BY <1>1, AllocatedMember DEF TypeOK
<1>3. Between \subseteq Threads
  BY DEF Between
<1> QED
  BY <1>2, <1>3, MysqlAssumption, FS_Subset, FS_CardinalityType

\* Mysql_InitConnectionPool establishes the invariant.
LEMMA InitInv == Init => IInv /\ WaitInv
<1> SUFFICES ASSUME Init PROVE IInv /\ WaitInv
  OBVIOUS
<1>1. PICK n \in 1 .. MinConnection : pool \in [1 .. n -> Conns] /\ IsInjective(pool)
  BY DEF Init
<1>2. n \in Nat /\ n \in 0 .. MaxConnection
  BY MysqlAssumption
<1>3. /\ pool \in Seq(Conns)
      /\ Cardinality(Pooled) = n
      /\ Len(pool) = n
  <2>1. pool \in Seq(Conns) /\ Cardinality(Pooled) = n
    BY <1>1, <1>2, InjectiveCount DEF Pooled
  <2>2. Len(pool) \in Nat /\ DOMAIN pool = 1 .. Len(pool) /\ DOMAIN pool = 1 .. n
    BY <1>1, <2>1, LenProperties
  <2>3. n \in 1 .. Len(pool)
    BY <1>2, <2>2
  <2>4. Len(pool) \in 1 .. n
    <3>1. Len(pool) \in 1 .. Len(pool)
      BY <1>2, <2>2, <2>3
    <3> QED
      BY <2>2, <3>1
  <2>5. Len(pool) = n
    <3>1. Len(pool) \in Nat /\ n <= Len(pool) /\ Len(pool) <= n
      BY <1>2, <2>2, <2>3, <2>4
    <3> QED
      BY <1>2, <3>1
  <2> QED
    BY <2>1, <2>5
<1>4. Pooled \subseteq Conns
  BY <1>3, LenProperties DEF Pooled, ToSet
<1>5. Allocated = Pooled
  BY AllocatedMember DEF Init, Holding
<1>6. Between = {}
  BY DEF Init, Between
<1>7. TypeOK
  <2>1. /\ pc \in [Threads -> PCs]
        /\ held \in [Threads -> Conns \cup {NoConn}]
    BY DEF Init, PCs
  <2>2. \A t \in Threads : held[t] \in Conns <=> pc[t] \in Holding
    BY MysqlAssumption DEF Init, Holding
  <2>3. cur \in 0 .. MaxConnection /\ event \in BOOLEAN /\ alive \subseteq Conns
    BY <1>2, <1>3, <1>4 DEF Init, Pooled
  <2> QED
    BY <1>3, <2>1, <2>2, <2>3 DEF TypeOK
<1>8. Exclusive
  BY <1>1 DEF Init, Exclusive, Holding
<1>9. Accounting
  BY <1>2, <1>3, <1>5, <1>6, FS_EmptySet DEF Init, Accounting
<1>10. NoLostWakeup /\ WaitInv
  BY MysqlAssumption DEF Init, NoLostWakeup, WaitInv, BlockedSeesReset, AllAtWait
<1> QED
  BY <1>7, <1>8, <1>9, <1>10 DEF IInv

\* A step that moves no connection keeps the sets the counter is about.
LEMMA NothingMoved ==
    ASSUME TypeOK, Exclusive, Accounting,
           UNCHANGED <<pool, cur, held>>,
           \A u \in Threads : pc'[u] \in Holding <=> pc[u] \in Holding,
           \A u \in Threads : pc'[u] \in {"reconnect", "remove"}
                                <=> pc[u] \in {"reconnect", "remove"}
    PROVE  Exclusive' /\ Accounting'
<1>1. Pooled' = Pooled
  BY DEF Pooled
<1>2. Allocated' = Allocated
  BY DEF Allocated, Pooled
<1>3. Between' = Between
  BY DEF Between
<1>4. Exclusive'
  BY <1>1 DEF Exclusive
<1>5. Accounting'
  BY <1>2, <1>3 DEF Accounting
<1> QED
  BY <1>4, <1>5

(***************************************************************************)
(* The steps of a thread that move no connection: its requests, the failed *)
(* opens, the wait, the ping that is answered.                             *)
(***************************************************************************)
LEMMA QuietInv ==
    ASSUME IInv, NEW t \in Threads,
           \/ Request(t) \/ AllocNewFails(t) \/ AllocReset(t) \/ WaitForMysql(t)
           \/ PingOK(t) \/ ReconnectFails(t)
    PROVE  IInv'
<1> USE DEF IInv, GoTo, Request, AllocNewFails, AllocReset, WaitForMysql, PingOK,
            ReconnectFails
<1>1. TypeOK'
  BY DEF TypeOK, PCs, Holding
<1>2. Exclusive' /\ Accounting'
  BY NothingMoved DEF TypeOK, Holding
<1>3. NoLostWakeup'
  BY DEF TypeOK, NoLostWakeup
<1> QED
  BY <1>1, <1>2, <1>3

\* SetEvent leaves no thread blocked, and moves no connection.
LEMMA SetEventInv == ASSUME IInv, NEW t \in Threads, SetEvent(t) PROVE IInv'
<1> USE DEF IInv
<1>1. \A u \in Threads : pc'[u] = IF u = t THEN "idle"
                                  ELSE IF pc[u] = "waiting" THEN "alloc" ELSE pc[u]
  BY DEF SetEvent
<1>2. TypeOK'
  BY DEF SetEvent, TypeOK, PCs, Holding
<1>3. Exclusive' /\ Accounting'
  BY <1>1, NothingMoved DEF SetEvent, TypeOK, Holding
<1>4. NoLostWakeup'
  BY <1>1 DEF SetEvent, NoLostWakeup
<1> QED
  BY <1>2, <1>3, <1>4

\* A closed connection still counts and keeps its owner.
LEMMA ServerDropsInv == ASSUME IInv, NEW c \in Conns, ServerDrops(c) PROVE IInv'
<1> USE DEF IInv
<1>1. TypeOK'
  BY DEF ServerDrops, TypeOK
<1>2. Exclusive' /\ Accounting'
  BY NothingMoved DEF ServerDrops
<1>3. NoLostWakeup'
  BY DEF ServerDrops, NoLostWakeup
<1> QED
  BY <1>1, <1>2, <1>3

\* back() and pop_back() move one connection from the pool to the thread.
LEMMA AllocPopInv == ASSUME IInv, NEW t \in Threads, AllocPop(t) PROVE IInv'
<1> USE DEF IInv, GoTo
<1> DEFINE c == Last(pool)
<1>1. /\ pool' \in Seq(Conns)
      /\ c \in Conns /\ c \in Pooled
      /\ Pooled' = Pooled \ {c}
      /\ IsInjective(pool')
  BY PopBack DEF AllocPop, TypeOK, Exclusive, Pooled
<1>2. /\ \A u \in Threads : u # t => pc'[u] = pc[u] /\ held'[u] = held[u]
      /\ pc'[t] = "ping" /\ held'[t] = c /\ pc[t] = "alloc"
      /\ pc' \in [Threads -> PCs]
  BY DEF AllocPop, TypeOK, PCs
<1>3. TypeOK'
  BY <1>1, <1>2 DEF AllocPop, TypeOK, Holding
<1>4. Exclusive'
  BY <1>1, <1>2 DEF AllocPop, Exclusive, Holding
<1>5. Allocated' = Allocated
  <2>1. \A x : x \in Allocated' <=> x \in Allocated
    BY <1>1, <1>2, AllocatedMember, AllocatedMemberNext DEF Holding
  <2> QED
    BY <2>1
<1>6. Between' = Between
  BY <1>2 DEF Between
<1>7. Accounting'
  BY <1>5, <1>6 DEF AllocPop, Accounting
<1>8. NoLostWakeup'
  BY <1>1, <1>2 DEF AllocPop, NoLostWakeup
<1> QED
  BY <1>3, <1>4, <1>7, <1>8

\* A new connection is counted, and is nobody else's.
LEMMA AllocNewInv == ASSUME IInv, NEW t \in Threads, AllocNew(t) PROVE IInv'
<1> USE DEF IInv, GoTo
<1>0. PICK c \in Conns \ Allocated : held' = [held EXCEPT ![t] = c] /\ alive' = alive \cup {c}
  BY DEF AllocNew
<1>1. pool' = pool /\ Pooled' = Pooled
  BY DEF AllocNew, Pooled
<1>2. /\ \A u \in Threads : u # t => pc'[u] = pc[u] /\ held'[u] = held[u]
      /\ pc'[t] = "ping" /\ held'[t] = c /\ pc[t] = "alloc"
      /\ pc' \in [Threads -> PCs]
  BY <1>0 DEF AllocNew, TypeOK, PCs
<1>3. TypeOK'
  <2>1. cur' \in 0 .. MaxConnection
    BY MysqlAssumption DEF AllocNew, TypeOK
  <2> QED
    BY <1>0, <1>1, <1>2, <2>1 DEF AllocNew, TypeOK, Holding
<1>4. Exclusive'
  BY <1>0, <1>1, <1>2, AllocatedMember DEF Exclusive, Holding
<1>5. Allocated' = Allocated \cup {c}
  <2>1. \A x : x \in Allocated' <=> x \in Allocated \/ x = c
    BY <1>1, <1>2, AllocatedMember, AllocatedMemberNext DEF Holding
  <2> QED
    BY <2>1
<1>6. Between' = Between
  BY <1>2 DEF Between
<1>7. Accounting'
  <2>1. Cardinality(Allocated') = Cardinality(Allocated) + 1
    BY <1>0, <1>5, FiniteCounts, FS_AddElement
  <2> QED
    BY <1>6, <2>1, FiniteCounts DEF AllocNew, Accounting
<1>8. NoLostWakeup'
  BY <1>2 DEF AllocNew, NoLostWakeup
<1> QED
  BY <1>3, <1>4, <1>7, <1>8

\* A closed connection leaves its thread counted in its stead.
LEMMA PingFailsInv == ASSUME IInv, NEW t \in Threads, PingFails(t) PROVE IInv'
<1> USE DEF IInv, GoTo
<1> DEFINE c == held[t]
<1>1. pool' = pool /\ Pooled' = Pooled
  BY DEF PingFails, Pooled
<1>2. /\ \A u \in Threads : u # t => pc'[u] = pc[u] /\ held'[u] = held[u]
      /\ pc'[t] = "reconnect" /\ held'[t] = NoConn /\ pc[t] = "ping"
      /\ pc' \in [Threads -> PCs]
  BY DEF PingFails, TypeOK, PCs
<1>3. TypeOK'
  BY <1>1, <1>2, MysqlAssumption DEF PingFails, TypeOK, Holding
<1>4. Exclusive'
  BY <1>1, <1>2 DEF Exclusive, Holding
<1>5. Allocated' = Allocated \ {c} /\ c \in Allocated
  <2>1. \A x : x \in Allocated' <=> x \in Allocated /\ x # c
    BY <1>1, <1>2, AllocatedMember, AllocatedMemberNext DEF Exclusive, Holding
  <2>2. c \in Allocated
    BY <1>2, AllocatedMember DEF Holding
  <2> QED
    BY <2>1, <2>2
<1>6. Between' = Between \cup {t} /\ t \notin Between
  BY <1>2 DEF Between
<1>7. Accounting'
  <2>1. Cardinality(Allocated') = Cardinality(Allocated) - 1
    BY <1>5, FiniteCounts, FS_RemoveElement
  <2>2. Cardinality(Between') = Cardinality(Between) + 1
    BY <1>6, FiniteCounts, FS_AddElement
  <2> QED
    BY <2>1, <2>2, FiniteCounts DEF PingFails, Accounting
<1>8. NoLostWakeup'
  BY <1>2 DEF PingFails, NoLostWakeup
<1> QED
  BY <1>3, <1>4, <1>7, <1>8

\* Mysql_ConnectDB outside csMysql takes the place counted for its thread.
LEMMA ReconnectInv == ASSUME IInv, NEW t \in Threads, Reconnect(t) PROVE IInv'
<1> USE DEF IInv, GoTo
<1>0. PICK c \in Conns \ Allocated : held' = [held EXCEPT ![t] = c] /\ alive' = alive \cup {c}
  BY DEF Reconnect
<1>1. pool' = pool /\ Pooled' = Pooled
  BY DEF Reconnect, Pooled
<1>2. /\ \A u \in Threads : u # t => pc'[u] = pc[u] /\ held'[u] = held[u]
      /\ pc'[t] = "use" /\ held'[t] = c /\ pc[t] = "reconnect"
      /\ pc' \in [Threads -> PCs]
  BY <1>0 DEF Reconnect, TypeOK, PCs
<1>3. TypeOK'
  BY <1>0, <1>1, <1>2 DEF Reconnect, TypeOK, Holding
<1>4. Exclusive'
  BY <1>0, <1>1, <1>2, AllocatedMember DEF Exclusive, Holding
<1>5. Allocated' = Allocated \cup {c}
  <2>1. \A x : x \in Allocated' <=> x \in Allocated \/ x = c
    BY <1>1, <1>2, AllocatedMember, AllocatedMemberNext DEF Holding
  <2> QED
    BY <2>1
<1>6. Between' = Between \ {t} /\ t \in Between
  BY <1>2 DEF Between
<1>7. Accounting'
  <2>1. Cardinality(Allocated') = Cardinality(Allocated) + 1
    BY <1>0, <1>5, FiniteCounts, FS_AddElement
  <2>2. Cardinality(Between') = Cardinality(Between) - 1
    BY <1>6, FiniteCounts, FS_RemoveElement
  <2> QED
    BY <2>1, <2>2, FiniteCounts DEF Reconnect, Accounting
<1>8. NoLostWakeup'
  BY <1>2 DEF Reconnect, NoLostWakeup
<1> QED
  BY <1>3, <1>4, <1>7, <1>8

\* The decrement pays for the connection that could not be replaced.
LEMMA RemoveFromPoolInv == ASSUME IInv, NEW t \in Threads, RemoveFromPool(t) PROVE IInv'
<1> USE DEF IInv, GoTo
<1>1. pool' = pool /\ Pooled' = Pooled /\ held' = held
  BY DEF RemoveFromPool, Pooled
<1>2. /\ \A u \in Threads : u # t => pc'[u] = pc[u]
      /\ pc'[t] = "idle" /\ pc[t] = "remove"
      /\ pc' \in [Threads -> PCs]
  BY DEF RemoveFromPool, TypeOK, PCs
<1>3. Between' = Between \ {t} /\ t \in Between
  BY <1>2 DEF Between
<1>4. /\ Cardinality(Between') = Cardinality(Between) - 1
      /\ Cardinality(Between') \in Nat
  BY <1>3, FiniteCounts, FS_RemoveElement, FS_CardinalityType
<1>5. cur' = cur - 1 /\ cur > 0
  BY <1>4, FiniteCounts DEF RemoveFromPool, Accounting
<1>6. TypeOK'
  <2>1. cur' \in 0 .. MaxConnection
    BY <1>5, MysqlAssumption DEF TypeOK
  <2> QED
    BY <1>1, <1>2, <2>1 DEF RemoveFromPool, TypeOK, Holding
<1>7. Exclusive'
  BY <1>1, <1>2 DEF Exclusive, Holding
<1>8. Allocated' = Allocated
  <2>1. \A x : x \in Allocated' <=> x \in Allocated
    BY <1>1, <1>2, AllocatedMember, AllocatedMemberNext DEF Holding
  <2> QED
    BY <2>1
<1>9. Accounting'
  BY <1>4, <1>5, <1>8, FiniteCounts DEF Accounting
<1>10. NoLostWakeup'
  BY <1>2 DEF RemoveFromPool, NoLostWakeup
<1> QED
  BY <1>6, <1>7, <1>9, <1>10

\* push_back() moves the connection to the pool, with a SetEvent to come.
LEMMA BackToPoolInv == ASSUME IInv, NEW t \in Threads, BackToPool(t) PROVE IInv'
<1> USE DEF IInv, GoTo
<1> DEFINE c == held[t]
<1>1. c \in Conns /\ c \notin Pooled
  BY DEF BackToPool, TypeOK, Exclusive, Holding
<1>2. /\ pool' \in Seq(Conns)
      /\ Pooled' = Pooled \cup {c}
      /\ IsInjective(pool')
  BY <1>1, PushBack DEF BackToPool, TypeOK, Exclusive, Pooled
<1>3. /\ \A u \in Threads : u # t => pc'[u] = pc[u] /\ held'[u] = held[u]
      /\ pc'[t] = "signal" /\ held'[t] = NoConn /\ pc[t] = "use"
      /\ pc' \in [Threads -> PCs]
  BY DEF BackToPool, TypeOK, PCs
<1>4. TypeOK'
  BY <1>2, <1>3, MysqlAssumption DEF BackToPool, TypeOK, Holding
<1>5. Exclusive'
  BY <1>1, <1>2, <1>3 DEF BackToPool, Exclusive, Holding
<1>6. Allocated' = Allocated
  <2>1. \A x : x \in Allocated' <=> x \in Allocated
    BY <1>2, <1>3, AllocatedMember, AllocatedMemberNext DEF Holding
  <2> QED
    BY <2>1
<1>7. Between' = Between
  BY <1>3 DEF Between
<1>8. Accounting'
  BY <1>6, <1>7 DEF BackToPool, Accounting
<1>9. NoLostWakeup'
  BY <1>3 DEF BackToPool, NoLostWakeup
<1> QED
  BY <1>4, <1>5, <1>8, <1>9

\* Every step of the pool, and a stuttering step, preserves the invariant.
LEMMA NextInv == IInv /\ [Next]_vars => IInv'
<1> SUFFICES ASSUME IInv, [Next]_vars PROVE IInv'
  OBVIOUS
<1>1. ASSUME NEW t \in Threads, Request(t) \/ Step(t) PROVE IInv'
  BY <1>1, QuietInv, AllocPopInv, AllocNewInv, PingFailsInv, ReconnectInv,
     RemoveFromPoolInv, BackToPoolInv, SetEventInv DEF Step
<1>2. ASSUME NEW c \in Conns, ServerDrops(c) PROVE IInv'
  BY <1>2, ServerDropsInv
<1>3. ASSUME UNCHANGED vars PROVE IInv'
  <2>1. Exclusive' /\ Accounting'
    BY <1>3, NothingMoved DEF vars, IInv
  <2>2. TypeOK' /\ NoLostWakeup'
    BY <1>3 DEF vars, IInv, TypeOK, NoLostWakeup
  <2> QED
    BY <2>1, <2>2 DEF IInv
<1> QED
  BY <1>1, <1>2, <1>3 DEF Next

(***************************************************************************)
(* Whatever the interleaving: no two threads share a MYSQL, the counter is *)
(* right even while a dead connection is being replaced outside csMysql,   *)
(* and no SetEvent is lost between ResetEvent and the wait.                *)
(***************************************************************************)
THEOREM Invariance == Spec => []IInv
<1> QED
  BY InitInv, NextInv, PTL DEF Spec

\* What is needed of the wait is kept by every step.
LEMMA NextWaitInv == IInv /\ WaitInv /\ [Next]_vars => WaitInv'
<1> SUFFICES ASSUME IInv, WaitInv, [Next]_vars PROVE WaitInv'
  OBVIOUS
<1> USE DEF IInv, WaitInv, BlockedSeesReset, AllAtWait, GoTo
<1>1. ASSUME NEW t \in Threads, AllocReset(t) PROVE WaitInv'
  <2>1. cur = MaxConnection /\ cur' = cur /\ event' = FALSE
    BY <1>1, MysqlAssumption DEF AllocReset, TypeOK
  <2> QED
    BY <1>1, <2>1
<1>2. ASSUME NEW t \in Threads, WaitForMysql(t) PROVE WaitInv'
  BY <1>2 DEF WaitForMysql, TypeOK
<1>3. ASSUME NEW t \in Threads, SetEvent(t) PROVE WaitInv'
  <2>1. \A u \in Threads : pc'[u] # "waiting"
    BY <1>3 DEF SetEvent
  <2> QED
    BY <1>3, <2>1 DEF SetEvent
<1>4. ASSUME NEW t \in Threads, pc' \in [Threads -> PCs], event' = event,
             pc'[t] \notin {"towait", "waiting"},
             \A u \in Threads : u # t => pc'[u] = pc[u]
      PROVE  WaitInv'
  BY <1>4
<1>5. ASSUME NEW t \in Threads,
             \/ Request(t) \/ AllocPop(t) \/ AllocNew(t) \/ AllocNewFails(t)
             \/ PingOK(t) \/ PingFails(t) \/ Reconnect(t) \/ ReconnectFails(t)
             \/ RemoveFromPool(t) \/ BackToPool(t)
      PROVE  WaitInv'
  BY <1>4, <1>5
     DEF Request, AllocPop, AllocNew, AllocNewFails, PingOK, PingFails, Reconnect,
         ReconnectFails, RemoveFromPool, BackToPool, TypeOK, PCs
<1>6. ASSUME NEW c \in Conns, ServerDrops(c) PROVE WaitInv'
  BY <1>6 DEF ServerDrops
<1>7. ASSUME UNCHANGED vars PROVE WaitInv'
  BY <1>7 DEF vars
<1> QED
  BY <1>1, <1>2, <1>3, <1>5, <1>6, <1>7 DEF Next, Step

(***************************************************************************)
(* The pool cannot put its last thread to sleep: with all threads asleep   *)
(* none holds or replaces a connection and none lies in the pool, yet the  *)
(* counter would be at g_nMaxConnection.                                   *)
(***************************************************************************)
THEOREM SomebodyAwake == Spec => []NeverAllAsleep
<1>1. IInv /\ WaitInv => NeverAllAsleep
  <2> SUFFICES ASSUME IInv, WaitInv, \A t \in Threads : pc[t] = "waiting"
               PROVE  FALSE
    BY DEF NeverAllAsleep
  <2>1. ~event /\ cur = MaxConnection
    BY MysqlAssumption DEF WaitInv, BlockedSeesReset, AllAtWait
  <2>2. pool = <<>>
    BY <2>1, MysqlAssumption DEF IInv, NoLostWakeup
  <2>3. Allocated = {}
    BY <2>2, AllocatedMember, EmptySeq DEF Pooled, ToSet, Holding
  <2>4. Between = {}
    BY DEF Between
  <2>5. cur = 0
    BY <2>3, <2>4, FS_EmptySet DEF IInv, Accounting
  <2> QED
    BY <2>1, <2>5, MysqlAssumption
<1> QED
  BY <1>1, InitInv, NextInv, NextWaitInv, PTL DEF Spec

-----------------------------------------------------------------------------
\* What the refinement mapping says of a connection.
PlaceSound ==
    /\ Place \in [Conns -> {"none", "shelf"} \cup Threads]
    /\ \A c \in Conns : Place[c] = "shelf" <=> c \in Pooled
    /\ \A c \in Conns : Place[c] = "none" <=> c \notin Allocated
    /\ \A c \in Conns : \A t \in Threads :
         Place[c] = t <=> pc[t] \in Holding /\ held[t] = c

\* Under the invariant the mapping is exact: one place for each connection.
LEMMA PlaceIsSound == IInv => PlaceSound
<1> SUFFICES ASSUME IInv PROVE PlaceSound
  OBVIOUS
<1> DEFINE Holder(c) == CHOOSE t \in Threads : pc[t] \in Holding /\ held[t] = c
<1>1. Place = [c \in Conns |-> Place[c]]
  BY DEF Place
<1>2. \A c \in Conns : c \in Pooled => Place[c] = "shelf" /\ c \in Allocated
  BY AllocatedMember DEF Place
<1>3. \A c \in Conns : c \notin Allocated => Place[c] = "none" /\ c \notin Pooled
  BY AllocatedMember DEF Place
<1>4. ASSUME NEW c \in Conns, NEW t \in Threads, pc[t] \in Holding, held[t] = c
      PROVE  Place[c] = t /\ c \in Allocated /\ c \notin Pooled
  <2>1. c \in Allocated /\ c \notin Pooled
    BY <1>4, AllocatedMember DEF IInv, Exclusive
  <2>2. Place[c] = Holder(c)
    BY <2>1 DEF Place
  <2>3. Holder(c) \in Threads /\ pc[Holder(c)] \in Holding /\ held[Holder(c)] = c
    BY <1>4
  <2>4. Holder(c) = t
    BY <1>4, <2>3 DEF IInv, Exclusive
  <2> QED
    BY <2>1, <2>2, <2>4
<1>5. \A t \in Threads : t # "none" /\ t # "shelf"
  BY PlacesAssumption
<1>6. \A c \in Conns : \/ c \in Pooled
                      \/ c \notin Allocated
                      \/ \E t \in Threads : pc[t] \in Holding /\ held[t] = c
  BY AllocatedMember
<1>7. \A c \in Conns : Place[c] \in {"none", "shelf"} \cup Threads
  BY <1>2, <1>3, <1>4, <1>6
<1>8. Place \in [Conns -> {"none", "shelf"} \cup Threads]
  BY <1>1, <1>7
<1>9. \A c \in Conns : Place[c] = "shelf" <=> c \in Pooled
  BY <1>2, <1>3, <1>4, <1>5, <1>6
<1>10. \A c \in Conns : Place[c] = "none" <=> c \notin Allocated
  BY <1>2, <1>3, <1>4, <1>5, <1>6
<1>11. \A c \in Conns : \A t \in Threads :
         Place[c] = t <=> pc[t] \in Holding /\ held[t] = c
  BY <1>2, <1>3, <1>4, <1>5, <1>6
<1> QED
  BY <1>8, <1>9, <1>10, <1>11 DEF PlaceSound

\* The same for the state after a step.
LEMMA PlaceIsSoundNext == IInv' => PlaceSound'
BY PlaceIsSound, PTL

\* Cardinality is the same operator in the instantiated module.
LEMMA SameCardinality == \A S : Abstract!Cardinality(S) = Cardinality(S)
BY DEF Abstract!Cardinality, Cardinality

\* The connections the bounded pool says exist are the allocated ones.
LEMMA ExistingIsAllocated ==
    ASSUME IInv
    PROVE  /\ Abstract!Existing = Allocated
           /\ Cardinality(Allocated) <= MaxConnection
<1>1. PlaceSound
  BY PlaceIsSound
<1>2. Abstract!Existing = Allocated
  BY <1>1, FiniteCounts DEF PlaceSound, Abstract!Existing, IInv
<1>3. Cardinality(Allocated) <= MaxConnection
  BY MysqlAssumption, FiniteCounts DEF IInv, TypeOK, Accounting
<1> QED
  BY <1>2, <1>3

\* A connection that nobody touches in a step stays in its place.
LEMMA SamePlace ==
    ASSUME PlaceSound, PlaceSound', NEW d \in Conns,
           d \in Pooled' <=> d \in Pooled,
           \A t \in Threads : pc'[t] \in Holding /\ held'[t] = d
                               <=> pc[t] \in Holding /\ held[t] = d
    PROVE  Place'[d] = Place[d]
<1>1. d \in Allocated' <=> d \in Allocated
  BY DEF Allocated
<1>2. Place[d] \in {"none", "shelf"} \cup Threads
  BY DEF PlaceSound
<1>3. CASE Place[d] \in {"none", "shelf"}
  BY <1>1, <1>3 DEF PlaceSound
<1>4. CASE Place[d] \in Threads
  BY <1>4 DEF PlaceSound
<1> QED
  BY <1>2, <1>3, <1>4

\* A step that moves one connection only.
LEMMA OneMoves ==
    ASSUME PlaceSound, PlaceSound', NEW c \in Conns, NEW p, Place'[c] = p,
           \A d \in Conns : d # c => Place'[d] = Place[d]
    PROVE  Place' = [Place EXCEPT ![c] = p]
BY DEF PlaceSound

\* A step that leaves vctMysql and the holders alone moves none.
LEMMA NoneMoves ==
    ASSUME PlaceSound, PlaceSound', pool' = pool, held' = held,
           \A u \in Threads : pc'[u] \in Holding <=> pc[u] \in Holding
    PROVE  Place' = Place
<1>1. Pooled' = Pooled
  BY DEF Pooled
<1>2. \A d \in Conns : Place'[d] = Place[d]
  BY <1>1, SamePlace
<1> QED
  BY <1>2 DEF PlaceSound

\* A thread's own step is a step of the bounded pool or leaves it alone.
LEMMA StepRefines ==
    ASSUME IInv, IInv', NEW t \in Threads, Step(t)
    PROVE  Abstract!PoolNext \/ Place' = Place
<1> USE PlaceIsSound, PlaceIsSoundNext DEF GoTo
<1>1. CASE AllocPop(t)
  <2> DEFINE c == Last(pool)
  <2>1. c \in Conns /\ c \in Pooled /\ Pooled' = Pooled \ {c}
    BY <1>1, PopBack DEF AllocPop, IInv, TypeOK, Exclusive, Pooled
  <2>2. /\ \A u \in Threads : u # t => pc'[u] = pc[u] /\ held'[u] = held[u]
        /\ pc'[t] = "ping" /\ held'[t] = c /\ pc[t] = "alloc"
    BY <1>1 DEF AllocPop, IInv, TypeOK
  <2>3. \A d \in Conns : d # c => Place'[d] = Place[d]
    BY <2>1, <2>2, SamePlace DEF Holding
  <2>4. Place[c] = "shelf" /\ Place'[c] = t
    BY <2>1, <2>2 DEF PlaceSound, Holding
  <2>5. Abstract!Take(t, c)
    BY <2>1, <2>3, <2>4, OneMoves DEF Abstract!Take
  <2> QED
    BY <2>1, <2>5 DEF Abstract!PoolNext
<1>2. CASE AllocNew(t) \/ Reconnect(t)
  <2>1. PICK c \in Conns \ Allocated : held' = [held EXCEPT ![t] = c]
    BY <1>2 DEF AllocNew, Reconnect
  <2>2. /\ \A u \in Threads : u # t => pc'[u] = pc[u] /\ held'[u] = held[u]
        /\ pc'[t] \in {"ping", "use"} /\ held'[t] = c
        /\ pc[t] \in {"alloc", "reconnect"}
        /\ Pooled' = Pooled
    BY <1>2, <2>1 DEF AllocNew, Reconnect, IInv, TypeOK, Pooled
  <2>3. \A d \in Conns : d # c => Place'[d] = Place[d]
    BY <2>1, <2>2, SamePlace DEF Holding
  <2>4. Place[c] = "none" /\ Place'[c] = t
    BY <2>1, <2>2 DEF PlaceSound, Holding
  <2>5. Cardinality(Allocated) < MaxConnection
    <3>1. CASE AllocNew(t)
      BY <3>1, FiniteCounts, MysqlAssumption DEF AllocNew, IInv, TypeOK, Accounting
    <3>2. CASE Reconnect(t)
      <4>1. t \in Between
        BY <3>2 DEF Reconnect, Between
      <4>2. Cardinality(Between) # 0
        BY <4>1, FiniteCounts, FS_EmptySet DEF IInv
      <4> QED
        BY <4>2, FiniteCounts, MysqlAssumption DEF IInv, TypeOK, Accounting
    <3> QED
      BY <1>2, <3>1, <3>2
  <2>6. Abstract!Open(t, c)
    BY <2>1, <2>3, <2>4, <2>5, OneMoves, ExistingIsAllocated, SameCardinality
       DEF Abstract!Open
  <2> QED
    BY <2>1, <2>6 DEF Abstract!PoolNext
<1>3. CASE PingFails(t)
  <2> DEFINE c == held[t]
  <2>1. c \in Conns
    BY <1>3 DEF PingFails, IInv, TypeOK, Holding
  <2>2. /\ \A u \in Threads : u # t => pc'[u] = pc[u] /\ held'[u] = held[u]
        /\ pc'[t] = "reconnect" /\ pc[t] = "ping"
        /\ Pooled' = Pooled
    BY <1>3 DEF PingFails, IInv, TypeOK, Pooled
  <2>3. \A d \in Conns : d # c => Place'[d] = Place[d]
    BY <2>1, <2>2, SamePlace DEF Holding
  <2>4. Place[c] = t
    BY <2>1, <2>2 DEF PlaceSound, Holding
  <2>5. c \notin Allocated'
    BY <2>1, <2>2 DEF Allocated, IInv, Exclusive, Holding
  <2>6. Abstract!Discard(t, c)
    BY <2>1, <2>3, <2>4, <2>5, OneMoves DEF Abstract!Discard, PlaceSound
  <2> QED
    BY <2>1, <2>6 DEF Abstract!PoolNext
<1>4. CASE BackToPool(t)
  <2> DEFINE c == held[t]
  <2>1. c \in Conns /\ c \notin Pooled
    BY <1>4 DEF BackToPool, IInv, TypeOK, Exclusive, Holding
  <2>2. Pooled' = Pooled \cup {c}
    BY <1>4, <2>1, PushBack DEF BackToPool, IInv, TypeOK, Exclusive, Pooled
  <2>3. /\ \A u \in Threads : u # t => pc'[u] = pc[u] /\ held'[u] = held[u]
        /\ pc'[t] = "signal" /\ pc[t] = "use"
    BY <1>4 DEF BackToPool, IInv, TypeOK
  <2>4. \A d \in Conns : d # c => Place'[d] = Place[d]
    BY <2>1, <2>2, <2>3, SamePlace DEF Holding
  <2>5. Place[c] = t /\ Place'[c] = "shelf"
    BY <2>1, <2>2, <2>3 DEF PlaceSound, Holding
  <2>6. Abstract!GiveBack(t, c)
    BY <2>1, <2>4, <2>5, OneMoves DEF Abstract!GiveBack
  <2> QED
    BY <2>1, <2>6 DEF Abstract!PoolNext
<1>5. CASE \/ AllocNewFails(t) \/ AllocReset(t) \/ WaitForMysql(t) \/ PingOK(t)
           \/ ReconnectFails(t) \/ RemoveFromPool(t) \/ SetEvent(t)
  <2>1. pool' = pool /\ held' = held
    BY <1>5 DEF AllocNewFails, AllocReset, WaitForMysql, PingOK, ReconnectFails,
                RemoveFromPool, SetEvent
  <2>2. \A u \in Threads : pc'[u] \in Holding <=> pc[u] \in Holding
    BY <1>5 DEF AllocNewFails, AllocReset, WaitForMysql, PingOK, ReconnectFails,
                RemoveFromPool, SetEvent, Holding, IInv, TypeOK
  <2> QED
    BY <2>1, <2>2, NoneMoves
<1> QED
  BY <1>1, <1>2, <1>3, <1>4, <1>5 DEF Step

(***************************************************************************)
(* Mysql_AllocConnection and Mysql_BackToPool implement BoundedPool: also  *)
(* with replacements made outside csMysql, callers see at most             *)
(* g_nMaxConnection connections, each of them in one place.                *)
(***************************************************************************)
THEOREM Refinement == Spec => ImplementsBoundedPool
<1>1. Init => Abstract!PoolInit
  <2> SUFFICES ASSUME Init PROVE Abstract!PoolInit
    OBVIOUS
  <2>1. IInv /\ PlaceSound
    BY InitInv, PlaceIsSound
  <2>2. Allocated = Pooled
    BY AllocatedMember DEF Init, Holding
  <2>3. \A c \in Conns : Place[c] \in {"none", "shelf"}
    BY <2>1, <2>2 DEF PlaceSound
  <2>4. Place \in [Conns -> {"none", "shelf"}]
    BY <2>1, <2>3 DEF PlaceSound
  <2> QED
    BY <2>1, <2>4, ExistingIsAllocated, SameCardinality DEF Abstract!PoolInit
<1>2. IInv /\ IInv' /\ [Next]_vars => [Abstract!PoolNext]_Place
  <2> SUFFICES ASSUME IInv, IInv', [Next]_vars PROVE Abstract!PoolNext \/ Place' = Place
    OBVIOUS
  <2> USE PlaceIsSound, PlaceIsSoundNext
  <2>1. ASSUME NEW t \in Threads, Request(t) PROVE Place' = Place
    BY <2>1, NoneMoves DEF Request, GoTo, Holding, IInv, TypeOK
  <2>2. ASSUME NEW c \in Conns, ServerDrops(c) PROVE Place' = Place
    BY <2>2, NoneMoves DEF ServerDrops
  <2>3. ASSUME UNCHANGED vars PROVE Place' = Place
    BY <2>3, NoneMoves DEF vars
  <2> QED
    BY <2>1, <2>2, <2>3, StepRefines DEF Next
<1> QED
  BY <1>1, <1>2, Invariance, PTL DEF Spec, ImplementsBoundedPool, Abstract!PoolSpec
=============================================================================
