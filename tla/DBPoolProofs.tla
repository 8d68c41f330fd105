---------------------------- MODULE DBPoolProofs ----------------------------
(***************************************************************************)
(* Proofs about DBPool, for every set of threads and connections and every *)
(* pool size.                                                              *)
(***************************************************************************)
EXTENDS DBPool, FiniteSetTheorems, SequenceTheorems, TLAPS

\* SetEvent releases every blocked thread, so a blocked thread sees no signal.
BlockedSeesReset == \A t \in Threads : pc[t] = "waiting" => ~event

(***************************************************************************)
(* The last thread to join the others at the wait found the counter at its *)
(* limit, and nobody is left to lower it.                                  *)
(***************************************************************************)
AllAtWait ==
    (\A t \in Threads : pc[t] \in {"towait", "waiting"}) /\ ~event => cur = MaxConner

\* The inductive invariant.
IInv ==
    /\ TypeOK
    /\ Exclusive
    /\ Accounting
    /\ NoLostWakeup
    /\ BlockedSeesReset
    /\ AllAtWait

\* What pop_back() does to a vector without duplicates.
LEMMA PopBack ==
    ASSUME NEW S, NEW q \in Seq(S), q # <<>>, IsInjective(q)
    PROVE  /\ Front(q) \in Seq(S)
           /\ Len(Front(q)) = Len(q) - 1
           /\ Last(q) \in S
           /\ Last(q) \in ToSet(q)
           /\ ToSet(Front(q)) = ToSet(q) \ {Last(q)}
           /\ IsInjective(Front(q))
<1> DEFINE n == Len(q)
<1>1. n \in Nat \ {0} /\ DOMAIN q = 1 .. n /\ \A i \in 1 .. n : q[i] \in S
  BY EmptySeq, LenProperties
<1>a. n \in Nat /\ n >= 1
  BY <1>1
<1>2. /\ Front(q) \in Seq(S)
      /\ Len(Front(q)) = n - 1
      /\ \A i \in 1 .. (n - 1) : Front(q)[i] = q[i]
  <2>1. \A i \in 1 .. (n - 1) : q[i] \in S
    BY <1>1
  <2> QED
    BY <1>1, <2>1, SubSeqProperties DEF Front
<1>3. DOMAIN Front(q) = 1 .. (n - 1)
  BY <1>1, <1>2, LenProperties
<1>4. Last(q) = q[n]
  BY DEF Last
<1>5. Last(q) \in S /\ Last(q) \in ToSet(q)
  BY <1>1, <1>4 DEF ToSet
<1>6. IsInjective(Front(q))
  BY <1>1, <1>2, <1>3 DEF IsInjective
<1>7. ToSet(Front(q)) = ToSet(q) \ {Last(q)}
  <2>1. ASSUME NEW x \in ToSet(Front(q)) PROVE x \in ToSet(q) \ {Last(q)}
    <3>1. PICK i \in 1 .. (n - 1) : x = q[i]
      BY <1>2, <1>3 DEF ToSet
    <3>2. i \in 1 .. n /\ n \in 1 .. n /\ i # n
      BY <1>a
    <3>3. q[i] # q[n]
      BY <3>2, <1>1 DEF IsInjective
    <3>4. q[i] \in ToSet(q)
      BY <3>2, <1>1 DEF ToSet
    <3> QED
      BY <3>1, <3>3, <3>4, <1>4
  <2>2. ASSUME NEW x \in ToSet(q) \ {Last(q)} PROVE x \in ToSet(Front(q))
    <3>1. PICK i \in 1 .. n : x = q[i]
      BY <1>1 DEF ToSet
    <3>2. i \in 1 .. (n - 1)
      BY <1>1, <1>4, <3>1, <2>2
    <3> QED
      BY <3>1, <3>2, <1>2, <1>3 DEF ToSet
  <2> QED
    BY <2>1, <2>2
<1> QED
  BY <1>2, <1>5, <1>6, <1>7

\* What push_back() of a new element does to a vector without duplicates.
LEMMA PushBack ==
    ASSUME NEW S, NEW q \in Seq(S), NEW x \in S, IsInjective(q), x \notin ToSet(q)
    PROVE  /\ Append(q, x) \in Seq(S)
           /\ ToSet(Append(q, x)) = ToSet(q) \cup {x}
           /\ IsInjective(Append(q, x))
           /\ Append(q, x) # <<>>
<1> DEFINE n == Len(q)
           r == Append(q, x)
<1>1. n \in Nat /\ DOMAIN q = 1 .. n
  BY LenProperties
<1>2. /\ r \in Seq(S)
      /\ Len(r) = n + 1
      /\ DOMAIN r = 1 .. (n + 1)
      /\ \A i \in 1 .. n : r[i] = q[i]
      /\ r[n + 1] = x
  BY <1>1
<1>3. ToSet(r) = ToSet(q) \cup {x}
  <2>1. ASSUME NEW y \in ToSet(r) PROVE y \in ToSet(q) \cup {x}
    <3>1. PICK i \in 1 .. (n + 1) : y = r[i]
      BY <1>2 DEF ToSet
    <3>2. i \in 1 .. n \/ i = n + 1
      BY <1>1
    <3> QED
      BY <3>1, <3>2, <1>1, <1>2 DEF ToSet
  <2>2. ASSUME NEW y \in ToSet(q) \cup {x} PROVE y \in ToSet(r)
    <3>1. (\E i \in 1 .. n : y = q[i]) \/ y = x
      BY <1>1 DEF ToSet
    <3>2. \A i \in 1 .. n : i \in 1 .. (n + 1)
      BY <1>1
    <3>3. n + 1 \in 1 .. (n + 1)
      BY <1>1
    <3> QED
      BY <3>1, <3>2, <3>3, <1>2 DEF ToSet
  <2> QED
    BY <2>1, <2>2
<1>4. IsInjective(r)
  <2> SUFFICES ASSUME NEW i \in 1 .. (n + 1), NEW j \in 1 .. (n + 1), r[i] = r[j]
               PROVE  i = j
    BY <1>2 DEF IsInjective
  <2>1. (i \in 1 .. n \/ i = n + 1) /\ (j \in 1 .. n \/ j = n + 1)
    BY <1>1
  <2>2. \A k \in 1 .. n : q[k] # x
    BY <1>1 DEF ToSet
  <2> QED
    BY <2>1, <2>2, <1>1, <1>2 DEF IsInjective
<1> QED
  BY <1>1, <1>2, <1>3, <1>4, EmptySeq

\* A vector without duplicates has as many elements as positions.
LEMMA InjectiveCount ==
    ASSUME NEW S, NEW n \in Nat, NEW q \in [1 .. n -> S], IsInjective(q)
    PROVE  /\ q \in Seq(S)
           /\ IsFiniteSet(ToSet(q))
           /\ Cardinality(ToSet(q)) = n
<1>1. q \in Seq(S)
  BY SeqDef
<1>2. q \in Surjection(1 .. n, ToSet(q))
  BY DEF Surjection, ToSet
<1>3. q \in Injection(1 .. n, ToSet(q))
  BY <1>2 DEF Injection, IsInjective, Surjection
<1>4. IsFiniteSet(1 .. n) /\ Cardinality(1 .. n) = n
  BY FS_Interval
<1> QED
  BY <1>1, <1>2, <1>3, <1>4, FS_Surjection

\* Allocated by membership.
LEMMA AllocatedMember ==
    \A c : c \in Allocated <=> \/ c \in Pooled
                               \/ c \in leaked
                               \/ \E t \in Threads : pc[t] \in Holding /\ held[t] = c
BY DEF Allocated

\* The counted sets are finite.
LEMMA FiniteCounts ==
    ASSUME TypeOK
    PROVE  /\ Allocated \subseteq Conns
           /\ IsFiniteSet(Allocated) /\ Cardinality(Allocated) \in Nat
           /\ IsFiniteSet(Decrementing) /\ Cardinality(Decrementing) \in Nat
<1>1. Pooled \subseteq Conns
  BY LenProperties DEF TypeOK, Pooled, ToSet
<1>2. Allocated \subseteq Conns
  BY <1>1, AllocatedMember DEF TypeOK
<1>3. Decrementing \subseteq Threads
  BY DEF Decrementing
<1> QED
  BY <1>2, <1>3, PoolAssumption, FS_Subset, FS_CardinalityType

\* InitConnerPool establishes the invariant.
LEMMA InitInv == Init => IInv
<1> SUFFICES ASSUME Init PROVE IInv
  OBVIOUS
<1>1. /\ pool \in [1 .. MinConner -> Conns]
      /\ IsInjective(pool)
      /\ MinConner \in Nat
  BY PoolAssumption DEF Init
<1>2. /\ pool \in Seq(Conns)
      /\ Cardinality(Pooled) = MinConner
  BY <1>1, InjectiveCount DEF Pooled
<1>3. Pooled \subseteq Conns
  BY <1>2, LenProperties DEF Pooled, ToSet
<1>4. Allocated = Pooled
  BY AllocatedMember DEF Init, Holding
<1>5. Decrementing = {}
  BY DEF Init, Decrementing
<1>6. TypeOK
  <2>1. cur \in 0 .. MaxConner
    BY <1>1, PoolAssumption DEF Init
  <2>2. /\ pc \in [Threads -> PCs]
        /\ job \in [Threads -> Jobs]
        /\ held \in [Threads -> Conns \cup {NoConn}]
    BY DEF Init, PCs, Jobs
  <2>3. \A t \in Threads : held[t] \in Conns <=> pc[t] \in Holding
    BY PoolAssumption DEF Init, Holding
  <2>4. event \in BOOLEAN /\ open \subseteq Conns /\ leaked \subseteq Conns
    BY <1>3 DEF Init, Pooled
  <2> QED
    BY <1>2, <2>1, <2>2, <2>3, <2>4 DEF TypeOK
<1>7. Exclusive
  BY <1>1 DEF Init, Exclusive, Holding
<1>8. Accounting
  BY <1>1, <1>2, <1>4, <1>5, FS_EmptySet DEF Init, Accounting
<1>9. NoLostWakeup /\ BlockedSeesReset /\ AllAtWait
  BY PoolAssumption DEF Init, NoLostWakeup, BlockedSeesReset, AllAtWait
<1> QED
  BY <1>6, <1>7, <1>8, <1>9 DEF IInv

\* A step that moves no connection keeps the sets the counter is about.
LEMMA NothingMoved ==
    ASSUME TypeOK, Exclusive, Accounting,
           UNCHANGED <<pool, cur, held, leaked>>,
           \A u \in Threads : pc'[u] \in Holding <=> pc[u] \in Holding,
           \A u \in Threads : pc'[u] = "dec" <=> pc[u] = "dec"
    PROVE  Exclusive' /\ Accounting'
<1>1. Pooled' = Pooled
  BY DEF Pooled
<1>2. Allocated' = Allocated
  BY DEF Allocated, Pooled
<1>3. Decrementing' = Decrementing
  BY DEF Decrementing
<1>4. Exclusive'
  BY <1>1 DEF Exclusive
<1>5. Accounting'
  BY <1>2, <1>3 DEF Accounting
<1> QED
  BY <1>4, <1>5

\* Asking for a connection moves none.
LEMMA RequestInv == ASSUME IInv, NEW t \in Threads, Request(t) PROVE IInv'
<1> USE DEF IInv, GoTo
<1>1. pc' = [pc EXCEPT ![t] = "alloc"] /\ pc[t] = "idle"
  BY DEF Request
<1>2. TypeOK'
  BY DEF Request, TypeOK, PCs, Jobs, Holding
<1>3. Exclusive' /\ Accounting'
  BY <1>1, NothingMoved DEF Request, TypeOK, Holding
<1>4. NoLostWakeup' /\ BlockedSeesReset' /\ AllAtWait'
  BY DEF Request, TypeOK, NoLostWakeup, BlockedSeesReset, AllAtWait
<1> QED
  BY <1>2, <1>3, <1>4

\* A failed AddNewConner leaves the counter as it was.
LEMMA AllocNewFailsInv == ASSUME IInv, NEW t \in Threads, AllocNewFails(t) PROVE IInv'
<1> USE DEF IInv, GoTo
<1>1. TypeOK'
  BY DEF AllocNewFails, TypeOK, PCs, Holding
<1>2. Exclusive' /\ Accounting'
  BY NothingMoved DEF AllocNewFails, TypeOK, Holding
<1>3. NoLostWakeup' /\ BlockedSeesReset' /\ AllAtWait'
  BY DEF AllocNewFails, TypeOK, NoLostWakeup, BlockedSeesReset, AllAtWait
<1> QED
  BY <1>1, <1>2, <1>3

\* ResetEvent runs inside csConner with the pool empty: nothing to wake for.
LEMMA AllocResetInv == ASSUME IInv, NEW t \in Threads, AllocReset(t) PROVE IInv'
<1> USE DEF IInv, GoTo
<1>1. TypeOK'
  BY DEF AllocReset, TypeOK, PCs, Holding
<1>2. Exclusive' /\ Accounting'
  BY NothingMoved DEF AllocReset, TypeOK, Holding
<1>3. NoLostWakeup' /\ BlockedSeesReset'
  BY DEF AllocReset, TypeOK, NoLostWakeup, BlockedSeesReset
<1>4. cur = MaxConner
  BY PoolAssumption DEF AllocReset, TypeOK
<1>5. AllAtWait'
  BY <1>4 DEF AllocReset, AllAtWait
<1> QED
  BY <1>1, <1>2, <1>3, <1>5

\* A thread blocks only when it sees the event reset.
LEMMA WaitForConnerInv == ASSUME IInv, NEW t \in Threads, WaitForConner(t) PROVE IInv'
<1> USE DEF IInv, GoTo
<1>1. TypeOK'
  BY DEF WaitForConner, TypeOK, PCs, Holding
<1>2. Exclusive' /\ Accounting'
  BY NothingMoved DEF WaitForConner, TypeOK, Holding
<1>3. BlockedSeesReset' /\ AllAtWait'
  BY DEF WaitForConner, TypeOK, BlockedSeesReset, AllAtWait
<1>4. NoLostWakeup'
  BY DEF WaitForConner, TypeOK, NoLostWakeup
<1> QED
  BY <1>1, <1>2, <1>3, <1>4

\* Looking at the State of a connection moves none.
LEMMA CheckOpenInv == ASSUME IInv, NEW t \in Threads, CheckOpen(t) PROVE IInv'
<1> USE DEF IInv, GoTo
<1>1. TypeOK'
  BY DEF CheckOpen, TypeOK, PCs, Holding
<1>2. Exclusive' /\ Accounting'
  BY NothingMoved DEF CheckOpen, TypeOK, Holding
<1>3. NoLostWakeup' /\ BlockedSeesReset' /\ AllAtWait'
  BY DEF CheckOpen, TypeOK, NoLostWakeup, BlockedSeesReset, AllAtWait
<1> QED
  BY <1>1, <1>2, <1>3

\* A reopened connection stays with its thread.
LEMMA ReInitConnerInv == ASSUME IInv, NEW t \in Threads, ReInitConner(t) PROVE IInv'
<1> USE DEF IInv, GoTo
<1>1. TypeOK'
  BY DEF ReInitConner, TypeOK, PCs, Holding
<1>2. Exclusive' /\ Accounting'
  BY NothingMoved DEF ReInitConner, TypeOK, Holding
<1>3. NoLostWakeup' /\ BlockedSeesReset' /\ AllAtWait'
  BY DEF ReInitConner, TypeOK, NoLostWakeup, BlockedSeesReset, AllAtWait
<1> QED
  BY <1>1, <1>2, <1>3

\* The end of a query leaves the connection with its thread.
LEMMA FinishInv == ASSUME IInv, NEW t \in Threads, Finish(t) PROVE IInv'
<1> USE DEF IInv, GoTo
<1>1. TypeOK'
  BY DEF Finish, TypeOK, PCs, Holding
<1>2. Exclusive' /\ Accounting'
  BY NothingMoved DEF Finish, TypeOK, Holding
<1>3. NoLostWakeup' /\ BlockedSeesReset' /\ AllAtWait'
  BY DEF Finish, TypeOK, NoLostWakeup, BlockedSeesReset, AllAtWait
<1> QED
  BY <1>1, <1>2, <1>3

\* SetEvent leaves no thread blocked.
LEMMA SetEventInv == ASSUME IInv, NEW t \in Threads, SetEvent(t) PROVE IInv'
<1> USE DEF IInv
<1>1. \A u \in Threads : pc'[u] = IF u = t THEN "idle"
                                  ELSE IF pc[u] = "waiting" THEN "alloc" ELSE pc[u]
  BY DEF SetEvent
<1>2. TypeOK'
  BY DEF SetEvent, TypeOK, PCs, Holding
<1>3. Exclusive' /\ Accounting'
  BY <1>1, NothingMoved DEF SetEvent, TypeOK, Holding
<1>4. NoLostWakeup' /\ BlockedSeesReset' /\ AllAtWait'
  BY <1>1 DEF SetEvent, NoLostWakeup, BlockedSeesReset, AllAtWait
<1> QED
  BY <1>2, <1>3, <1>4

\* A closed connection still counts and keeps its owner.
LEMMA ServerDropsInv == ASSUME IInv, NEW c \in Conns, ServerDrops(c) PROVE IInv'
<1> USE DEF IInv
<1>1. TypeOK'
  BY DEF ServerDrops, TypeOK
<1>2. Exclusive' /\ Accounting'
  BY NothingMoved DEF ServerDrops
<1>3. NoLostWakeup' /\ BlockedSeesReset' /\ AllAtWait'
  BY DEF ServerDrops, NoLostWakeup, BlockedSeesReset, AllAtWait
<1> QED
  BY <1>1, <1>2, <1>3

\* back() and pop_back() move one connection from the pool to the thread.
LEMMA AllocPopInv == ASSUME IInv, NEW t \in Threads, AllocPop(t) PROVE IInv'
<1> USE DEF IInv, GoTo
<1> DEFINE c == Last(pool)
<1>1. /\ pool' \in Seq(Conns)
      /\ c \in Conns /\ c \in Pooled
      /\ Pooled' = Pooled \ {c}
      /\ IsInjective(pool')
  BY PopBack DEF AllocPop, TypeOK, Exclusive, Pooled
<1>2. /\ \A u \in Threads : u # t => pc'[u] = pc[u] /\ held'[u] = held[u]
      /\ pc'[t] = "check" /\ held'[t] = c /\ pc[t] = "alloc"
      /\ pc' \in [Threads -> PCs]
  BY DEF AllocPop, TypeOK, PCs
<1>3. TypeOK'
  BY <1>1, <1>2 DEF AllocPop, TypeOK, Holding
<1>4. Exclusive'
  BY <1>1, <1>2 DEF AllocPop, Exclusive, Holding
<1>5. Allocated' = Allocated
  <2>1. \A x : x \in Allocated' <=> \/ x \in Pooled'
                                    \/ x \in leaked'
                                    \/ \E u \in Threads : pc'[u] \in Holding /\ held'[u] = x
    BY DEF Allocated
  <2>2. \A x : x \in Allocated' <=> x \in Allocated
    BY <1>1, <1>2, <2>1, AllocatedMember DEF AllocPop, Holding
  <2> QED
    BY <2>2
<1>6. Decrementing' = Decrementing
  BY <1>2 DEF Decrementing
<1>7. Accounting'
  BY <1>5, <1>6 DEF AllocPop, Accounting
<1>8. NoLostWakeup'
  BY <1>1, <1>2 DEF AllocPop, NoLostWakeup
<1>9. BlockedSeesReset' /\ AllAtWait'
  BY <1>2 DEF AllocPop, BlockedSeesReset, AllAtWait
<1> QED
  BY <1>3, <1>4, <1>7, <1>8, <1>9

\* A new connection is counted, and is nobody else's.
LEMMA AllocNewInv == ASSUME IInv, NEW t \in Threads, AllocNew(t) PROVE IInv'
<1> USE DEF IInv, GoTo
<1>0. PICK c \in Conns \ Allocated : held' = [held EXCEPT ![t] = c] /\ open' = open \cup {c}
  BY DEF AllocNew
<1>1. pool' = pool /\ Pooled' = Pooled /\ leaked' = leaked
  BY DEF AllocNew, Pooled
<1>2. /\ \A u \in Threads : u # t => pc'[u] = pc[u] /\ held'[u] = held[u]
      /\ pc'[t] = "check" /\ held'[t] = c /\ pc[t] = "alloc"
      /\ pc' \in [Threads -> PCs]
  BY <1>0 DEF AllocNew, TypeOK, PCs
<1>3. TypeOK'
  <2>1. cur' \in 0 .. MaxConner
    BY PoolAssumption DEF AllocNew, TypeOK
  <2> QED
    BY <1>0, <1>1, <1>2, <2>1 DEF AllocNew, TypeOK, Holding
<1>4. Exclusive'
  BY <1>0, <1>1, <1>2, AllocatedMember DEF Exclusive, Holding
<1>5. Allocated' = Allocated \cup {c}
  <2>1. \A x : x \in Allocated' <=> \/ x \in Pooled'
                                    \/ x \in leaked'
                                    \/ \E u \in Threads : pc'[u] \in Holding /\ held'[u] = x
    BY DEF Allocated
  <2>2. \A x : x \in Allocated' <=> x \in Allocated \/ x = c
    BY <1>1, <1>2, <2>1, AllocatedMember DEF Holding
  <2> QED
    BY <2>2
<1>6. Decrementing' = Decrementing
  BY <1>2 DEF Decrementing
<1>7. Accounting'
  <2>1. Cardinality(Allocated') = Cardinality(Allocated) + 1
    BY <1>0, <1>5, FiniteCounts, FS_AddElement
  <2> QED
    BY <1>6, <2>1, FiniteCounts DEF AllocNew, Accounting
<1>8. NoLostWakeup' /\ BlockedSeesReset' /\ AllAtWait'
  BY <1>2 DEF AllocNew, NoLostWakeup, BlockedSeesReset, AllAtWait
<1> QED
  BY <1>3, <1>4, <1>7, <1>8

\* delete and the pending decrement balance.
LEMMA ReInitConnerFailsInv ==
    ASSUME IInv, NEW t \in Threads, ReInitConnerFails(t) PROVE IInv'
<1> USE DEF IInv, GoTo
<1> DEFINE c == held[t]
<1>1. pool' = pool /\ Pooled' = Pooled /\ leaked' = leaked
  BY DEF ReInitConnerFails, Pooled
<1>2. /\ \A u \in Threads : u # t => pc'[u] = pc[u] /\ held'[u] = held[u]
      /\ pc'[t] = "dec" /\ held'[t] = NoConn /\ pc[t] = "check"
      /\ pc' \in [Threads -> PCs]
  BY DEF ReInitConnerFails, TypeOK, PCs
<1>3. TypeOK'
  BY <1>1, <1>2, PoolAssumption DEF ReInitConnerFails, TypeOK, Holding
<1>4. Exclusive'
  BY <1>1, <1>2 DEF Exclusive, Holding
<1>5. Allocated' = Allocated \ {c} /\ c \in Allocated
  <2>1. \A x : x \in Allocated' <=> \/ x \in Pooled'
                                    \/ x \in leaked'
                                    \/ \E u \in Threads : pc'[u] \in Holding /\ held'[u] = x
    BY DEF Allocated
  <2>2. \A x : x \in Allocated' <=> x \in Allocated /\ x # c
    BY <1>1, <1>2, <2>1, AllocatedMember DEF Exclusive, Holding
  <2>3. c \in Allocated
    BY <1>2, AllocatedMember DEF Holding
  <2> QED
    BY <2>2, <2>3
<1>6. Decrementing' = Decrementing \cup {t} /\ t \notin Decrementing
  BY <1>2 DEF Decrementing
<1>7. Accounting'
  <2>1. Cardinality(Allocated') = Cardinality(Allocated) - 1
    BY <1>5, FiniteCounts, FS_RemoveElement
  <2>2. Cardinality(Decrementing') = Cardinality(Decrementing) + 1
    BY <1>6, FiniteCounts, FS_AddElement
  <2> QED
    BY <2>1, <2>2, FiniteCounts DEF ReInitConnerFails, Accounting
<1>8. NoLostWakeup' /\ BlockedSeesReset' /\ AllAtWait'
  BY <1>2 DEF ReInitConnerFails, NoLostWakeup, BlockedSeesReset, AllAtWait
<1> QED
  BY <1>3, <1>4, <1>7, <1>8

\* The decrement pays for the connection deleted before.
LEMMA DecrementCurrentInv ==
    ASSUME IInv, NEW t \in Threads, DecrementCurrent(t) PROVE IInv'
<1> USE DEF IInv, GoTo
<1>1. pool' = pool /\ Pooled' = Pooled /\ leaked' = leaked /\ held' = held
  BY DEF DecrementCurrent, Pooled
<1>2. /\ \A u \in Threads : u # t => pc'[u] = pc[u]
      /\ pc'[t] = "idle" /\ pc[t] = "dec"
      /\ pc' \in [Threads -> PCs]
  BY DEF DecrementCurrent, TypeOK, PCs
<1>3. Decrementing' = Decrementing \ {t} /\ t \in Decrementing
  BY <1>2 DEF Decrementing
<1>4. Cardinality(Decrementing') = Cardinality(Decrementing) - 1
  BY <1>3, FiniteCounts, FS_RemoveElement
<1>5. Cardinality(Decrementing') \in Nat
  BY <1>3, FiniteCounts, FS_RemoveElement, FS_CardinalityType
<1>6. cur' = cur - 1 /\ cur > 0
  BY <1>4, <1>5, FiniteCounts DEF DecrementCurrent, Accounting
<1>7. TypeOK'
  <2>1. cur' \in 0 .. MaxConner
    BY <1>6, PoolAssumption DEF TypeOK
  <2> QED
    BY <1>1, <1>2, <2>1 DEF DecrementCurrent, TypeOK, Holding
<1>8. Exclusive'
  BY <1>1, <1>2 DEF Exclusive, Holding
<1>9. Allocated' = Allocated
  <2>1. \A x : x \in Allocated' <=> \/ x \in Pooled'
                                    \/ x \in leaked'
                                    \/ \E u \in Threads : pc'[u] \in Holding /\ held'[u] = x
    BY DEF Allocated
  <2>2. \A x : x \in Allocated' <=> x \in Allocated
    BY <1>1, <1>2, <2>1, AllocatedMember DEF Holding
  <2> QED
    BY <2>2
<1>10. Accounting'
  BY <1>4, <1>6, <1>9, FiniteCounts DEF Accounting
<1>11. NoLostWakeup' /\ BlockedSeesReset' /\ AllAtWait'
  BY <1>2 DEF DecrementCurrent, NoLostWakeup, BlockedSeesReset, AllAtWait
<1> QED
  BY <1>7, <1>8, <1>10, <1>11

\* A leaked connection still counts.
LEMMA TransUnwindInv == ASSUME IInv, NEW t \in Threads, TransUnwind(t) PROVE IInv'
<1> USE DEF IInv, GoTo
<1> DEFINE c == held[t]
<1>1. pool' = pool /\ Pooled' = Pooled /\ leaked' = leaked \cup {c}
  BY DEF TransUnwind, Pooled
<1>2. /\ \A u \in Threads : u # t => pc'[u] = pc[u] /\ held'[u] = held[u]
      /\ pc'[t] = "idle" /\ held'[t] = NoConn /\ pc[t] = "use"
      /\ pc' \in [Threads -> PCs]
  BY DEF TransUnwind, TypeOK, PCs
<1>3. c \in Conns
  BY <1>2 DEF TypeOK, Holding
<1>4. TypeOK'
  BY <1>1, <1>2, <1>3, PoolAssumption DEF TransUnwind, TypeOK, Holding
<1>5. Exclusive'
  BY <1>1, <1>2 DEF Exclusive, Holding
<1>6. Allocated' = Allocated
  <2>1. \A x : x \in Allocated' <=> \/ x \in Pooled'
                                    \/ x \in leaked'
                                    \/ \E u \in Threads : pc'[u] \in Holding /\ held'[u] = x
    BY DEF Allocated
  <2>2. \A x : x \in Allocated' <=> x \in Allocated
    BY <1>1, <1>2, <2>1, AllocatedMember DEF Holding
  <2> QED
    BY <2>2
<1>7. Decrementing' = Decrementing
  BY <1>2 DEF Decrementing
<1>8. Accounting'
  BY <1>6, <1>7 DEF TransUnwind, Accounting
<1>9. NoLostWakeup' /\ BlockedSeesReset' /\ AllAtWait'
  BY <1>2 DEF TransUnwind, NoLostWakeup, BlockedSeesReset, AllAtWait
<1> QED
  BY <1>4, <1>5, <1>8, <1>9

\* push_back() moves the connection to the pool, with a SetEvent to come.
LEMMA FreeConnerInv == ASSUME IInv, NEW t \in Threads, FreeConner(t) PROVE IInv'
<1> USE DEF IInv, GoTo
<1> DEFINE c == held[t]
<1>1. c \in Conns /\ c \notin Pooled /\ c \notin leaked
  BY DEF FreeConner, TypeOK, Exclusive, Holding
<1>2. /\ pool' \in Seq(Conns)
      /\ Pooled' = Pooled \cup {c}
      /\ IsInjective(pool')
  BY <1>1, PushBack DEF FreeConner, TypeOK, Exclusive, Pooled
<1>3. /\ \A u \in Threads : u # t => pc'[u] = pc[u] /\ held'[u] = held[u]
      /\ pc'[t] = "signal" /\ held'[t] = NoConn /\ pc[t] = "free"
      /\ pc' \in [Threads -> PCs]
  BY DEF FreeConner, TypeOK, PCs
<1>4. TypeOK'
  BY <1>2, <1>3, PoolAssumption DEF FreeConner, TypeOK, Holding
<1>5. Exclusive'
  BY <1>1, <1>2, <1>3 DEF FreeConner, Exclusive, Holding
<1>6. Allocated' = Allocated
  <2>1. \A x : x \in Allocated' <=> \/ x \in Pooled'
                                    \/ x \in leaked'
                                    \/ \E u \in Threads : pc'[u] \in Holding /\ held'[u] = x
    BY DEF Allocated
  <2>2. \A x : x \in Allocated' <=> x \in Allocated
    BY <1>2, <1>3, <2>1, AllocatedMember DEF FreeConner, Holding
  <2> QED
    BY <2>2
<1>7. Decrementing' = Decrementing
  BY <1>3 DEF Decrementing
<1>8. Accounting'
  BY <1>6, <1>7 DEF FreeConner, Accounting
<1>9. NoLostWakeup' /\ BlockedSeesReset' /\ AllAtWait'
  BY <1>3 DEF FreeConner, NoLostWakeup, BlockedSeesReset, AllAtWait
<1> QED
  BY <1>4, <1>5, <1>8, <1>9

\* Every step of the pool, and a stuttering step, preserves the invariant.
LEMMA NextInv == IInv /\ [Next]_vars => IInv'
<1> SUFFICES ASSUME IInv, [Next]_vars PROVE IInv'
  OBVIOUS
<1>1. ASSUME NEW t \in Threads, Request(t) PROVE IInv'
  BY <1>1, RequestInv
<1>2. ASSUME NEW t \in Threads, Step(t) PROVE IInv'
  BY <1>2, AllocPopInv, AllocNewInv, AllocNewFailsInv, AllocResetInv,
     WaitForConnerInv, CheckOpenInv, ReInitConnerInv, ReInitConnerFailsInv,
     DecrementCurrentInv, FinishInv, TransUnwindInv, FreeConnerInv, SetEventInv
     DEF Step
<1>3. ASSUME NEW c \in Conns, ServerDrops(c) PROVE IInv'
  BY <1>3, ServerDropsInv
<1>4. ASSUME UNCHANGED vars PROVE IInv'
  <2>1. Exclusive' /\ Accounting'
    BY <1>4, NothingMoved DEF vars, IInv
  <2>2. TypeOK' /\ NoLostWakeup' /\ BlockedSeesReset' /\ AllAtWait'
    BY <1>4 DEF vars, IInv, TypeOK, NoLostWakeup, BlockedSeesReset, AllAtWait
  <2> QED
    BY <2>1, <2>2 DEF IInv
<1> QED
  BY <1>1, <1>2, <1>3, <1>4 DEF Next

\* The inductive invariant holds in every reachable state.
THEOREM Invariance == Spec => []IInv
<1> QED
  BY InitInv, NextInv, PTL DEF Spec

\* Every variable keeps its type, and g_nCurrentNum stays in 0 .. g_nMaxConner.
THEOREM TypeCorrect == Spec => []TypeOK
<1>1. IInv => TypeOK
  BY DEF IInv
<1> QED
  BY <1>1, Invariance, PTL

\* AllocConner never hands one connection to two threads.
THEOREM ExclusiveOwnership == Spec => []Exclusive
<1>1. IInv => Exclusive
  BY DEF IInv
<1> QED
  BY <1>1, Invariance, PTL

(***************************************************************************)
(* g_nCurrentNum counts the existing connections on every path, failed     *)
(* opens and failed reconnects included.                                   *)
(***************************************************************************)
THEOREM CounterIsExact == Spec => []Accounting
<1>1. IInv => Accounting
  BY DEF IInv
<1> QED
  BY <1>1, Invariance, PTL

\* At most g_nMaxConner connections exist at any time.
THEOREM LimitHolds == Spec => []BoundedConnections
<1>1. IInv => BoundedConnections
  BY PoolAssumption, FiniteCounts DEF IInv, TypeOK, Accounting, BoundedConnections
<1> QED
  BY <1>1, Invariance, PTL

\* No SetEvent of FreeConner is lost between ResetEvent and the wait.
THEOREM WakeupNotLost == Spec => []NoLostWakeup
<1>1. IInv => NoLostWakeup
  BY DEF IInv
<1> QED
  BY <1>1, Invariance, PTL

(***************************************************************************)
(* When every thread is blocked in AllocConner, doExcelLoad has leaked all *)
(* g_nMaxConner connections: nobody holds one, none lies in the pool, and  *)
(* the counter is at its limit.                                            *)
(***************************************************************************)
THEOREM DeadlockNeedsLeaks == Spec => []OnlyLeaksDeadlock
<1>1. IInv => OnlyLeaksDeadlock
  <2> SUFFICES ASSUME IInv, \A t \in Threads : pc[t] = "waiting"
               PROVE  Cardinality(leaked) = MaxConner
    BY DEF OnlyLeaksDeadlock
  <2>1. PICK t \in Threads : pc[t] = "waiting"
    BY PoolAssumption
  <2>2. ~event
    BY <2>1 DEF IInv, BlockedSeesReset
  <2>3. pool = <<>>
    BY <2>1, <2>2 DEF IInv, NoLostWakeup
  <2>4. cur = MaxConner
    BY <2>2 DEF IInv, AllAtWait
  <2>5. Pooled = {}
    BY <2>3, EmptySeq DEF Pooled, ToSet
  <2>6. Allocated = leaked
    BY <2>5, AllocatedMember DEF Holding
  <2>7. Decrementing = {} /\ Cardinality(Decrementing) = 0
    BY FS_EmptySet DEF Decrementing
  <2> QED
    BY <2>4, <2>6, <2>7, FiniteCounts DEF IInv, Accounting
<1> QED
  BY <1>1, Invariance, PTL

-----------------------------------------------------------------------------
\* What the refinement mapping says of a connection.
PlaceSound ==
    /\ Place \in [Conns -> {"none", "shelf", "lost"} \cup Threads]
    /\ \A c \in Conns : Place[c] = "shelf" <=> c \in Pooled
    /\ \A c \in Conns : Place[c] = "lost" <=> c \in leaked
    /\ \A c \in Conns : Place[c] = "none" <=> c \notin Allocated
    /\ \A c \in Conns : \A t \in Threads :
         Place[c] = t <=> pc[t] \in Holding /\ held[t] = c

\* Under the invariant the mapping is exact: one place for each connection.
LEMMA PlaceIsSound == IInv => PlaceSound
<1> SUFFICES ASSUME IInv PROVE PlaceSound
  OBVIOUS
<1> DEFINE Holder(c) == CHOOSE t \in Threads : pc[t] \in Holding /\ held[t] = c
<1>1. Place = [c \in Conns |-> Place[c]]
  BY DEF Place
<1>2. \A c \in Conns : c \in Pooled => Place[c] = "shelf" /\ c \in Allocated /\ c \notin leaked
  BY AllocatedMember DEF Place, IInv, Exclusive
<1>3. \A c \in Conns : c \in leaked => Place[c] = "lost" /\ c \in Allocated /\ c \notin Pooled
  BY AllocatedMember DEF Place, IInv, Exclusive
<1>4. \A c \in Conns : c \notin Allocated => Place[c] = "none" /\ c \notin Pooled /\ c \notin leaked
  BY AllocatedMember DEF Place
<1>5. ASSUME NEW c \in Conns, NEW t \in Threads, pc[t] \in Holding, held[t] = c
      PROVE  Place[c] = t /\ c \in Allocated /\ c \notin Pooled /\ c \notin leaked
  <2>1. c \in Allocated /\ c \notin Pooled /\ c \notin leaked
    BY <1>5, AllocatedMember DEF IInv, Exclusive
  <2>2. Place[c] = Holder(c)
    BY <2>1 DEF Place
  <2>3. Holder(c) \in Threads /\ pc[Holder(c)] \in Holding /\ held[Holder(c)] = c
    BY <1>5
  <2>4. Holder(c) = t
    BY <1>5, <2>3 DEF IInv, Exclusive
  <2> QED
    BY <2>1, <2>2, <2>4
<1>6. \A t \in Threads : t # "none" /\ t # "shelf" /\ t # "lost"
  BY NamesAssumption
<1>7. \A c \in Conns : \/ c \in Pooled
                      \/ c \in leaked
                      \/ c \notin Allocated
                      \/ \E t \in Threads : pc[t] \in Holding /\ held[t] = c
  BY AllocatedMember
<1>8. \A c \in Conns : Place[c] \in {"none", "shelf", "lost"} \cup Threads
  BY <1>2, <1>3, <1>4, <1>5, <1>7
<1>9. Place \in [Conns -> {"none", "shelf", "lost"} \cup Threads]
  BY <1>1, <1>8
<1>10. \A c \in Conns : Place[c] = "shelf" <=> c \in Pooled
  BY <1>2, <1>3, <1>4, <1>5, <1>6, <1>7
<1>11. \A c \in Conns : Place[c] = "lost" <=> c \in leaked
  BY <1>2, <1>3, <1>4, <1>5, <1>6, <1>7
<1>12. \A c \in Conns : Place[c] = "none" <=> c \notin Allocated
  BY <1>2, <1>3, <1>4, <1>5, <1>6, <1>7
<1>13. \A c \in Conns : \A t \in Threads :
         Place[c] = t <=> pc[t] \in Holding /\ held[t] = c
  BY <1>2, <1>3, <1>4, <1>5, <1>6, <1>7
<1> QED
  BY <1>9, <1>10, <1>11, <1>12, <1>13 DEF PlaceSound

\* The same for the state after a step.
LEMMA PlaceIsSoundNext == IInv' => PlaceSound'
BY PlaceIsSound, PTL

\* Cardinality is the same operator in the instantiated module.
LEMMA SameCardinality == \A S : Abstract!Cardinality(S) = Cardinality(S)
BY DEF Abstract!Cardinality, Cardinality

\* The connections the bounded pool says exist are the allocated ones.
LEMMA ExistingIsAllocated ==
    ASSUME IInv
    PROVE  /\ Abstract!Existing = Allocated
           /\ Cardinality(Allocated) <= MaxConner
<1>1. PlaceSound
  BY PlaceIsSound
<1>2. Abstract!Existing = Allocated
  BY <1>1, FiniteCounts DEF PlaceSound, Abstract!Existing, IInv
<1>3. Cardinality(Allocated) <= MaxConner
  BY PoolAssumption, FiniteCounts DEF IInv, TypeOK, Accounting
<1> QED
  BY <1>2, <1>3

\* A connection that nobody touches in a step stays in its place.
LEMMA SamePlace ==
    ASSUME PlaceSound, PlaceSound', NEW d \in Conns,
           d \in Pooled' <=> d \in Pooled,
           d \in leaked' <=> d \in leaked,
           \A t \in Threads : pc'[t] \in Holding /\ held'[t] = d
                               <=> pc[t] \in Holding /\ held[t] = d
    PROVE  Place'[d] = Place[d]
<1>1. d \in Allocated' <=> d \in Allocated
  BY DEF Allocated
<1>2. Place[d] \in {"none", "shelf", "lost"} \cup Threads
  BY DEF PlaceSound
<1>3. CASE Place[d] \in {"none", "shelf", "lost"}
  BY <1>1, <1>3 DEF PlaceSound
<1>4. CASE Place[d] \in Threads
  BY <1>4 DEF PlaceSound
<1> QED
  BY <1>2, <1>3, <1>4

\* A step that moves one connection only.
LEMMA OneMoves ==
    ASSUME PlaceSound, PlaceSound', NEW c \in Conns, NEW p, Place'[c] = p,
           \A d \in Conns : d # c => Place'[d] = Place[d]
    PROVE  Place' = [Place EXCEPT ![c] = p]
BY DEF PlaceSound

\* A step that moves none.
LEMMA NoneMoves ==
    ASSUME PlaceSound, PlaceSound',
           \A d \in Conns : Place'[d] = Place[d]
    PROVE  Place' = Place
BY DEF PlaceSound

\* A thread's own step is a step of the bounded pool or leaves it alone.
LEMMA StepRefines ==
    ASSUME IInv, IInv', NEW t \in Threads, Step(t)
    PROVE  Abstract!PoolNext \/ Place' = Place
<1> USE PlaceIsSound, PlaceIsSoundNext DEF GoTo
<1>1. CASE AllocPop(t)
  <2> DEFINE c == Last(pool)
  <2>1. c \in Conns /\ c \in Pooled /\ Pooled' = Pooled \ {c}
    BY <1>1, PopBack DEF AllocPop, IInv, TypeOK, Exclusive, Pooled
  <2>2. /\ \A u \in Threads : u # t => pc'[u] = pc[u] /\ held'[u] = held[u]
        /\ pc'[t] = "check" /\ held'[t] = c /\ pc[t] = "alloc"
        /\ leaked' = leaked
    BY <1>1 DEF AllocPop, IInv, TypeOK
  <2>3. \A d \in Conns : d # c => Place'[d] = Place[d]
    BY <2>1, <2>2, SamePlace DEF Holding
  <2>4. Place[c] = "shelf" /\ Place'[c] = t
    BY <2>1, <2>2 DEF PlaceSound, Holding
  <2>5. Abstract!Take(t, c)
    BY <2>1, <2>3, <2>4, OneMoves DEF Abstract!Take
  <2> QED
    BY <2>1, <2>5 DEF Abstract!PoolNext
<1>2. CASE AllocNew(t)
  <2>1. PICK c \in Conns \ Allocated : held' = [held EXCEPT ![t] = c]
    BY <1>2 DEF AllocNew
  <2>2. /\ \A u \in Threads : u # t => pc'[u] = pc[u] /\ held'[u] = held[u]
        /\ pc'[t] = "check" /\ held'[t] = c /\ pc[t] = "alloc"
        /\ leaked' = leaked /\ Pooled' = Pooled
    BY <1>2, <2>1 DEF AllocNew, IInv, TypeOK, Pooled
  <2>3. \A d \in Conns : d # c => Place'[d] = Place[d]
    BY <2>1, <2>2, SamePlace DEF Holding
  <2>4. Place[c] = "none" /\ Place'[c] = t
    BY <2>1, <2>2 DEF PlaceSound, Holding
  <2>5. Cardinality(Abstract!Existing) < MaxConner
    BY <1>2, ExistingIsAllocated, FiniteCounts, PoolAssumption
       DEF AllocNew, IInv, TypeOK, Accounting
  <2>6. Abstract!Open(t, c)
    BY <2>1, <2>3, <2>4, <2>5, OneMoves, SameCardinality DEF Abstract!Open
  <2> QED
    BY <2>1, <2>6 DEF Abstract!PoolNext
<1>3. CASE ReInitConnerFails(t)
  <2> DEFINE c == held[t]
  <2>1. c \in Conns
    BY <1>3 DEF ReInitConnerFails, IInv, TypeOK, Holding
  <2>2. /\ \A u \in Threads : u # t => pc'[u] = pc[u] /\ held'[u] = held[u]
        /\ pc'[t] = "dec" /\ pc[t] = "check"
        /\ leaked' = leaked /\ Pooled' = Pooled
    BY <1>3 DEF ReInitConnerFails, IInv, TypeOK, Pooled
  <2>3. \A d \in Conns : d # c => Place'[d] = Place[d]
    BY <2>1, <2>2, SamePlace DEF Holding
  <2>4. Place[c] = t
    BY <2>1, <2>2 DEF PlaceSound, Holding
  <2>5. c \notin Allocated'
    BY <2>1, <2>2 DEF Allocated, IInv, Exclusive, Holding
  <2>6. Abstract!Discard(t, c)
    BY <2>1, <2>3, <2>4, <2>5, OneMoves DEF Abstract!Discard, PlaceSound
  <2> QED
    BY <2>1, <2>6 DEF Abstract!PoolNext
<1>4. CASE TransUnwind(t)
  <2> DEFINE c == held[t]
  <2>1. c \in Conns
    BY <1>4 DEF TransUnwind, IInv, TypeOK, Holding
  <2>2. /\ \A u \in Threads : u # t => pc'[u] = pc[u] /\ held'[u] = held[u]
        /\ pc'[t] = "idle" /\ pc[t] = "use"
        /\ leaked' = leaked \cup {c} /\ Pooled' = Pooled
    BY <1>4 DEF TransUnwind, IInv, TypeOK, Pooled
  <2>3. \A d \in Conns : d # c => Place'[d] = Place[d]
    BY <2>1, <2>2, SamePlace DEF Holding
  <2>4. Place[c] = t /\ Place'[c] = "lost"
    BY <2>1, <2>2 DEF PlaceSound, Holding
  <2>5. Abstract!Forget(t, c)
    BY <2>1, <2>3, <2>4, OneMoves DEF Abstract!Forget
  <2> QED
    BY <2>1, <2>5 DEF Abstract!PoolNext
<1>5. CASE FreeConner(t)
  <2> DEFINE c == held[t]
  <2>1. c \in Conns /\ c \notin Pooled
    BY <1>5 DEF FreeConner, IInv, TypeOK, Exclusive, Holding
  <2>2. Pooled' = Pooled \cup {c}
    BY <1>5, <2>1, PushBack DEF FreeConner, IInv, TypeOK, Exclusive, Pooled
  <2>3. /\ \A u \in Threads : u # t => pc'[u] = pc[u] /\ held'[u] = held[u]
        /\ pc'[t] = "signal" /\ pc[t] = "free"
        /\ leaked' = leaked
    BY <1>5 DEF FreeConner, IInv, TypeOK
  <2>4. \A d \in Conns : d # c => Place'[d] = Place[d]
    BY <2>1, <2>2, <2>3, SamePlace DEF Holding
  <2>5. Place[c] = t /\ Place'[c] = "shelf"
    BY <2>1, <2>2, <2>3 DEF PlaceSound, Holding
  <2>6. Abstract!GiveBack(t, c)
    BY <2>1, <2>4, <2>5, OneMoves DEF Abstract!GiveBack
  <2> QED
    BY <2>1, <2>6 DEF Abstract!PoolNext
<1>6. CASE \/ AllocNewFails(t) \/ AllocReset(t) \/ WaitForConner(t)
           \/ CheckOpen(t) \/ ReInitConner(t) \/ DecrementCurrent(t)
           \/ Finish(t) \/ SetEvent(t)
  <2>1. pool' = pool /\ leaked' = leaked /\ held' = held
    BY <1>6 DEF AllocNewFails, AllocReset, WaitForConner, CheckOpen, ReInitConner,
                DecrementCurrent, Finish, SetEvent
  <2>2. \A u \in Threads : pc'[u] \in Holding <=> pc[u] \in Holding
    BY <1>6 DEF AllocNewFails, AllocReset, WaitForConner, CheckOpen, ReInitConner,
                DecrementCurrent, Finish, SetEvent, Holding, IInv, TypeOK
  <2>3. Pooled' = Pooled
    BY <2>1 DEF Pooled
  <2>4. \A d \in Conns : Place'[d] = Place[d]
    BY <2>1, <2>2, <2>3, SamePlace
  <2> QED
    BY <2>4, NoneMoves
<1> QED
  BY <1>1, <1>2, <1>3, <1>4, <1>5, <1>6 DEF Step

(***************************************************************************)
(* The pool of DBPool.cpp implements BoundedPool: with the lock, the event *)
(* and the counter, callers see a shelf of at most g_nMaxConner            *)
(* connections each of which is in one place.                              *)
(***************************************************************************)
THEOREM Refinement == Spec => ImplementsBoundedPool
<1>1. Init => Abstract!PoolInit
  <2> SUFFICES ASSUME Init PROVE Abstract!PoolInit
    OBVIOUS
  <2>1. IInv /\ PlaceSound
    BY InitInv, PlaceIsSound
  <2>2. Allocated = Pooled
    BY AllocatedMember DEF Init, Holding
  <2>3. \A c \in Conns : Place[c] \in {"none", "shelf"}
    BY <2>1, <2>2 DEF PlaceSound
  <2>4. Place \in [Conns -> {"none", "shelf"}]
    BY <2>1, <2>3 DEF PlaceSound
  <2> QED
    BY <2>1, <2>4, ExistingIsAllocated, SameCardinality DEF Abstract!PoolInit
<1>2. IInv /\ IInv' /\ [Next]_vars => [Abstract!PoolNext]_Place
  <2> SUFFICES ASSUME IInv, IInv', [Next]_vars PROVE Abstract!PoolNext \/ Place' = Place
    OBVIOUS
  <2>1. ASSUME NEW t \in Threads, Request(t) PROVE Place' = Place
    <3>1. pool' = pool /\ leaked' = leaked /\ held' = held /\ Pooled' = Pooled
      BY <2>1 DEF Request, Pooled
    <3>2. \A u \in Threads : pc'[u] \in Holding <=> pc[u] \in Holding
      BY <2>1 DEF Request, GoTo, Holding, IInv, TypeOK
    <3> QED
      BY <3>1, <3>2, SamePlace, NoneMoves, PlaceIsSound, PlaceIsSoundNext
  <2>2. ASSUME UNCHANGED <<pool, pc, held, leaked>> PROVE Place' = Place
    BY <2>2, SamePlace, NoneMoves, PlaceIsSound, PlaceIsSoundNext DEF Pooled
  <2>3. ASSUME NEW c \in Conns, ServerDrops(c) PROVE Place' = Place
    BY <2>2, <2>3 DEF ServerDrops
  <2>4. ASSUME UNCHANGED vars PROVE Place' = Place
    BY <2>2, <2>4 DEF vars
  <2> QED
    BY <2>1, <2>3, <2>4, StepRefines DEF Next
<1> QED
  BY <1>1, <1>2, Invariance, PTL DEF Spec, ImplementsBoundedPool, Abstract!PoolSpec
=============================================================================
