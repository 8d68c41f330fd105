---------------------------- MODULE ConnIOProofs ----------------------------
(***************************************************************************)
(* Proofs about ConnIO: who owns the buffer and socket objects, which      *)
(* handler a completion runs and what the two maps list, for any number of *)
(* worker threads, objects, keys and requests under way.                   *)
(***************************************************************************)
EXTENDS ConnIO, FiniteSetTheorems, SequenceTheorems, TLAPS

\* The pairs of handlers that the code registers with SetIoRequestFunction.
HandlerPairs == (Ports \X {"Accept"}) \cup ({"srv", "nc", "api"} \X {"Zero", "Recv", "Send"})
                    \cup {<<"api", "Connect">>}

\* Buffer b is ready for a request on socket object s.
Fits(b, s) ==
    /\ fn[b] \in HandlerPairs
    /\ relS[b] # Null
    /\ s # Null
    /\ Family(b) = "api" <=> s # relS[b]

\* Threads with a request in hand, posted next or completed just now.
Requesting == {"post", "run_ok", "run_zero", "run_fail"}

(***************************************************************************)
(* What a thread has in its hands at each place of the code: the buffer,   *)
(* and with it the client's socket object, the one of the API call, or     *)
(* none.  The sweep holds a socket object it does not own.                 *)
(***************************************************************************)
At(t) ==
    LET b == myB[t]
        s == myS[t]
        l == pc[t]
    IN /\ l = "idle" => b = Null /\ s = Null
       /\ l \in Requesting => b # Null /\ Fits(b, s)
       /\ l = "post" => Kind(b) = want[t]
       /\ l \in {"process", "api_alloc", "drop_close", "drop_freeS", "acc_remove"} =>
            b # Null /\ s # Null /\ s = relS[b]
       /\ l = "acc_remove" => fn[b] \in Ports \X {"Accept"}
       /\ l \in {"api_init", "api_close", "api_freeS", "end_close", "end_freeS"} =>
            b # Null /\ s # Null /\ relS[b] # Null /\ s # relS[b]
       /\ l = "reply" => b # Null /\ relS[b] # Null /\ s \in {Null, relS[b]}
       /\ l \in {"respond", "drop_freeB"} => b # Null /\ relS[b] # Null /\ s = Null
       /\ l \in {"acc_sock", "acc_nosock"} => b # Null /\ relS[b] = Null /\ s = Null
       /\ l = "acc_init" => b # Null /\ relS[b] = Null /\ s # Null
       /\ l = "acc_freeB" => b # Null /\ s # Null /\ relS[b] \in {Null, s}
       /\ l \in {"acc_freeS", "sweep"} => b = Null /\ s # Null

Control == \A t \in Threads : At(t)

\* A request in the kernel has the buffer its handlers were chosen for.
Posted == \A op \in ops : Fits(op.buf, op.sock) /\ Kind(op.buf) = op.kind

(***************************************************************************)
(* The buffers: whoever refers to one refers to a live one, no two refer   *)
(* to the same, and every live one is referred to.                         *)
(***************************************************************************)
BuffersLive ==
    /\ \A t \in Threads : myB[t] # Null => myB[t] \in LiveB
    /\ \A op \in ops : op.buf \in LiveB
    /\ \A x \in stalled : x[1] \in LiveB

BuffersApart ==
    /\ \A t, u \in Threads : myB[t] # Null /\ myB[t] = myB[u] => t = u
    /\ \A o, op \in ops : o.buf = op.buf => o = op
    /\ \A x, y \in stalled : x[1] = y[1] => x = y
    /\ \A t \in Threads, op \in ops : myB[t] # op.buf
    /\ \A t \in Threads, x \in stalled : myB[t] # x[1]
    /\ \A op \in ops, x \in stalled : op.buf # x[1]

BuffersHeld ==
    \A b \in LiveB : \/ \E t \in Threads : myB[t] = b
                     \/ \E op \in ops : op.buf = b
                     \/ \E x \in stalled : x[1] = b

Buffers ==
    /\ IsInjective(bFree)
    /\ ToSet(bFree) \subseteq bHeap
    /\ BuffersLive /\ BuffersApart /\ BuffersHeld

(***************************************************************************)
(* The socket objects, likewise.  One is owned by a buffer as its client's *)
(* (Client), by the request of an API call (ApiOp), or by a thread that    *)
(* sets it up or puts it away (Carries).                                   *)
(***************************************************************************)
Client(b) == b \in LiveB /\ relS[b] # Null /\ ~SocketGone(b)

ApiOp(op) == op.sock # relS[op.buf]

Carries(t) == /\ myS[t] # Null
              /\ pc[t] # "sweep"
              /\ myB[t] = Null \/ relS[myB[t]] # myS[t]

SocketsLive ==
    /\ \A b \in BObjs : Client(b) => relS[b] \in LiveS
    /\ \A op \in ops : ApiOp(op) => op.sock \in LiveS
    /\ \A t \in Threads : Carries(t) => myS[t] \in LiveS

SocketsApart ==
    /\ \A b, c \in BObjs : Client(b) /\ Client(c) /\ relS[b] = relS[c] => b = c
    /\ \A o, op \in ops : ApiOp(o) /\ ApiOp(op) /\ o.sock = op.sock => o = op
    /\ \A t, u \in Threads : Carries(t) /\ Carries(u) /\ myS[t] = myS[u] => t = u
    /\ \A b \in BObjs, op \in ops : Client(b) /\ ApiOp(op) => relS[b] # op.sock
    /\ \A b \in BObjs, t \in Threads : Client(b) /\ Carries(t) => relS[b] # myS[t]
    /\ \A op \in ops, t \in Threads : ApiOp(op) /\ Carries(t) => op.sock # myS[t]

SocketsHeld ==
    \A s \in LiveS : \/ \E b \in BObjs : Client(b) /\ relS[b] = s
                     \/ \E op \in ops : ApiOp(op) /\ op.sock = s
                     \/ \E t \in Threads : Carries(t) /\ myS[t] = s

Sockets ==
    /\ IsInjective(sFree)
    /\ ToSet(sFree) \subseteq sHeap
    /\ SocketsLive /\ SocketsApart /\ SocketsHeld

\* The accept that buffer b was posted for has not been handled yet.
Pending(b) ==
    \/ \E op \in ops : op.buf = b
    \/ \E t \in Threads : myB[t] = b /\ pc[t] \in Requesting \cup {"acc_remove"}

(***************************************************************************)
(* A buffer keeps the handlers of its accept until its socket is freed:    *)
(* what AcptMap lists is the socket of one that is still Pending.          *)
(***************************************************************************)
AcptListed ==
    \A p \in Ports, k \in Keys :
        acpt[p][k] # Null =>
            /\ nKey[acpt[p][k]] = k
            /\ \E b \in LiveB : /\ relS[b] = acpt[p][k]
                                /\ fn[b] = <<p, "Accept">>
                                /\ Pending(b)

IInv ==
    /\ TypeOK
    /\ Control /\ Posted
    /\ Buffers /\ Sockets
    /\ AcptListed /\ ConnMapSound
-----------------------------------------------------------------------------
\* What pop_back() does to a vector without duplicates.
LEMMA PopBack ==
    ASSUME NEW S, NEW q \in Seq(S), q # <<>>, IsInjective(q)
    PROVE  /\ Front(q) \in Seq(S)
           /\ Len(Front(q)) = Len(q) - 1
           /\ Last(q) \in S
           /\ Last(q) \in ToSet(q)
           /\ ToSet(Front(q)) = ToSet(q) \ {Last(q)}
           /\ IsInjective(Front(q))
<1> DEFINE n == Len(q)
<1>1. n \in Nat \ {0} /\ DOMAIN q = 1 .. n /\ \A i \in 1 .. n : q[i] \in S
  BY EmptySeq, LenProperties
<1>a. n \in Nat /\ n >= 1
  BY <1>1
<1>2. /\ Front(q) \in Seq(S)
      /\ Len(Front(q)) = n - 1
      /\ \A i \in 1 .. (n - 1) : Front(q)[i] = q[i]
  <2>1. \A i \in 1 .. (n - 1) : q[i] \in S
    BY <1>1
  <2> QED
    BY <1>1, <2>1, SubSeqProperties DEF Front
<1>3. DOMAIN Front(q) = 1 .. (n - 1)
  BY <1>1, <1>2, LenProperties
<1>4. Last(q) = q[n]
  BY DEF Last
<1>5. Last(q) \in S /\ Last(q) \in ToSet(q)
  BY <1>1, <1>4 DEF ToSet
<1>6. IsInjective(Front(q))
  BY <1>1, <1>2, <1>3 DEF IsInjective
<1>7. ToSet(Front(q)) = ToSet(q) \ {Last(q)}
  <2>1. ASSUME NEW x \in ToSet(Front(q)) PROVE x \in ToSet(q) \ {Last(q)}
    <3>1. PICK i \in 1 .. (n - 1) : x = q[i]
      BY <1>2, <1>3 DEF ToSet
    <3>2. i \in 1 .. n /\ n \in 1 .. n /\ i # n
      BY <1>a
    <3>3. q[i] # q[n]
      BY <3>2, <1>1 DEF IsInjective
    <3>4. q[i] \in ToSet(q)
      BY <3>2, <1>1 DEF ToSet
    <3> QED
      BY <3>1, <3>3, <3>4, <1>4
  <2>2. ASSUME NEW x \in ToSet(q) \ {Last(q)} PROVE x \in ToSet(Front(q))
    <3>1. PICK i \in 1 .. n : x = q[i]
      BY <1>1 DEF ToSet
    <3>2. i \in 1 .. (n - 1)
      BY <1>1, <1>4, <3>1, <2>2
    <3> QED
      BY <3>1, <3>2, <1>2, <1>3 DEF ToSet
  <2> QED
    BY <2>1, <2>2
<1> QED
  BY <1>2, <1>5, <1>6, <1>7

\* What push_back() of a new element does to a vector without duplicates.
LEMMA PushBack ==
    ASSUME NEW S, NEW q \in Seq(S), NEW x \in S, IsInjective(q), x \notin ToSet(q)
    PROVE  /\ Append(q, x) \in Seq(S)
           /\ ToSet(Append(q, x)) = ToSet(q) \cup {x}
           /\ IsInjective(Append(q, x))
           /\ Append(q, x) # <<>>
<1> DEFINE n == Len(q)
           r == Append(q, x)
<1>1. n \in Nat /\ DOMAIN q = 1 .. n
  BY LenProperties
<1>2. /\ r \in Seq(S)
      /\ Len(r) = n + 1
      /\ DOMAIN r = 1 .. (n + 1)
      /\ \A i \in 1 .. n : r[i] = q[i]
      /\ r[n + 1] = x
  BY <1>1
<1>3. ToSet(r) = ToSet(q) \cup {x}
  <2>1. ASSUME NEW y \in ToSet(r) PROVE y \in ToSet(q) \cup {x}
    <3>1. PICK i \in 1 .. (n + 1) : y = r[i]
      BY <1>2 DEF ToSet
    <3>2. i \in 1 .. n \/ i = n + 1
      BY <1>1
    <3> QED
      BY <3>1, <3>2, <1>1, <1>2 DEF ToSet
  <2>2. ASSUME NEW y \in ToSet(q) \cup {x} PROVE y \in ToSet(r)
    <3>1. (\E i \in 1 .. n : y = q[i]) \/ y = x
      BY <1>1 DEF ToSet
    <3>2. \A i \in 1 .. n : i \in 1 .. (n + 1)
      BY <1>1
    <3>3. n + 1 \in 1 .. (n + 1)
      BY <1>1
    <3> QED
      BY <3>1, <3>2, <3>3, <1>2 DEF ToSet
  <2> QED
    BY <2>1, <2>2
<1>4. IsInjective(r)
  <2> SUFFICES ASSUME NEW i \in 1 .. (n + 1), NEW j \in 1 .. (n + 1), r[i] = r[j]
               PROVE  i = j
    BY <1>2 DEF IsInjective
  <2>1. (i \in 1 .. n \/ i = n + 1) /\ (j \in 1 .. n \/ j = n + 1)
    BY <1>1
  <2>2. \A k \in 1 .. n : q[k] # x
    BY <1>1 DEF ToSet
  <2> QED
    BY <2>1, <2>2, <1>1, <1>2 DEF IsInjective
<1> QED
  BY <1>1, <1>2, <1>3, <1>4, EmptySeq

\* allocBObj and allocSObj: one object becomes live, and it was not before.
LEMMA TakeObject ==
    ASSUME NEW S, NEW q \in Seq(S), NEW h \in SUBSET S, NEW cap \in Nat,
           IsInjective(q), ToSet(q) \subseteq h, Len(q) <= cap,
           NEW x \in S, NEW q2, NEW h2,
           \/ q # <<>> /\ x = Last(q) /\ q2 = Front(q) /\ h2 = h
           \/ q = <<>> /\ x \notin h /\ h2 = h \cup {x} /\ q2 = q
    PROVE  /\ q2 \in Seq(S) /\ Len(q2) <= cap /\ h2 \subseteq S
           /\ IsInjective(q2) /\ ToSet(q2) \subseteq h2
           /\ x \notin h \ ToSet(q)
           /\ h2 \ ToSet(q2) = (h \ ToSet(q)) \cup {x}
<1>1. CASE q # <<>> /\ x = Last(q) /\ q2 = Front(q) /\ h2 = h
  <2>1. /\ q2 \in Seq(S) /\ x \in ToSet(q) /\ ToSet(q2) = ToSet(q) \ {x}
        /\ IsInjective(q2)
    BY <1>1, PopBack
  <2>2. Len(q) \in Nat /\ Len(q2) = Len(q) - 1
    BY <1>1, PopBack, LenProperties
  <2>3. Len(q2) <= cap
    BY <2>2
  <2> QED
    BY <1>1, <2>1, <2>3
<1>2. CASE q = <<>> /\ x \notin h /\ h2 = h \cup {x} /\ q2 = q
  BY <1>2
<1> QED
  BY <1>1, <1>2

\* freeBObj and freeSObj, when the list has room: the object goes to its back.
LEMMA ReturnObject ==
    ASSUME NEW S, NEW q \in Seq(S), NEW h \in SUBSET S, NEW cap \in Nat,
           IsInjective(q), ToSet(q) \subseteq h, Len(q) < cap,
           NEW x \in h, x \notin ToSet(q)
    PROVE  /\ Append(q, x) \in Seq(S) /\ Len(Append(q, x)) <= cap
           /\ IsInjective(Append(q, x)) /\ ToSet(Append(q, x)) \subseteq h
           /\ h \ ToSet(Append(q, x)) = (h \ ToSet(q)) \ {x}
<1>1. /\ Append(q, x) \in Seq(S) /\ ToSet(Append(q, x)) = ToSet(q) \cup {x}
      /\ IsInjective(Append(q, x))
  BY PushBack
<1>2. Len(q) \in Nat /\ Len(Append(q, x)) = Len(q) + 1
  BY AppendProperties, LenProperties
<1>3. Len(Append(q, x)) <= cap
  BY <1>2
<1> QED
  BY <1>1, <1>3

\* Null refers to no object.
LEMMA NullIsDead ==
    ASSUME TypeOK
    PROVE  Null \notin LiveB /\ LiveB \subseteq BObjs
           /\ Null \notin LiveS /\ LiveS \subseteq SObjs
BY ConnAssumption DEF TypeOK, LiveB, LiveS

-----------------------------------------------------------------------------
(* How a buffer changes hands *)

\* Nobody takes or gives a buffer.
LEMMA BuffersKept ==
    ASSUME Buffers, UNCHANGED <<bFree, bHeap, myB, ops, stalled>>
    PROVE  Buffers'
BY DEF Buffers, BuffersLive, BuffersApart, BuffersHeld, LiveB

\* A thread without a buffer gets one from allocBObj.
LEMMA BufferTaken ==
    ASSUME TypeOK, Buffers, NEW t \in Threads, myB[t] = Null, NEW b \in BObjs,
           \/ /\ bFree # <<>> /\ b = Last(bFree) /\ bFree' = Front(bFree)
              /\ UNCHANGED bHeap
           \/ /\ bFree = <<>> /\ b \notin bHeap /\ bHeap' = bHeap \cup {b}
              /\ UNCHANGED bFree,
           myB' = [myB EXCEPT ![t] = b], UNCHANGED <<ops, stalled>>
    PROVE  /\ Buffers'
           /\ bFree' \in Seq(BObjs) /\ Len(bFree') <= PoolCap /\ bHeap' \subseteq BObjs
           /\ b \notin LiveB /\ LiveB' = LiveB \cup {b}
<1>1. /\ bFree \in Seq(BObjs) /\ Len(bFree) <= PoolCap /\ bHeap \in SUBSET BObjs
      /\ PoolCap \in Nat /\ IsInjective(bFree) /\ ToSet(bFree) \subseteq bHeap
  BY ConnAssumption DEF TypeOK, Buffers
<1>2. /\ bFree' \in Seq(BObjs) /\ Len(bFree') <= PoolCap /\ bHeap' \subseteq BObjs
      /\ IsInjective(bFree') /\ ToSet(bFree') \subseteq bHeap'
      /\ b \notin LiveB /\ LiveB' = LiveB \cup {b}
  BY <1>1, TakeObject DEF LiveB
<1>3. /\ \A u \in Threads : myB'[u] = IF u = t THEN b ELSE myB[u]
      /\ b # Null
  BY ConnAssumption DEF TypeOK
<1>4. BuffersLive'
  BY <1>2, <1>3 DEF Buffers, BuffersLive
<1>5. BuffersApart'
  BY <1>2, <1>3 DEF Buffers, BuffersLive, BuffersApart
<1>6. BuffersHeld'
  BY <1>2, <1>3, NullIsDead DEF Buffers, BuffersHeld
<1> QED
  BY <1>2, <1>4, <1>5, <1>6 DEF Buffers

\* A thread gives its buffer to freeBObj.
LEMMA BufferGiven ==
    ASSUME TypeOK, Buffers, NEW t \in Threads, myB[t] # Null, freeBObj(myB[t]),
           myB' = [myB EXCEPT ![t] = Null], UNCHANGED <<ops, stalled>>
    PROVE  /\ Buffers'
           /\ bFree' \in Seq(BObjs) /\ Len(bFree') <= PoolCap /\ bHeap' \subseteq BObjs
           /\ LiveB' = LiveB \ {myB[t]}
<1>1. /\ bFree \in Seq(BObjs) /\ Len(bFree) <= PoolCap /\ bHeap \in SUBSET BObjs
      /\ PoolCap \in Nat /\ IsInjective(bFree) /\ ToSet(bFree) \subseteq bHeap
  BY ConnAssumption DEF TypeOK, Buffers
<1>2. myB[t] \in bHeap \ ToSet(bFree)
  BY DEF Buffers, BuffersLive, LiveB
<1>3. /\ bFree' \in Seq(BObjs) /\ Len(bFree') <= PoolCap /\ bHeap' \subseteq BObjs
      /\ IsInjective(bFree') /\ ToSet(bFree') \subseteq bHeap'
      /\ LiveB' = LiveB \ {myB[t]}
  <2>1. CASE Len(bFree) < PoolCap
    <3>1. bFree' = Append(bFree, myB[t]) /\ bHeap' = bHeap
      BY <2>1 DEF freeBObj
    <3>2. myB[t] \in bHeap /\ myB[t] \notin ToSet(bFree)
      BY <1>2
    <3> QED
      BY <1>1, <2>1, <3>1, <3>2, ReturnObject DEF LiveB
  <2>2. CASE ~(Len(bFree) < PoolCap)
    BY <1>1, <1>2, <2>2 DEF LiveB, freeBObj
  <2> QED
    BY <2>1, <2>2
<1>4. \A u \in Threads : myB'[u] = IF u = t THEN Null ELSE myB[u]
  BY DEF TypeOK
<1>5. BuffersLive'
  BY <1>3, <1>4 DEF Buffers, BuffersLive, BuffersApart
<1>6. BuffersApart'
  BY <1>3, <1>4, NullIsDead DEF Buffers, BuffersLive, BuffersApart
<1>7. BuffersHeld'
  BY <1>3, <1>4 DEF Buffers, BuffersHeld
<1> QED
  BY <1>3, <1>5, <1>6, <1>7 DEF Buffers

\* A thread hands its buffer to the kernel with a request.
LEMMA BufferPosted ==
    ASSUME TypeOK, Buffers, NEW t \in Threads, myB[t] # Null,
           NEW s \in SObjs, NEW k \in Kinds,
           ops' = ops \cup {Request(myB[t], s, k)},
           myB' = [myB EXCEPT ![t] = Null], UNCHANGED <<bFree, bHeap, stalled>>
    PROVE  Buffers'
<1>1. \A u \in Threads : myB'[u] = IF u = t THEN Null ELSE myB[u]
  BY DEF TypeOK
<1>2. LiveB' = LiveB
  BY DEF LiveB
<1>3. PICK r : r = Request(myB[t], s, k)
  OBVIOUS
<1>4. ops' = ops \cup {r} /\ r.buf = myB[t]
  BY <1>3 DEF Request
<1>5. BuffersLive'
  BY <1>1, <1>2, <1>4 DEF Buffers, BuffersLive
<1>6. BuffersApart'
  BY <1>1, <1>4, NullIsDead DEF Buffers, BuffersLive, BuffersApart
<1>7. BuffersHeld'
  BY <1>1, <1>2, <1>4 DEF Buffers, BuffersHeld
<1> QED
  BY <1>5, <1>6, <1>7 DEF Buffers

\* A worker gets the buffer of the request it dequeues.
LEMMA BufferDequeued ==
    ASSUME TypeOK, Buffers, NEW t \in Threads, myB[t] = Null, NEW op \in ops,
           ops' = ops \ {op},
           myB' = [myB EXCEPT ![t] = op.buf], UNCHANGED <<bFree, bHeap, stalled>>
    PROVE  Buffers'
<1>1. \A u \in Threads : myB'[u] = IF u = t THEN op.buf ELSE myB[u]
  BY DEF TypeOK
<1>2. LiveB' = LiveB
  BY DEF LiveB
<1>3. BuffersLive'
  BY <1>1, <1>2 DEF Buffers, BuffersLive
<1>4. BuffersApart'
  BY <1>1 DEF Buffers, BuffersApart
<1>5. BuffersHeld'
  BY <1>1, <1>2, NullIsDead DEF Buffers, BuffersHeld
<1> QED
  BY <1>3, <1>4, <1>5 DEF Buffers

\* A handler returns and leaves its buffer to nobody.
LEMMA BufferStalled ==
    ASSUME TypeOK, Buffers, NEW t \in Threads, myB[t] # Null, NEW why,
           stalled' = stalled \cup {<<myB[t], why>>},
           myB' = [myB EXCEPT ![t] = Null], UNCHANGED <<bFree, bHeap, ops>>
    PROVE  Buffers'
<1>1. \A u \in Threads : myB'[u] = IF u = t THEN Null ELSE myB[u]
  BY DEF TypeOK
<1>2. LiveB' = LiveB
  BY DEF LiveB
<1>3. PICK x : x = <<myB[t], why>>
  OBVIOUS
<1>4. stalled' = stalled \cup {x} /\ x[1] = myB[t]
  BY <1>3
<1>5. BuffersLive'
  BY <1>1, <1>2, <1>4 DEF Buffers, BuffersLive
<1>6. BuffersApart'
  BY <1>1, <1>4, NullIsDead DEF Buffers, BuffersLive, BuffersApart
<1>7. BuffersHeld'
  BY <1>1, <1>2, <1>4 DEF Buffers, BuffersHeld
<1> QED
  BY <1>5, <1>6, <1>7 DEF Buffers
-----------------------------------------------------------------------------
(* How a socket object changes hands *)

\* Nobody takes or gives a socket object.
LEMMA SocketsKept ==
    ASSUME Sockets, UNCHANGED <<sFree, sHeap>>,
           \A b \in BObjs : (Client(b)' <=> Client(b)) /\ (Client(b) => relS'[b] = relS[b]),
           \A op \in ops' : ApiOp(op)' => op \in ops /\ ApiOp(op),
           \A op \in ops : ApiOp(op) => op \in ops' /\ ApiOp(op)',
           \A u \in Threads : (Carries(u)' <=> Carries(u)) /\ (Carries(u) => myS'[u] = myS[u])
    PROVE  Sockets'
<1>0. LiveS' = LiveS
  BY DEF LiveS
<1>1. SocketsLive'
  BY <1>0 DEF Sockets, SocketsLive
<1>2. SocketsApart'
  BY <1>0 DEF Sockets, SocketsLive, SocketsApart
<1>3. SocketsHeld'
  BY <1>0 DEF Sockets, SocketsHeld
<1> QED
  BY <1>0, <1>1, <1>2, <1>3 DEF Sockets

\* A thread gets a new one.
LEMMA SocketTaken ==
    ASSUME Sockets, NEW t \in Threads, ~Carries(t), Carries(t)',
           NEW s \in SObjs \ LiveS, LiveS' = LiveS \cup {s}, myS'[t] = s,
           IsInjective(sFree'), ToSet(sFree') \subseteq sHeap',
           \A b \in BObjs : (Client(b)' <=> Client(b)) /\ (Client(b) => relS'[b] = relS[b]),
           \A op \in ops' : ApiOp(op)' => op \in ops /\ ApiOp(op),
           \A op \in ops : ApiOp(op) => op \in ops' /\ ApiOp(op)',
           \A u \in Threads : u # t => (Carries(u)' <=> Carries(u)) /\ (Carries(u) => myS'[u] = myS[u])
    PROVE  Sockets'
<1>1. SocketsLive'
  BY DEF Sockets, SocketsLive
<1>2. SocketsApart'
  BY DEF Sockets, SocketsLive, SocketsApart
<1>3. SocketsHeld'
  BY DEF Sockets, SocketsHeld
<1> QED
  BY <1>1, <1>2, <1>3 DEF Sockets

\* A thread frees the one it carries.
LEMMA CarriedGiven ==
    ASSUME Sockets, NEW t \in Threads, Carries(t), ~Carries(t)',
           LiveS' = LiveS \ {myS[t]},
           IsInjective(sFree'), ToSet(sFree') \subseteq sHeap',
           \A b \in BObjs : (Client(b)' <=> Client(b)) /\ (Client(b) => relS'[b] = relS[b]),
           \A op \in ops' : ApiOp(op)' => op \in ops /\ ApiOp(op),
           \A op \in ops : ApiOp(op) => op \in ops' /\ ApiOp(op)',
           \A u \in Threads : u # t => (Carries(u)' <=> Carries(u)) /\ (Carries(u) => myS'[u] = myS[u])
    PROVE  Sockets'
<1>1. SocketsLive'
  BY DEF Sockets, SocketsLive, SocketsApart
<1>2. SocketsApart'
  BY DEF Sockets, SocketsLive, SocketsApart
<1>3. SocketsHeld'
  BY DEF Sockets, SocketsHeld
<1> QED
  BY <1>1, <1>2, <1>3 DEF Sockets

\* The one of a client is freed.
LEMMA ClientGiven ==
    ASSUME Sockets, NEW c \in BObjs, Client(c), ~Client(c)',
           LiveS' = LiveS \ {relS[c]},
           IsInjective(sFree'), ToSet(sFree') \subseteq sHeap',
           \A b \in BObjs : b # c => (Client(b)' <=> Client(b)) /\ (Client(b) => relS'[b] = relS[b]),
           \A op \in ops' : ApiOp(op)' => op \in ops /\ ApiOp(op),
           \A op \in ops : ApiOp(op) => op \in ops' /\ ApiOp(op)',
           \A u \in Threads : (Carries(u)' <=> Carries(u)) /\ (Carries(u) => myS'[u] = myS[u])
    PROVE  Sockets'
<1>1. SocketsLive'
  BY DEF Sockets, SocketsLive, SocketsApart
<1>2. SocketsApart'
  BY DEF Sockets, SocketsLive, SocketsApart
<1>3. SocketsHeld'
  BY DEF Sockets, SocketsHeld
<1> QED
  BY <1>1, <1>2, <1>3 DEF Sockets

\* The one a thread carries becomes a client's, as PostAcceptEx links the two.
LEMMA CarriedToClient ==
    ASSUME Sockets, UNCHANGED <<sFree, sHeap>>,
           NEW t \in Threads, Carries(t), ~Carries(t)',
           NEW c \in BObjs, ~Client(c), Client(c)', relS'[c] = myS[t],
           \A b \in BObjs : b # c => (Client(b)' <=> Client(b)) /\ (Client(b) => relS'[b] = relS[b]),
           \A op \in ops' : ApiOp(op)' => op \in ops /\ ApiOp(op),
           \A op \in ops : ApiOp(op) => op \in ops' /\ ApiOp(op)',
           \A u \in Threads : u # t => (Carries(u)' <=> Carries(u)) /\ (Carries(u) => myS'[u] = myS[u])
    PROVE  Sockets'
<1>0. LiveS' = LiveS
  BY DEF LiveS
<1>1. SocketsLive'
  BY <1>0 DEF Sockets, SocketsLive
<1>2. SocketsApart'
  BY <1>0 DEF Sockets, SocketsLive, SocketsApart
<1>3. SocketsHeld'
  BY <1>0 DEF Sockets, SocketsHeld
<1> QED
  BY <1>0, <1>1, <1>2, <1>3 DEF Sockets

\* The thread that frees the buffer of a client keeps the socket object.
LEMMA ClientToCarried ==
    ASSUME Sockets, UNCHANGED <<sFree, sHeap>>,
           NEW t \in Threads, ~Carries(t), Carries(t)',
           NEW c \in BObjs, Client(c), ~Client(c)', myS'[t] = relS[c],
           \A b \in BObjs : b # c => (Client(b)' <=> Client(b)) /\ (Client(b) => relS'[b] = relS[b]),
           \A op \in ops' : ApiOp(op)' => op \in ops /\ ApiOp(op),
           \A op \in ops : ApiOp(op) => op \in ops' /\ ApiOp(op)',
           \A u \in Threads : u # t => (Carries(u)' <=> Carries(u)) /\ (Carries(u) => myS'[u] = myS[u])
    PROVE  Sockets'
<1>0. LiveS' = LiveS
  BY DEF LiveS
<1>1. SocketsLive'
  BY <1>0 DEF Sockets, SocketsLive
<1>2. SocketsApart'
  BY <1>0 DEF Sockets, SocketsLive, SocketsApart
<1>3. SocketsHeld'
  BY <1>0 DEF Sockets, SocketsHeld
<1> QED
  BY <1>0, <1>1, <1>2, <1>3 DEF Sockets

\* A request of an API call is posted.
LEMMA CarriedToOp ==
    ASSUME Sockets, UNCHANGED <<sFree, sHeap>>,
           NEW t \in Threads, Carries(t), ~Carries(t)',
           NEW o \in ops', o \notin ops, ApiOp(o)', o.sock = myS[t],
           \A b \in BObjs : (Client(b)' <=> Client(b)) /\ (Client(b) => relS'[b] = relS[b]),
           \A op \in ops' : op # o => (ApiOp(op)' => op \in ops /\ ApiOp(op)),
           \A op \in ops : ApiOp(op) => op \in ops' /\ ApiOp(op)',
           \A u \in Threads : u # t => (Carries(u)' <=> Carries(u)) /\ (Carries(u) => myS'[u] = myS[u])
    PROVE  Sockets'
<1>0. LiveS' = LiveS
  BY DEF LiveS
<1>1. SocketsLive'
  BY <1>0 DEF Sockets, SocketsLive
<1>2. SocketsApart'
  BY <1>0 DEF Sockets, SocketsLive, SocketsApart
<1>3. SocketsHeld'
  BY <1>0 DEF Sockets, SocketsHeld
<1> QED
  BY <1>0, <1>1, <1>2, <1>3 DEF Sockets

\* A request of an API call is dequeued.
LEMMA OpToCarried ==
    ASSUME Sockets, UNCHANGED <<sFree, sHeap>>,
           NEW t \in Threads, ~Carries(t), Carries(t)',
           NEW o \in ops, o \notin ops', ApiOp(o), myS'[t] = o.sock,
           \A b \in BObjs : (Client(b)' <=> Client(b)) /\ (Client(b) => relS'[b] = relS[b]),
           \A op \in ops' : ApiOp(op)' => op \in ops /\ ApiOp(op),
           \A op \in ops : op # o => (ApiOp(op) => op \in ops' /\ ApiOp(op)'),
           \A u \in Threads : u # t => (Carries(u)' <=> Carries(u)) /\ (Carries(u) => myS'[u] = myS[u])
    PROVE  Sockets'
<1>0. LiveS' = LiveS
  BY DEF LiveS
<1>1. SocketsLive'
  BY <1>0 DEF Sockets, SocketsLive
<1>2. SocketsApart'
  BY <1>0 DEF Sockets, SocketsLive, SocketsApart
<1>3. SocketsHeld'
  BY <1>0 DEF Sockets, SocketsHeld
<1> QED
  BY <1>0, <1>1, <1>2, <1>3 DEF Sockets

-----------------------------------------------------------------------------
(* What a step of one thread leaves as it is *)

\* A step of thread t that touches no buffer in use but its own.
OnlyOwn(t) ==
    /\ \A u \in Threads : u # t => /\ pc'[u] = pc[u] /\ want'[u] = want[u]
                                   /\ myB'[u] = myB[u] /\ myS'[u] = myS[u]
    /\ \A b \in LiveB : b # myB[t] => fn'[b] = fn[b] /\ relS'[b] = relS[b]

(***************************************************************************)
(* Such a step keeps what is known of the other threads and of the         *)
(* requests in the kernel.                                                 *)
(***************************************************************************)
LEMMA OthersKept ==
    ASSUME IInv, NEW t \in Threads, OnlyOwn(t), At(t)'
    PROVE  /\ Control'
           /\ \A op \in ops : Fits(op.buf, op.sock)' /\ Kind(op.buf)' = op.kind
           /\ \A op \in ops : ApiOp(op)' <=> ApiOp(op)
           /\ \A u \in Threads : u # t => (Carries(u)' <=> Carries(u))
<1>1. /\ \A u \in Threads : u # t /\ myB[u] # Null =>
             fn'[myB[u]] = fn[myB[u]] /\ relS'[myB[u]] = relS[myB[u]]
      /\ \A op \in ops : fn'[op.buf] = fn[op.buf] /\ relS'[op.buf] = relS[op.buf]
  BY DEF IInv, Buffers, BuffersLive, BuffersApart, OnlyOwn
<1>2. ASSUME NEW u \in Threads, u # t PROVE At(u)'
  <2>1. At(u)
    BY DEF IInv, Control
  <2>2. pc'[u] = pc[u] /\ want'[u] = want[u] /\ myB'[u] = myB[u] /\ myS'[u] = myS[u]
    BY <1>2 DEF OnlyOwn
  <2>3. CASE myB[u] = Null
    BY <2>1, <2>2, <2>3 DEF At, Requesting
  <2>4. CASE myB[u] # Null
    BY <1>1, <1>2, <2>1, <2>2, <2>4 DEF At, Fits, Family, Kind
  <2> QED
    BY <2>3, <2>4
<1>3. Control'
  BY <1>2 DEF Control
<1>4. \A op \in ops : Fits(op.buf, op.sock)' /\ Kind(op.buf)' = op.kind
  BY <1>1 DEF IInv, Posted, Fits, Family, Kind
<1>5. \A op \in ops : ApiOp(op)' <=> ApiOp(op)
  BY <1>1 DEF ApiOp
<1>6. \A u \in Threads : u # t => (Carries(u)' <=> Carries(u))
  BY <1>1 DEF Carries, OnlyOwn
<1> QED
  BY <1>3, <1>4, <1>5, <1>6

\* The threads that keep an accept or a connect on the lists.
Listing == Requesting \cup {"acc_remove"}

(***************************************************************************)
(* A step within a handler: the thread keeps its objects and moves on to   *)
(* label l, perhaps with other handlers for its buffer.  An entry that a   *)
(* map keeps is another's, or the thread still counts as its support.      *)
(***************************************************************************)
Within(t, l) ==
    /\ pc[t] \notin {"drop_freeB", "sweep"} /\ l \notin {"drop_freeB", "sweep"}
    /\ myB[t] # Null /\ l \in PCs
    /\ UNCHANGED <<bFree, bHeap, sFree, sHeap, relS, nKey, ops, myB, myS, stalled>>
    /\ pc' = [pc EXCEPT ![t] = l]
    /\ fn' \in [BObjs -> Fns] /\ \A b \in BObjs : b # myB[t] => fn'[b] = fn[b]
    /\ want' \in [Threads -> Kinds \cup {Null}]
    /\ \A u \in Threads : u # t => want'[u] = want[u]
    /\ sock' \in [SObjs -> {"open", "invalid"}]

AcptKept(t, l) ==
    /\ acpt' \in [Ports -> [Keys -> SObjs \cup {Null}]]
    /\ \A p \in Ports, k \in Keys : acpt'[p][k] # Null =>
         /\ acpt'[p][k] = acpt[p][k]
         /\ \/ relS[myB[t]] # acpt[p][k]
            \/ fn[myB[t]] # <<p, "Accept">>
            \/ pc[t] \notin Listing
            \/ fn'[myB[t]] = fn[myB[t]] /\ l \in Listing

ConnKept(t, l) ==
    /\ conn' \in [Keys -> SObjs \cup {Null}]
    /\ \A k \in Keys : conn'[k] # Null =>
         /\ conn'[k] = conn[k]
         /\ \/ myS[t] # conn[k]
            \/ fn[myB[t]] # <<"api", "Connect">>
            \/ pc[t] \notin Requesting
            \/ fn'[myB[t]] = fn[myB[t]] /\ l \in Requesting

\* Such a step keeps the invariant if the thread may be at l with what it has.
LEMMA HandlerStep ==
    ASSUME IInv, NEW t \in Threads, NEW l,
           Within(t, l), AcptKept(t, l), ConnKept(t, l), At(t)'
    PROVE  IInv'
<1> USE DEF Within, AcptKept, ConnKept
<1>1. TypeOK'
  BY DEF IInv, TypeOK
<1>2. Buffers'
  BY BuffersKept DEF IInv
<1>3. /\ \A u \in Threads : pc'[u] = IF u = t THEN l ELSE pc[u]
      /\ LiveB' = LiveB /\ LiveB \subseteq BObjs
  BY NullIsDead DEF IInv, TypeOK, LiveB
<1>4. /\ Control' /\ Posted'
      /\ \A op \in ops : ApiOp(op)' <=> ApiOp(op)
      /\ \A u \in Threads : u # t => (Carries(u)' <=> Carries(u))
  <2>1. OnlyOwn(t)
    BY <1>3 DEF OnlyOwn
  <2> QED
    BY <2>1, OthersKept DEF Posted
<1>5. \A b \in BObjs : Client(b)' <=> Client(b)
  BY <1>3 DEF Client, SocketGone
<1>6. Carries(t)' <=> Carries(t)
  BY <1>3 DEF Carries
<1>7. Sockets'
  BY <1>4, <1>5, <1>6, SocketsKept DEF IInv
<1>8. AcptListed'
  <2> SUFFICES ASSUME NEW p \in Ports, NEW k \in Keys, acpt'[p][k] # Null
               PROVE  /\ nKey'[acpt'[p][k]] = k
                      /\ \E b \in LiveB' : /\ relS'[b] = acpt'[p][k]
                                           /\ fn'[b] = <<p, "Accept">>
                                           /\ Pending(b)'
    BY DEF AcptListed
  <2>1. acpt'[p][k] = acpt[p][k] /\ nKey[acpt[p][k]] = k
    BY DEF IInv, AcptListed
  <2>2. PICK b \in LiveB : /\ relS[b] = acpt[p][k] /\ fn[b] = <<p, "Accept">>
                           /\ Pending(b)
    BY <2>1 DEF IInv, AcptListed
  <2>3. CASE b = myB[t]
    <3>1. \A op \in ops : op.buf # b
      BY <2>3 DEF IInv, Buffers, BuffersApart
    <3>2. \A u \in Threads : u # t => myB[u] # b
      BY <2>3 DEF IInv, Buffers, BuffersApart
    <3>3. pc[t] \in Listing
      BY <2>2, <3>1, <3>2 DEF Pending, Listing
    <3>4. fn'[b] = fn[b] /\ l \in Listing
      BY <2>2, <2>3, <3>3
    <3>5. Pending(b)'
      BY <1>3, <2>3, <3>4 DEF Pending, Listing
    <3> QED
      BY <1>3, <2>1, <2>2, <3>4, <3>5
  <2>4. CASE b # myB[t]
    <3>1. Pending(b)'
      BY <1>3, <2>2, <2>4 DEF Pending
    <3> QED
      BY <1>3, <2>1, <2>2, <2>4, <3>1
  <2> QED
    BY <2>3, <2>4
<1>9. ConnMapSound'
  <2> SUFFICES ASSUME NEW k \in Keys, conn'[k] # Null
               PROVE  /\ nKey'[conn'[k]] = k
                      /\ \/ \E op \in ops' : op.sock = conn'[k] /\ op.kind = "Connect"
                         \/ \E u \in Threads : /\ myS'[u] = conn'[k]
                                               /\ fn'[myB'[u]] = <<"api", "Connect">>
                                               /\ pc'[u] \in Requesting
    BY DEF ConnMapSound, Requesting
  <2>1. conn'[k] = conn[k] /\ nKey[conn[k]] = k
    BY DEF IInv, ConnMapSound
  <2>2. CASE \E op \in ops : op.sock = conn[k] /\ op.kind = "Connect"
    BY <2>1, <2>2
  <2>3. ASSUME NEW u \in Threads, myS[u] = conn[k], fn[myB[u]] = <<"api", "Connect">>,
               pc[u] \in Requesting
        PROVE  fn'[myB[u]] = <<"api", "Connect">> /\ pc'[u] \in Requesting
    <3>1. CASE u = t
      BY <1>3, <2>1, <2>3, <3>1
    <3>2. CASE u # t
      <4>1. myB[u] # Null
        BY <2>3 DEF IInv, Control, At
      <4>2. myB[u] \in LiveB /\ myB[u] # myB[t]
        BY <3>2, <4>1 DEF IInv, Buffers, BuffersLive, BuffersApart
      <4> QED
        BY <1>3, <2>3, <3>2, <4>2
    <3> QED
      BY <3>1, <3>2
  <2>4. \/ \E op \in ops : op.sock = conn[k] /\ op.kind = "Connect"
        \/ \E u \in Threads : /\ myS[u] = conn[k]
                              /\ fn[myB[u]] = <<"api", "Connect">>
                              /\ pc[u] \in Requesting
    BY <2>1 DEF IInv, ConnMapSound, Requesting
  <2> QED
    BY <2>1, <2>2, <2>3, <2>4
<1> QED
  BY <1>1, <1>2, <1>4, <1>7, <1>8, <1>9 DEF IInv

\* SetIoRequestFunction with a pair of handlers that suits the thread's objects.
LEMMA Repost ==
    ASSUME IInv, NEW t \in Threads, NEW f \in Families, NEW k \in Kinds,
           pc[t] \notin {"drop_freeB", "sweep"}, myB[t] # Null,
           SetIoRequestFunction(t, f, k), <<f, k>> \in HandlerPairs,
           relS[myB[t]] # Null, myS[t] # Null, f = "api" <=> myS[t] # relS[myB[t]],
           UNCHANGED <<memory, relS, sock, nKey, ops, myB, myS, stalled>>,
           AcptKept(t, "post"), ConnKept(t, "post")
    PROVE  IInv'
<1>1. myB[t] \in BObjs /\ <<f, k>> \in Fns
  BY DEF IInv, TypeOK, Fns
<1>2. /\ Within(t, "post")
      /\ pc'[t] = "post" /\ want'[t] = k /\ fn'[myB[t]] = <<f, k>>
  BY <1>1 DEF IInv, TypeOK, SetIoRequestFunction, GoTo, Within, PCs, memory
<1>3. At(t)'
  BY <1>2 DEF At, Fits, Family, Kind, Requesting, Within
<1> QED
  BY <1>2, <1>3, HandlerStep

\* The thread moves on with the same handlers for its buffer.
LEMMA MovesOn ==
    ASSUME IInv, NEW t \in Threads, NEW l \in PCs,
           l \notin {"drop_freeB", "sweep"}, pc[t] \notin {"drop_freeB", "sweep"},
           myB[t] # Null, GoTo(t, l),
           UNCHANGED <<memory, relS, fn, nKey, ops, locals, stalled>>,
           sock' \in [SObjs -> {"open", "invalid"}],
           pc'[t] = l => At(t)',
           AcptKept(t, l), ConnKept(t, l)
    PROVE  IInv'
<1>1. Within(t, l) /\ pc'[t] = l
  BY DEF IInv, TypeOK, GoTo, Within, memory, locals
<1> QED
  BY <1>1, HandlerStep

\* AcptMap stays as it is: the buffer was posted for no accept, or moves on with it.
LEMMA AcptAlone ==
    ASSUME IInv, UNCHANGED acpt, NEW t \in Threads, NEW l,
           \/ Kind(myB[t]) # "Accept" \/ pc[t] \notin Listing
           \/ UNCHANGED fn /\ l \in Listing
    PROVE  AcptKept(t, l)
BY DEF IInv, TypeOK, AcptKept, Kind

\* ConnMap, likewise.
LEMMA ConnAlone ==
    ASSUME IInv, UNCHANGED conn, NEW t \in Threads, NEW l,
           Kind(myB[t]) # "Connect" \/ pc[t] \notin Requesting
    PROVE  ConnKept(t, l)
BY DEF IInv, TypeOK, ConnKept, Kind

\* RemoveAcpt erases the entry of the thread's socket object.
LEMMA AcptErased ==
    ASSUME IInv, NEW t \in Threads, NEW f \in Ports, NEW l,
           RemoveAcpt(f, myS[t]), myS[t] # Null, relS[myB[t]] = myS[t],
           fn[myB[t]] = <<f, "Accept">>
    PROVE  AcptKept(t, l)
<1>1. /\ acpt \in [Ports -> [Keys -> SObjs \cup {Null}]] /\ nKey[myS[t]] \in Keys
      /\ acpt' = [acpt EXCEPT ![f][nKey[myS[t]]] = Null]
  BY DEF IInv, TypeOK, RemoveAcpt
<1>2. /\ acpt' \in [Ports -> [Keys -> SObjs \cup {Null}]]
      /\ acpt'[f][nKey[myS[t]]] = Null
      /\ \A p \in Ports, k \in Keys : acpt'[p][k] # Null => acpt'[p][k] = acpt[p][k]
  BY <1>1
<1>3. ASSUME NEW p \in Ports, NEW k \in Keys, acpt'[p][k] # Null
      PROVE  relS[myB[t]] # acpt[p][k] \/ fn[myB[t]] # <<p, "Accept">>
  <2>1. acpt'[p][k] = acpt[p][k] /\ nKey[acpt[p][k]] = k
    BY <1>2, <1>3 DEF IInv, AcptListed
  <2> QED
    BY <1>2, <1>3, <2>1
<1> QED
  BY <1>2, <1>3 DEF AcptKept

\* RemoveConn, likewise.
LEMMA ConnErased ==
    ASSUME IInv, NEW t \in Threads, NEW l, RemoveConn(myS[t]), myS[t] # Null
    PROVE  ConnKept(t, l)
<1>1. /\ conn \in [Keys -> SObjs \cup {Null}] /\ nKey[myS[t]] \in Keys
      /\ conn' = [conn EXCEPT ![nKey[myS[t]]] = Null]
  BY DEF IInv, TypeOK, RemoveConn
<1>2. /\ conn' \in [Keys -> SObjs \cup {Null}]
      /\ conn'[nKey[myS[t]]] = Null
      /\ \A k \in Keys : conn'[k] # Null => conn'[k] = conn[k]
  BY <1>1
<1>3. ASSUME NEW k \in Keys, conn'[k] # Null PROVE myS[t] # conn[k]
  <2>1. conn'[k] = conn[k] /\ nKey[conn[k]] = k
    BY <1>2, <1>3 DEF IInv, ConnMapSound
  <2> QED
    BY <1>2, <1>3, <2>1
<1> QED
  BY <1>2, <1>3 DEF ConnKept

\* What is in the hands of a worker that runs a handler.
LEMMA Running ==
    ASSUME IInv, NEW w \in Threads, pc[w] \in {"run_ok", "run_zero", "run_fail"}
    PROVE  /\ pc[w] \notin {"drop_freeB", "sweep"} /\ pc[w] \in Requesting
           /\ myB[w] # Null /\ myS[w] # Null /\ relS[myB[w]] # Null
           /\ fn[myB[w]] \in HandlerPairs
           /\ fn[myB[w]][1] = "api" <=> myS[w] # relS[myB[w]]
<1>1. myB[w] # Null /\ Fits(myB[w], myS[w])
  BY DEF IInv, Control, At, Requesting
<1> QED
  BY <1>1 DEF Fits, Family, Requesting

\* A client connection is dropped: its thread has its socket object.
LEMMA DropInv ==
    ASSUME IInv, NEW w \in Threads, pc[w] \notin {"drop_freeB", "sweep"},
           myB[w] # Null, myS[w] # Null, myS[w] = relS[myB[w]],
           Drop(w), UNCHANGED <<memory, relS, sock, nKey, ops, myB, myS, stalled>>,
           AcptKept(w, "drop_close"), ConnKept(w, "drop_close")
    PROVE  IInv'
<1>1. /\ GoTo(w, "drop_close") /\ UNCHANGED <<memory, relS, fn, nKey, ops, locals, stalled>>
      /\ sock' \in [SObjs -> {"open", "invalid"}]
  BY DEF Drop, locals, IInv, TypeOK
<1>2. pc'[w] = "drop_close" => At(w)'
  BY <1>1 DEF At, Requesting, locals
<1> QED
  BY <1>1, <1>2, MovesOn DEF PCs

\* A whole request is in the buffer of a client connection, or more is to come.
LEMMA MoreOrProcessInv ==
    ASSUME IInv, NEW w \in Threads, NEW f \in {"srv", "nc"},
           pc[w] \notin {"drop_freeB", "sweep"},
           myB[w] # Null, myS[w] # Null, myS[w] = relS[myB[w]],
           MoreOrProcess(w, f), UNCHANGED <<memory, relS, sock, nKey, ops, myB, myS, stalled>>,
           AcptKept(w, "post"), AcptKept(w, "process"),
           ConnKept(w, "post"), ConnKept(w, "process")
    PROVE  IInv'
<1>1. CASE SetIoRequestFunction(w, f, "Zero")
  BY <1>1, Repost DEF HandlerPairs, Families, Kinds
<1>2. CASE GoTo(w, "process") /\ UNCHANGED <<fn, want>>
  <2>1. /\ UNCHANGED <<memory, relS, fn, nKey, ops, locals, stalled>>
        /\ sock' \in [SObjs -> {"open", "invalid"}]
    BY <1>2 DEF locals, IInv, TypeOK
  <2>2. pc'[w] = "process" => At(w)'
    BY <2>1 DEF At, Requesting, locals
  <2> QED
    BY <1>2, <2>1, <2>2, MovesOn DEF PCs
<1> QED
  BY <1>1, <1>2 DEF MoreOrProcess

-----------------------------------------------------------------------------
(* The handlers of the two listening ports *)

\* AcceptCompFailed, NC_AcceptCompFailed.
LEMMA OnAcceptFailedInv ==
    ASSUME IInv, NEW w \in Threads, NEW f \in {"srv", "nc"}, OnAcceptFailed(w, f)
    PROVE  IInv'
<1>1. pc[w] \in {"run_ok", "run_zero", "run_fail"} /\ fn[myB[w]] = <<f, "Accept">>
  BY DEF OnAcceptFailed, Runs
<1>2. /\ myB[w] # Null /\ myS[w] # Null /\ myS[w] = relS[myB[w]] /\ f \in Ports
      /\ pc[w] \notin {"drop_freeB", "sweep"} /\ fn[myB[w]] = <<f, "Accept">>
      /\ Kind(myB[w]) = "Accept"
  BY <1>1, Running DEF HandlerPairs, Kind
<1>3. AcptKept(w, "drop_close") /\ ConnKept(w, "drop_close")
  BY <1>2, AcptErased, ConnAlone DEF OnAcceptFailed
<1> QED
  BY <1>2, <1>3, DropInv DEF OnAcceptFailed

\* AcceptCompSuccess, NC_AcceptCompSuccess.
LEMMA AcceptSuccessInv ==
    ASSUME IInv, NEW w \in Threads, AcceptCompSuccess(w) \/ NC_AcceptCompSuccess(w)
    PROVE  IInv'
<1>1. ASSUME NEW f \in {"srv", "nc"}, Runs(w, f, "Accept", {"run_ok"}),
             RemoveAcpt(f, myS[w]), MoreOrProcess(w, f) \/ Drop(w),
             UNCHANGED <<memory, relS, sock, nKey, conn, ops, myB, myS, stalled>>
      PROVE  IInv'
  <2>1. /\ myB[w] # Null /\ myS[w] # Null /\ myS[w] = relS[myB[w]] /\ f \in Ports
        /\ pc[w] \notin {"drop_freeB", "sweep"} /\ fn[myB[w]] = <<f, "Accept">>
        /\ Kind(myB[w]) = "Accept"
    BY <1>1, Running DEF HandlerPairs, Runs, Kind
  <2>2. \A l : AcptKept(w, l)
    BY <1>1, <2>1, AcptErased
  <2>3. \A l : ConnKept(w, l)
    BY <1>1, <2>1, ConnAlone
  <2>4. CASE MoreOrProcess(w, f)
    BY <1>1, <2>1, <2>2, <2>3, <2>4, MoreOrProcessInv
  <2>5. CASE Drop(w)
    BY <1>1, <2>1, <2>2, <2>3, <2>5, DropInv
  <2> QED
    BY <1>1, <2>4, <2>5
<1>2. CASE AcceptCompSuccess(w)
  BY <1>1, <1>2 DEF AcceptCompSuccess
<1>3. CASE NC_AcceptCompSuccess(w)
  BY <1>1, <1>3 DEF NC_AcceptCompSuccess
<1> QED
  BY <1>2, <1>3

\* A request of a client connection failed, or moved no data where it should.
LEMMA OnFailedInv ==
    ASSUME IInv, NEW w \in Threads, NEW f \in {"srv", "nc"},
           NEW k \in {"Zero", "Recv", "Send"},
           NEW labels \in SUBSET {"run_ok", "run_zero", "run_fail"}, OnFailed(w, f, k, labels)
    PROVE  IInv'
<1>1. /\ myB[w] # Null /\ myS[w] # Null /\ myS[w] = relS[myB[w]]
      /\ pc[w] \notin {"drop_freeB", "sweep"} /\ Kind(myB[w]) \notin {"Accept", "Connect"}
  <2>1. pc[w] \in {"run_ok", "run_zero", "run_fail"} /\ fn[myB[w]] = <<f, k>>
    BY DEF OnFailed, Runs
  <2> QED
    BY <2>1, Running DEF Kind
<1>2. AcptKept(w, "drop_close") /\ ConnKept(w, "drop_close")
  BY <1>1, AcptAlone, ConnAlone DEF OnFailed
<1> QED
  BY <1>1, <1>2, DropInv DEF OnFailed

\* Data has arrived: the zero-byte receive is followed by a real one.
LEMMA OnZeroRecvInv ==
    ASSUME IInv, NEW w \in Threads, NEW f \in Families, OnZeroRecv(w, f)
    PROVE  IInv'
<1>1. pc[w] \in {"run_ok", "run_zero", "run_fail"} /\ fn[myB[w]] = <<f, "Zero">>
  BY DEF OnZeroRecv, Runs
<1>2. /\ myB[w] # Null /\ myS[w] # Null /\ relS[myB[w]] # Null
      /\ f = "api" <=> myS[w] # relS[myB[w]]
      /\ pc[w] \notin {"drop_freeB", "sweep"} /\ Kind(myB[w]) \notin {"Accept", "Connect"}
  BY <1>1, Running DEF Kind
<1>3. AcptKept(w, "post") /\ ConnKept(w, "post")
  BY <1>2, AcptAlone, ConnAlone DEF OnZeroRecv
<1>4. "Recv" \in Kinds /\ <<f, "Recv">> \in HandlerPairs
  BY DEF Kinds, HandlerPairs, Families
<1> QED
  BY <1>2, <1>3, <1>4, Repost DEF OnZeroRecv

\* A reply has been sent, in part or whole.
LEMMA OnSendInv ==
    ASSUME IInv, NEW w \in Threads, NEW f \in {"srv", "nc"}, OnSend(w, f)
    PROVE  IInv'
<1>1. pc[w] \in {"run_ok", "run_zero", "run_fail"} /\ fn[myB[w]] = <<f, "Send">>
  BY DEF OnSend, Runs
<1>2. /\ myB[w] # Null /\ myS[w] # Null /\ relS[myB[w]] # Null
      /\ f = "api" <=> myS[w] # relS[myB[w]]
      /\ pc[w] \notin {"drop_freeB", "sweep"} /\ Kind(myB[w]) \notin {"Accept", "Connect"}
  BY <1>1, Running DEF Kind
<1>3. AcptKept(w, "post") /\ ConnKept(w, "post")
  BY <1>2, AcptAlone, ConnAlone DEF OnSend
<1>4. /\ f \in Families /\ {"Send", "Zero"} \subseteq Kinds
      /\ {<<f, "Send">>, <<f, "Zero">>} \subseteq HandlerPairs
  BY DEF Kinds, HandlerPairs, Families
<1> QED
  BY <1>2, <1>3, <1>4, Repost DEF OnSend

\* RecvCompSuccess, NC_RecvCompSuccess.
LEMMA RecvSuccessInv ==
    ASSUME IInv, NEW w \in Threads, RecvCompSuccess(w) \/ NC_RecvCompSuccess(w)
    PROVE  IInv'
<1>1. ASSUME NEW f \in {"srv", "nc"}, Runs(w, f, "Recv", {"run_ok"}),
             MoreOrProcess(w, f) \/ Drop(w),
             UNCHANGED <<memory, relS, sock, nKey, acpt, conn, ops, myB, myS, stalled>>
      PROVE  IInv'
  <2>1. /\ myB[w] # Null /\ myS[w] # Null /\ myS[w] = relS[myB[w]]
        /\ pc[w] \notin {"drop_freeB", "sweep"} /\ Kind(myB[w]) \notin {"Accept", "Connect"}
    BY <1>1, Running DEF Runs, Kind
  <2>2. \A l : AcptKept(w, l) /\ ConnKept(w, l)
    BY <1>1, <2>1, AcptAlone, ConnAlone
  <2>3. CASE MoreOrProcess(w, f)
    BY <1>1, <2>1, <2>2, <2>3, MoreOrProcessInv
  <2>4. CASE Drop(w)
    BY <1>1, <2>1, <2>2, <2>4, DropInv
  <2> QED
    BY <1>1, <2>3, <2>4
<1>2. CASE RecvCompSuccess(w)
  BY <1>1, <1>2 DEF RecvCompSuccess
<1>3. CASE NC_RecvCompSuccess(w)
  BY <1>1, <1>3 DEF NC_RecvCompSuccess
<1> QED
  BY <1>2, <1>3

\* A notification is answered.
LEMMA doNcDataInv ==
    ASSUME IInv, NEW w \in Threads, doNcData(w)
    PROVE  IInv'
<1>1. pc[w] = "process"
  BY DEF doNcData
<1>2. myB[w] # Null /\ myS[w] # Null /\ myS[w] = relS[myB[w]]
  BY <1>1 DEF IInv, Control, At
<1>3. AcptKept(w, "post") /\ ConnKept(w, "post")
  BY <1>1, AcptAlone, ConnAlone DEF doNcData, Listing, Requesting
<1>4. "nc" \in Families /\ "Send" \in Kinds /\ <<"nc", "Send">> \in HandlerPairs
  BY DEF Families, Kinds, HandlerPairs
<1> QED
  BY <1>1, <1>2, <1>3, <1>4, Repost DEF doNcData

-----------------------------------------------------------------------------
(* Steps that keep the thread's objects: API calls, failures, closing *)

\* A step that leaves both maps alone, of a thread with no entry in them.
LEMMA QuietMove ==
    ASSUME IInv, NEW t \in Threads, NEW l \in PCs,
           l \notin {"drop_freeB", "sweep"}, pc[t] \notin {"drop_freeB", "sweep"},
           pc[t] \notin Listing, myB[t] # Null, GoTo(t, l),
           UNCHANGED <<memory, relS, fn, nKey, acpt, conn, ops, locals, stalled>>,
           sock' \in [SObjs -> {"open", "invalid"}],
           pc'[t] = l => At(t)'
    PROVE  IInv'
<1>1. AcptKept(t, l) /\ ConnKept(t, l)
  BY AcptAlone, ConnAlone DEF Listing
<1> QED
  BY <1>1, MovesOn

\* WSARecv, WSASend, ConnectEx or AcceptEx fail at once.
LEMMA PostFailsInv ==
    ASSUME IInv, NEW t \in Threads, PostFails(t)
    PROVE  IInv'
<1>1. pc[t] = "post"
  BY DEF PostFails
<1>2. /\ myB[t] # Null /\ myS[t] # Null /\ relS[myB[t]] # Null
      /\ fn[myB[t]] \in HandlerPairs /\ Kind(myB[t]) = want[t]
      /\ Family(myB[t]) = "api" <=> myS[t] # relS[myB[t]]
  BY <1>1 DEF IInv, Control, At, Requesting, Fits
<1>3. /\ UNCHANGED <<memory, relS, fn, nKey, ops, locals, stalled>>
      /\ sock' \in [SObjs -> {"open", "invalid"}]
  BY DEF PostFails, fields, IInv, TypeOK
<1>4. \A l : ConnKept(t, l)
  <2>1. CASE want[t] = "Connect"
    BY <1>2, <2>1, ConnErased DEF PostFails
  <2>2. CASE want[t] # "Connect"
    BY <1>2, <2>2, ConnAlone DEF PostFails
  <2> QED
    BY <2>1, <2>2
<1>5. CASE want[t] = "Accept"
  <2>1. GoTo(t, "acc_remove")
    BY <1>5 DEF PostFails
  <2>2. fn[myB[t]] \in Ports \X {"Accept"} /\ myS[t] = relS[myB[t]]
    BY <1>2, <1>5, ConnAssumption DEF HandlerPairs, Kind, Family
  <2>3. pc'[t] = "acc_remove" => At(t)'
    BY <1>2, <1>3, <2>2 DEF At, Requesting, locals
  <2>4. AcptKept(t, "acc_remove")
    BY <1>3, AcptAlone DEF Listing, PostFails
  <2> QED
    BY <1>1, <1>2, <1>3, <1>4, <2>1, <2>3, <2>4, MovesOn DEF PCs
<1>6. CASE want[t] # "Accept"
  <2>1. \A l : AcptKept(t, l)
    BY <1>2, <1>6, AcptAlone DEF PostFails
  <2>2. CASE Family(myB[t]) = "api"
    <3>1. GoTo(t, "api_close")
      BY <1>6, <2>2 DEF PostFails
    <3>2. pc'[t] = "api_close" => At(t)'
      BY <1>2, <1>3, <2>2 DEF At, Requesting, locals
    <3> QED
      BY <1>1, <1>2, <1>3, <1>4, <2>1, <3>1, <3>2, MovesOn DEF PCs
  <2>3. CASE Family(myB[t]) # "api"
    <3>1. GoTo(t, "drop_close")
      BY <1>6, <2>3 DEF PostFails
    <3>2. pc'[t] = "drop_close" => At(t)'
      BY <1>2, <1>3, <2>3 DEF At, Requesting, locals
    <3> QED
      BY <1>1, <1>2, <1>3, <1>4, <2>1, <3>1, <3>2, MovesOn DEF PCs
  <2> QED
    BY <2>2, <2>3
<1> QED
  BY <1>5, <1>6

\* CSCloseSocket: the object stays with the thread.
LEMMA CSCloseSocketInv ==
    ASSUME IInv, NEW t \in Threads, CSCloseSocket(t)
    PROVE  IInv'
<1>1. /\ pc[t] \in {"drop_close", "api_close", "end_close"}
      /\ UNCHANGED <<memory, relS, fn, nKey, acpt, conn, ops, locals, stalled>>
      /\ sock' \in [SObjs -> {"open", "invalid"}]
  BY DEF CSCloseSocket, IInv, TypeOK
<1>2. /\ myB[t] # Null /\ myS[t] # Null /\ relS[myB[t]] # Null
      /\ pc[t] = "drop_close" => myS[t] = relS[myB[t]]
      /\ pc[t] # "drop_close" => myS[t] # relS[myB[t]]
  BY <1>1 DEF IInv, Control, At
<1>3. ASSUME NEW l \in {"drop_freeS", "api_freeS", "end_freeS"}, GoTo(t, l),
             l = "drop_freeS" <=> pc[t] = "drop_close"
      PROVE  IInv'
  <2>1. pc'[t] = l => At(t)'
    BY <1>1, <1>2, <1>3 DEF At, Requesting, locals
  <2>2. l \in PCs /\ pc[t] \notin Listing
    BY <1>1, <1>3 DEF PCs, Listing, Requesting
  <2> QED
    BY <1>1, <1>2, <1>3, <2>1, <2>2, QuietMove
<1> QED
  BY <1>1, <1>3 DEF CSCloseSocket

\* A request of an API call failed.
LEMMA OnApiFailedInv ==
    ASSUME IInv, NEW w \in Threads, NEW k \in {"Connect", "Zero", "Recv", "Send"},
           NEW labels \in SUBSET {"run_ok", "run_zero", "run_fail"}, OnApiFailed(w, k, labels)
    PROVE  IInv'
<1>1. pc[w] \in {"run_ok", "run_zero", "run_fail"} /\ fn[myB[w]] = <<"api", k>>
  BY DEF OnApiFailed, Runs
<1>2. /\ myB[w] # Null /\ myS[w] # Null /\ relS[myB[w]] # Null
      /\ myS[w] # relS[myB[w]] /\ Kind(myB[w]) = k
      /\ pc[w] \notin {"drop_freeB", "sweep"}
  BY <1>1, Running DEF Kind
<1>3. /\ UNCHANGED <<memory, relS, fn, nKey, ops, locals, stalled>>
      /\ sock' \in [SObjs -> {"open", "invalid"}] /\ GoTo(w, "api_close")
  BY DEF OnApiFailed, fields, IInv, TypeOK
<1>4. ConnKept(w, "api_close")
  <2>1. CASE k = "Connect"
    BY <1>2, <2>1, ConnErased DEF OnApiFailed
  <2>2. CASE k # "Connect"
    BY <1>2, <2>2, ConnAlone DEF OnApiFailed
  <2> QED
    BY <2>1, <2>2
<1>5. AcptKept(w, "api_close")
  BY <1>2, AcptAlone DEF OnApiFailed
<1>6. pc'[w] = "api_close" => At(w)'
  BY <1>2, <1>3 DEF At, Requesting, locals
<1> QED
  BY <1>2, <1>3, <1>4, <1>5, <1>6, MovesOn DEF PCs

\* Bytes of the API request went out.
LEMMA OnApiSentInv ==
    ASSUME IInv, NEW w \in Threads, NEW k \in {"Connect", "Send"}, OnApiSent(w, k)
    PROVE  IInv'
<1>1. pc[w] \in {"run_ok", "run_zero", "run_fail"} /\ fn[myB[w]] = <<"api", k>>
  BY DEF OnApiSent, Runs
<1>2. /\ myB[w] # Null /\ myS[w] # Null /\ relS[myB[w]] # Null
      /\ myS[w] # relS[myB[w]] /\ Kind(myB[w]) = k
      /\ pc[w] \notin {"drop_freeB", "sweep"}
  BY <1>1, Running DEF Kind
<1>3. ConnKept(w, "post")
  <2>1. CASE k = "Connect"
    BY <1>2, <2>1, ConnErased DEF OnApiSent
  <2>2. CASE k # "Connect"
    BY <1>2, <2>2, ConnAlone DEF OnApiSent
  <2> QED
    BY <2>1, <2>2
<1>4. AcptKept(w, "post")
  BY <1>2, AcptAlone DEF OnApiSent
<1>5. /\ "api" \in Families /\ {"Send", "Zero"} \subseteq Kinds
      /\ {<<"api", "Send">>, <<"api", "Zero">>} \subseteq HandlerPairs
  BY DEF Kinds, HandlerPairs, Families
<1> QED
  BY <1>2, <1>3, <1>4, <1>5, Repost DEF OnApiSent

\* Part of the API's answer, or its end.
LEMMA API_RecvCompSuccessInv ==
    ASSUME IInv, NEW w \in Threads, API_RecvCompSuccess(w)
    PROVE  IInv'
<1>1. pc[w] \in {"run_ok", "run_zero", "run_fail"} /\ fn[myB[w]] = <<"api", "Recv">>
  BY DEF API_RecvCompSuccess, Runs
<1>2. /\ myB[w] # Null /\ myS[w] # Null /\ relS[myB[w]] # Null
      /\ myS[w] # relS[myB[w]] /\ Kind(myB[w]) = "Recv"
      /\ pc[w] \notin {"drop_freeB", "sweep"}
  BY <1>1, Running DEF Kind
<1>3. \A l : AcptKept(w, l) /\ ConnKept(w, l)
  BY <1>2, AcptAlone, ConnAlone DEF API_RecvCompSuccess
<1>4. CASE pc[w] = "run_zero"
  <2>1. /\ UNCHANGED <<memory, relS, fn, nKey, ops, locals, stalled>>
        /\ sock' \in [SObjs -> {"open", "invalid"}] /\ GoTo(w, "end_close")
    BY <1>4 DEF API_RecvCompSuccess, locals, IInv, TypeOK
  <2>2. pc'[w] = "end_close" => At(w)'
    BY <1>2, <2>1 DEF At, Requesting, locals
  <2> QED
    BY <1>2, <1>3, <2>1, <2>2, MovesOn DEF PCs
<1>5. CASE pc[w] # "run_zero"
  <2>1. "api" \in Families /\ "Zero" \in Kinds /\ <<"api", "Zero">> \in HandlerPairs
    BY DEF Kinds, HandlerPairs, Families
  <2> QED
    BY <1>2, <1>3, <1>5, <2>1, Repost DEF API_RecvCompSuccess
<1> QED
  BY <1>4, <1>5

-----------------------------------------------------------------------------
(* Steps that take or give objects *)

\* Nobody else starts or ends the freeing of a client connection.
LEMMA GoneKept ==
    ASSUME NEW t \in Threads, OnlyOwn(t), pc[t] # "drop_freeB", pc'[t] # "drop_freeB"
    PROVE  \A b \in BObjs : SocketGone(b)' <=> SocketGone(b)
BY DEF OnlyOwn, SocketGone

\* What makes an entry of AcptMap, or of ConnMap, a sound one.
AcptSupport(p, s) ==
    \E b \in LiveB : relS[b] = s /\ fn[b] = <<p, "Accept">> /\ Pending(b)

ConnSupport(s) ==
    \/ \E op \in ops : op.sock = s /\ op.kind = "Connect"
    \/ \E u \in Threads : /\ myS[u] = s /\ fn[myB[u]] = <<"api", "Connect">>
                          /\ pc[u] \in Requesting

\* A step of a thread that supports no entry of the maps leaves the others' support.
LEMMA SupportKept ==
    ASSUME IInv, NEW t \in Threads, OnlyOwn(t), pc[t] \notin Listing,
           LiveB \ {myB[t]} \subseteq LiveB', ops \subseteq ops'
    PROVE  /\ \A p \in Ports, s \in SObjs : AcptSupport(p, s) => AcptSupport(p, s)'
           /\ \A s \in SObjs : ConnSupport(s) => ConnSupport(s)'
<1>1. ASSUME NEW p \in Ports, NEW s \in SObjs, AcptSupport(p, s)
      PROVE  AcptSupport(p, s)'
  <2>1. PICK b \in LiveB : relS[b] = s /\ fn[b] = <<p, "Accept">> /\ Pending(b)
    BY <1>1 DEF AcptSupport
  <2>2. b # myB[t]
    <3>1. SUFFICES ASSUME b = myB[t] PROVE FALSE
      OBVIOUS
    <3>2. b # Null
      BY NullIsDead DEF IInv
    <3>3. /\ \A op \in ops : op.buf # b
          /\ \A u \in Threads : myB[u] = b => u = t
      BY <3>1, <3>2 DEF IInv, Buffers, BuffersApart
    <3> QED
      BY <2>1, <3>3 DEF Pending, Listing
  <2>3. Pending(b)'
    BY <2>1, <2>2 DEF Pending, OnlyOwn
  <2>4. b \in LiveB' /\ relS'[b] = relS[b] /\ fn'[b] = fn[b]
    BY <2>2 DEF OnlyOwn
  <2> QED
    BY <2>1, <2>3, <2>4 DEF AcptSupport
<1>2. ASSUME NEW s \in SObjs, ConnSupport(s)
      PROVE  ConnSupport(s)'
  <2>1. ASSUME NEW u \in Threads, myS[u] = s, fn[myB[u]] = <<"api", "Connect">>,
               pc[u] \in Requesting
        PROVE  /\ myS'[u] = s /\ fn'[myB'[u]] = <<"api", "Connect">>
               /\ pc'[u] \in Requesting
    <3>1. u # t /\ myB[u] # Null
      BY <2>1 DEF IInv, Control, At, Listing
    <3>2. myB[u] \in LiveB /\ myB[u] # myB[t]
      BY <3>1 DEF IInv, Buffers, BuffersLive, BuffersApart
    <3> QED
      BY <2>1, <3>1, <3>2 DEF OnlyOwn
  <2> QED
    BY <1>2, <2>1 DEF ConnSupport
<1> QED
  BY <1>1, <1>2

\* The soundness of the maps in these terms.
LEMMA MapsBySupport ==
    ASSUME TypeOK
    PROVE  /\ AcptListed <=> \A p \in Ports, k \in Keys : acpt[p][k] # Null =>
                  nKey[acpt[p][k]] = k /\ AcptSupport(p, acpt[p][k])
           /\ ConnMapSound <=> \A k \in Keys : conn[k] # Null =>
                  nKey[conn[k]] = k /\ ConnSupport(conn[k])
<1>1. AcptListed <=> \A p \in Ports, k \in Keys : acpt[p][k] # Null =>
          nKey[acpt[p][k]] = k /\ AcptSupport(p, acpt[p][k])
  BY DEF AcptListed, AcptSupport
<1>2. ConnMapSound <=> \A k \in Keys : conn[k] # Null =>
          nKey[conn[k]] = k /\ ConnSupport(conn[k])
  BY DEF ConnMapSound, ConnSupport, Requesting
<1> QED
  BY <1>1, <1>2

\* With the maps and the keys as they were, such a step leaves the maps sound.
LEMMA MapsKept ==
    ASSUME IInv, NEW t \in Threads, OnlyOwn(t), pc[t] \notin Listing,
           LiveB \ {myB[t]} \subseteq LiveB', ops \subseteq ops',
           UNCHANGED <<nKey, acpt, conn>>
    PROVE  AcptListed' /\ ConnMapSound'
<1>1. /\ \A p \in Ports, k \in Keys : acpt[p][k] # Null =>
           acpt[p][k] \in SObjs /\ nKey[acpt[p][k]] = k /\ AcptSupport(p, acpt[p][k])
      /\ \A k \in Keys : conn[k] # Null =>
           conn[k] \in SObjs /\ nKey[conn[k]] = k /\ ConnSupport(conn[k])
  BY MapsBySupport DEF IInv, TypeOK
<1>2. /\ \A p \in Ports, k \in Keys : acpt[p][k] # Null =>
           nKey[acpt[p][k]] = k /\ AcptSupport(p, acpt[p][k])'
      /\ \A k \in Keys : conn[k] # Null => nKey[conn[k]] = k /\ ConnSupport(conn[k])'
  BY <1>1, SupportKept
<1>3. AcptListed'
  BY <1>2 DEF AcptListed, AcptSupport
<1>4. ConnMapSound'
  BY <1>2 DEF ConnMapSound, ConnSupport, Requesting
<1> QED
  BY <1>3, <1>4

\* DealTail: the thread turns to the client's socket object.
LEMMA DealTailInv ==
    ASSUME IInv, NEW w \in Threads, DealTail(w)
    PROVE  IInv'
<1>1. pc[w] = "reply"
  BY DEF DealTail
<1>2. /\ myB[w] # Null /\ relS[myB[w]] # Null /\ myS[w] \in {Null, relS[myB[w]]}
      /\ myB[w] \in BObjs /\ relS[myB[w]] \in SObjs
  BY <1>1 DEF IInv, Control, At, TypeOK
<1>3. <<"srv", "Send">> \in Fns /\ "Send" \in Kinds /\ "post" \in PCs
  BY DEF Fns, Families, Kinds, PCs
<1>4. /\ pc' = [pc EXCEPT ![w] = "post"] /\ want' = [want EXCEPT ![w] = "Send"]
      /\ fn' = [fn EXCEPT ![myB[w]] = <<"srv", "Send">>]
      /\ myS' = [myS EXCEPT ![w] = relS[myB[w]]]
      /\ UNCHANGED <<bFree, sFree, bHeap, sHeap, relS, sock, nKey, acpt, conn, ops, myB,
                     stalled>>
  BY DEF DealTail, SetIoRequestFunction, GoTo, memory
<1>5. TypeOK'
  BY <1>2, <1>3, <1>4 DEF IInv, TypeOK
<1>6. /\ OnlyOwn(w) /\ pc'[w] = "post" /\ want'[w] = "Send" /\ fn'[myB[w]] = <<"srv", "Send">>
      /\ myS'[w] = relS[myB[w]]
  BY <1>2, <1>4, NullIsDead DEF IInv, TypeOK, OnlyOwn
<1>7. At(w)'
  BY <1>2, <1>4, <1>6 DEF At, Fits, Family, Kind, Requesting, HandlerPairs
<1>8. Buffers'
  BY <1>4, BuffersKept DEF IInv
<1>9. Sockets'
  <2>1. \A b \in BObjs : Client(b)' <=> Client(b)
    BY <1>1, <1>4, <1>6, GoneKept DEF Client, LiveB
  <2>2. ~Carries(w) /\ ~Carries(w)'
    BY <1>2, <1>4, <1>6 DEF Carries
  <2> QED
    BY <1>4, <1>6, <1>7, <2>1, <2>2, OthersKept, SocketsKept DEF IInv, OnlyOwn
<1>10. Control' /\ Posted'
  BY <1>4, <1>6, <1>7, OthersKept DEF Posted
<1>11. AcptListed' /\ ConnMapSound'
  BY <1>1, <1>4, <1>6, MapsKept DEF Listing, Requesting, LiveB
<1> QED
  BY <1>5, <1>8, <1>9, <1>10, <1>11 DEF IInv

\* A handler returns with nothing posted.
LEMMA StallInv ==
    ASSUME IInv, NEW w \in Threads, pc[w] \in {"process", "respond"},
           NEW why \in {"unknown", "poolinfo"}, Return(w),
           stalled' = stalled \cup {<<myB[w], why>>},
           UNCHANGED <<memory, fields, acpt, conn, ops>>
    PROVE  IInv'
<1>1. myB[w] # Null /\ myB[w] \in BObjs /\ myS[w] \in {Null, relS[myB[w]]}
  BY DEF IInv, Control, At, TypeOK
<1>2. /\ pc' = [pc EXCEPT ![w] = "idle"] /\ want' = [want EXCEPT ![w] = Null]
      /\ myB' = [myB EXCEPT ![w] = Null] /\ myS' = [myS EXCEPT ![w] = Null]
      /\ UNCHANGED <<bFree, sFree, bHeap, sHeap, relS, fn, sock, nKey, acpt, conn, ops>>
  BY DEF Return, GoTo, memory, fields
<1>3. TypeOK'
  BY <1>1, <1>2 DEF IInv, TypeOK, PCs
<1>4. /\ OnlyOwn(w) /\ pc'[w] = "idle" /\ myB'[w] = Null /\ myS'[w] = Null
  BY <1>2 DEF IInv, TypeOK, OnlyOwn
<1>5. At(w)'
  BY <1>4 DEF At, Requesting
<1>6. Buffers'
  BY <1>1, <1>2, BufferStalled DEF IInv
<1>7. Sockets'
  <2>1. \A b \in BObjs : Client(b)' <=> Client(b)
    BY <1>2, <1>4, GoneKept DEF Client, LiveB
  <2>2. ~Carries(w) /\ ~Carries(w)'
    BY <1>1, <1>4 DEF Carries
  <2> QED
    BY <1>2, <1>4, <1>5, <2>1, <2>2, OthersKept, SocketsKept DEF IInv, OnlyOwn
<1>8. Control' /\ Posted'
  BY <1>2, <1>4, <1>5, OthersKept DEF Posted
<1>9. AcptListed' /\ ConnMapSound'
  BY <1>2, <1>4, MapsKept DEF Listing, Requesting, LiveB
<1> QED
  BY <1>3, <1>6, <1>7, <1>8, <1>9 DEF IInv

\* A command is answered, passed on to the API, or left without an answer.
LEMMA ProcessCommandInv ==
    ASSUME IInv, NEW w \in Threads, ProcessCommand(w)
    PROVE  IInv'
<1>1. /\ pc[w] = "process" /\ UNCHANGED <<memory, fields, acpt, conn, ops>>
      /\ pc[w] \notin Listing
  BY DEF ProcessCommand, Listing, Requesting
<1>2. myB[w] # Null /\ myS[w] # Null /\ myS[w] = relS[myB[w]]
  BY <1>1 DEF IInv, Control, At
<1>3. ASSUME NEW l \in {"reply", "api_alloc"}, GoTo(w, l), UNCHANGED <<locals, stalled>>
      PROVE  IInv'
  <2>1. /\ UNCHANGED <<memory, relS, fn, nKey, acpt, conn, ops, locals, stalled>>
        /\ sock' \in [SObjs -> {"open", "invalid"}] /\ l \in PCs
    BY <1>1, <1>3 DEF fields, IInv, TypeOK, PCs
  <2>2. pc'[w] = l => At(w)'
    BY <1>2, <1>3, <2>1 DEF At, Requesting, locals
  <2> QED
    BY <1>1, <1>2, <1>3, <2>1, <2>2, QuietMove
<1> QED
  BY <1>1, <1>3, StallInv DEF ProcessCommand

\* The API's answer is passed on, or left without a reply.
LEMMA DoReturnDataInv ==
    ASSUME IInv, NEW w \in Threads, DoReturnData(w)
    PROVE  IInv'
<1>1. /\ pc[w] = "respond" /\ UNCHANGED <<memory, fields, acpt, conn, ops>>
      /\ pc[w] \notin Listing
  BY DEF DoReturnData, Listing, Requesting
<1>2. myB[w] # Null /\ relS[myB[w]] # Null /\ myS[w] = Null
  BY <1>1 DEF IInv, Control, At
<1>3. CASE GoTo(w, "reply") /\ UNCHANGED <<locals, stalled>>
  <2>1. /\ UNCHANGED <<memory, relS, fn, nKey, acpt, conn, ops, locals, stalled>>
        /\ sock' \in [SObjs -> {"open", "invalid"}] /\ "reply" \in PCs
    BY <1>1, <1>3 DEF fields, IInv, TypeOK, PCs
  <2>2. pc'[w] = "reply" => At(w)'
    BY <1>2, <2>1 DEF At, Requesting, locals
  <2> QED
    BY <1>1, <1>2, <1>3, <2>1, <2>2, QuietMove
<1> QED
  BY <1>1, <1>3, StallInv DEF DoReturnData

\* The list of free socket objects after allocSObj.
LEMMA TakeSObj ==
    ASSUME TypeOK, Sockets, NEW s \in SObjs,
           \/ /\ sFree # <<>> /\ s = Last(sFree) /\ sFree' = Front(sFree)
              /\ UNCHANGED sHeap
           \/ /\ sFree = <<>> /\ s \notin sHeap /\ sHeap' = sHeap \cup {s}
              /\ UNCHANGED sFree
    PROVE  /\ sFree' \in Seq(SObjs) /\ Len(sFree') <= PoolCap /\ sHeap' \subseteq SObjs
           /\ IsInjective(sFree') /\ ToSet(sFree') \subseteq sHeap'
           /\ s \notin LiveS /\ LiveS' = LiveS \cup {s}
<1>1. /\ sFree \in Seq(SObjs) /\ Len(sFree) <= PoolCap /\ sHeap \in SUBSET SObjs
      /\ PoolCap \in Nat /\ IsInjective(sFree) /\ ToSet(sFree) \subseteq sHeap
  BY ConnAssumption DEF TypeOK, Sockets
<1> QED
  BY <1>1, TakeObject DEF LiveS

\* The same after freeSObj.
LEMMA GiveSObj ==
    ASSUME TypeOK, Sockets, NEW s \in SObjs, s \in LiveS, freeSObj(s)
    PROVE  /\ sFree' \in Seq(SObjs) /\ Len(sFree') <= PoolCap /\ sHeap' \subseteq SObjs
           /\ IsInjective(sFree') /\ ToSet(sFree') \subseteq sHeap'
           /\ LiveS' = LiveS \ {s}
<1>1. /\ sFree \in Seq(SObjs) /\ Len(sFree) <= PoolCap /\ sHeap \in SUBSET SObjs
      /\ PoolCap \in Nat /\ IsInjective(sFree) /\ ToSet(sFree) \subseteq sHeap
      /\ s \in sHeap \ ToSet(sFree)
  BY ConnAssumption DEF TypeOK, Sockets, LiveS
<1>2. CASE Len(sFree) < PoolCap
  <2>1. sFree' = Append(sFree, s) /\ sHeap' = sHeap
    BY <1>2 DEF freeSObj
  <2>2. s \in sHeap /\ s \notin ToSet(sFree)
    BY <1>1
  <2> QED
    BY <1>1, <1>2, <2>1, <2>2, ReturnObject DEF LiveS
<1>3. CASE ~(Len(sFree) < PoolCap)
  BY <1>1, <1>3 DEF LiveS, freeSObj
<1> QED
  BY <1>2, <1>3

\* A thread takes a socket object from allocSObj.
LEMMA AllocSObjInv ==
    ASSUME IInv, NEW t \in Threads, NEW l,
           \/ pc[t] = "acc_sock" /\ l = "acc_init"
           \/ pc[t] = "api_alloc" /\ l = "api_init",
           allocSObj(t), GoTo(t, l),
           UNCHANGED <<bFree, bHeap, relS, fn, nKey, acpt, conn, ops, myB, want, stalled>>
    PROVE  IInv'
<1>1. PICK s \in SObjs :
        /\ \/ /\ sFree # <<>> /\ s = Last(sFree) /\ sFree' = Front(sFree)
              /\ UNCHANGED sHeap
           \/ /\ sFree = <<>> /\ s \notin sHeap /\ sHeap' = sHeap \cup {s}
              /\ UNCHANGED sFree
        /\ sock' = [sock EXCEPT ![s] = "invalid"]
        /\ myS' = [myS EXCEPT ![t] = s]
  BY DEF allocSObj
<1>2. /\ sFree' \in Seq(SObjs) /\ Len(sFree') <= PoolCap /\ sHeap' \subseteq SObjs
      /\ IsInjective(sFree') /\ ToSet(sFree') \subseteq sHeap'
      /\ s \notin LiveS /\ LiveS' = LiveS \cup {s}
  BY <1>1, TakeSObj DEF IInv
<1>3. /\ myB[t] # Null /\ myB[t] \in LiveB
      /\ pc[t] = "acc_sock" => relS[myB[t]] = Null /\ myS[t] = Null
      /\ pc[t] = "api_alloc" => relS[myB[t]] # Null /\ myS[t] = relS[myB[t]]
  BY DEF IInv, Control, At, Buffers, BuffersLive
<1>4. /\ OnlyOwn(t) /\ pc'[t] = l /\ myS'[t] = s /\ l \in PCs
      /\ pc[t] # "drop_freeB" /\ l # "drop_freeB" /\ pc[t] \notin Listing
  BY <1>1 DEF IInv, TypeOK, OnlyOwn, GoTo, PCs, Listing, Requesting
<1>5. TypeOK'
  BY <1>1, <1>2, <1>4 DEF IInv, TypeOK, GoTo
<1>6. s # Null /\ relS[myB[t]] # s
  <2>1. s # Null
    BY ConnAssumption
  <2>2. CASE pc[t] = "acc_sock"
    BY <1>3, <2>1, <2>2
  <2>3. CASE pc[t] = "api_alloc"
    <3>1. ~SocketGone(myB[t])
      BY <1>3, <2>3 DEF IInv, Buffers, BuffersApart, SocketGone
    <3>2. Client(myB[t])
      BY <1>3, <2>3, <3>1 DEF Client
    <3>3. relS[myB[t]] \in LiveS
      BY <1>3, <3>2, NullIsDead DEF IInv, Sockets, SocketsLive
    <3> QED
      BY <1>2, <2>1, <3>3
  <2> QED
    BY <2>2, <2>3
<1>7. At(t)'
  BY <1>3, <1>4, <1>6 DEF At, Requesting
<1>8. Buffers'
  BY BuffersKept DEF IInv
<1>9. Sockets'
  <2>1. \A b \in BObjs : Client(b)' <=> Client(b)
    BY <1>4, GoneKept DEF Client, LiveB
  <2>2. ~Carries(t) /\ Carries(t)'
    BY <1>3, <1>4, <1>6 DEF Carries
  <2>3. /\ \A op \in ops' : ApiOp(op)' => op \in ops /\ ApiOp(op)
        /\ \A op \in ops : ApiOp(op) => op \in ops' /\ ApiOp(op)'
        /\ \A u \in Threads : u # t => /\ Carries(u)' <=> Carries(u)
                                       /\ Carries(u) => myS'[u] = myS[u]
    BY <1>4, <1>7, OthersKept DEF OnlyOwn
  <2>4. Sockets /\ s \in SObjs \ LiveS
    BY <1>2 DEF IInv
  <2> QED
    BY <1>2, <1>4, <2>1, <2>2, <2>3, <2>4, SocketTaken
<1>10. Control' /\ Posted'
  BY <1>4, <1>7, OthersKept DEF Posted
<1>11. AcptListed' /\ ConnMapSound'
  BY <1>4, MapsKept DEF LiveB
<1> QED
  BY <1>5, <1>8, <1>9, <1>10, <1>11 DEF IInv

\* doApi: a socket object for the call, or none.
LEMMA doApiAllocInv ==
    ASSUME IInv, NEW w \in Threads, doApiAlloc(w)
    PROVE  IInv'
<1>1. /\ pc[w] = "api_alloc" /\ pc[w] \notin Listing
      /\ UNCHANGED <<bFree, bHeap, relS, fn, nKey, acpt, conn, ops, myB, want, stalled>>
  BY DEF doApiAlloc, Listing, Requesting
<1>2. CASE allocSObj(w) /\ GoTo(w, "api_init")
  BY <1>1, <1>2, AllocSObjInv
<1>3. CASE GoTo(w, "reply") /\ UNCHANGED <<sFree, sHeap, sock, myS>>
  <2>1. /\ UNCHANGED <<memory, relS, fn, nKey, acpt, conn, ops, locals, stalled>>
        /\ sock' \in [SObjs -> {"open", "invalid"}] /\ "reply" \in PCs
    BY <1>1, <1>3 DEF memory, locals, IInv, TypeOK, PCs
  <2>2. myB[w] # Null /\ myS[w] # Null /\ myS[w] = relS[myB[w]]
    BY <1>1 DEF IInv, Control, At
  <2>3. pc'[w] = "reply" => At(w)'
    BY <2>1, <2>2 DEF At, Requesting, locals
  <2> QED
    BY <1>1, <1>3, <2>1, <2>2, <2>3, QuietMove
<1> QED
  BY <1>2, <1>3 DEF doApiAlloc

\* freeSObj: the socket object of a lost client, or of an API call that is over.
LEMMA FreeSocketObjInv ==
    ASSUME IInv, NEW t \in Threads, FreeSocketObj(t)
    PROVE  IInv'
<1>1. /\ pc[t] \in {"drop_freeS", "api_freeS", "end_freeS"} /\ freeSObj(myS[t])
      /\ UNCHANGED <<bFree, bHeap, relS, fn, sock, nKey, acpt, conn, ops, myB, want, stalled>>
      /\ myS' = [myS EXCEPT ![t] = Null]
      /\ pc' = [pc EXCEPT ![t] = CASE pc[t] = "drop_freeS" -> "drop_freeB"
                                   [] pc[t] = "api_freeS" -> "reply"
                                   [] pc[t] = "end_freeS" -> "respond"]
  BY DEF FreeSocketObj, GoTo, fields
<1>2. /\ myB[t] # Null /\ myB[t] \in LiveB /\ myB[t] \in BObjs
      /\ myS[t] # Null /\ myS[t] \in SObjs /\ relS[myB[t]] # Null
      /\ pc[t] = "drop_freeS" => myS[t] = relS[myB[t]]
      /\ pc[t] # "drop_freeS" => myS[t] # relS[myB[t]]
  BY <1>1 DEF IInv, Control, At, Buffers, BuffersLive, TypeOK
<1>3. /\ OnlyOwn(t) /\ myS'[t] = Null
      /\ pc[t] = "drop_freeS" => pc'[t] = "drop_freeB"
      /\ pc[t] # "drop_freeS" => pc'[t] \in {"reply", "respond"}
      /\ pc' \in [Threads -> PCs]
  BY <1>1 DEF IInv, TypeOK, OnlyOwn, PCs
<1>4. \A u \in Threads : u # t => myB[u] # myB[t]
  BY <1>2 DEF IInv, Buffers, BuffersApart
<1>5. /\ pc[t] = "drop_freeS" => Client(myB[t])
      /\ pc[t] # "drop_freeS" => Carries(t)
  BY <1>1, <1>2, <1>4 DEF Client, SocketGone, Carries
<1>6. myS[t] \in LiveS
  BY <1>2, <1>5 DEF IInv, Sockets, SocketsLive
<1>7. /\ sFree' \in Seq(SObjs) /\ Len(sFree') <= PoolCap /\ sHeap' \subseteq SObjs
      /\ IsInjective(sFree') /\ ToSet(sFree') \subseteq sHeap'
      /\ LiveS' = LiveS \ {myS[t]}
  BY <1>1, <1>2, <1>6, GiveSObj DEF IInv
<1>8. TypeOK'
  BY <1>1, <1>2, <1>3, <1>7 DEF IInv, TypeOK
<1>9. At(t)'
  BY <1>1, <1>2, <1>3 DEF At, Requesting
<1>10. Buffers'
  BY <1>1, BuffersKept DEF IInv
<1>11. /\ \A op \in ops' : ApiOp(op)' => op \in ops /\ ApiOp(op)
       /\ \A op \in ops : ApiOp(op) => op \in ops' /\ ApiOp(op)'
       /\ \A u \in Threads : u # t => /\ Carries(u)' <=> Carries(u)
                                      /\ Carries(u) => myS'[u] = myS[u]
  BY <1>1, <1>3, <1>9, OthersKept DEF OnlyOwn
<1>12. Sockets'
  <2>1. CASE pc[t] = "drop_freeS"
    <3>1. ~Carries(t) /\ ~Carries(t)'
      BY <1>2, <1>3, <2>1 DEF Carries
    <3>2. PICK c \in BObjs : c = myB[t]
      BY <1>2
    <3>3. Client(c) /\ ~Client(c)' /\ LiveS' = LiveS \ {relS[c]}
      BY <1>1, <1>2, <1>3, <1>5, <1>7, <2>1, <3>2 DEF Client, SocketGone
    <3>4. \A b \in BObjs : b # c => /\ Client(b)' <=> Client(b)
                                    /\ Client(b) => relS'[b] = relS[b]
      BY <1>1, <1>3, <3>2 DEF Client, SocketGone, LiveB, OnlyOwn
    <3>5. \A u \in Threads : /\ Carries(u)' <=> Carries(u)
                             /\ Carries(u) => myS'[u] = myS[u]
      BY <1>11, <3>1
    <3> QED
      BY <1>7, <1>11, <3>3, <3>4, <3>5, ClientGiven DEF IInv
  <2>2. CASE pc[t] # "drop_freeS"
    <3>1. Carries(t) /\ ~Carries(t)'
      BY <1>3, <1>5, <2>2 DEF Carries
    <3>2. \A b \in BObjs : /\ Client(b)' <=> Client(b)
                           /\ Client(b) => relS'[b] = relS[b]
      BY <1>1, <1>3, <2>2, GoneKept DEF Client, LiveB
    <3> QED
      BY <1>7, <1>11, <3>1, <3>2, CarriedGiven DEF IInv
  <2> QED
    BY <2>1, <2>2
<1>13. Control' /\ Posted'
  BY <1>1, <1>3, <1>9, OthersKept DEF Posted
<1>14. AcptListed' /\ ConnMapSound'
  BY <1>1, <1>3, MapsKept DEF Listing, Requesting, LiveB
<1> QED
  BY <1>8, <1>10, <1>12, <1>13, <1>14 DEF IInv

\* freeBObj, when the buffer has no socket object any more or none yet.
LEMMA FreeBufferInv ==
    ASSUME IInv, NEW t \in Threads, pc[t] \in {"drop_freeB", "acc_nosock"},
           freeBObj(myB[t]), Return(t),
           UNCHANGED <<sFree, sHeap, fields, acpt, conn, ops, stalled>>
    PROVE  IInv'
<1>1. /\ pc' = [pc EXCEPT ![t] = "idle"] /\ want' = [want EXCEPT ![t] = Null]
      /\ myB' = [myB EXCEPT ![t] = Null] /\ myS' = [myS EXCEPT ![t] = Null]
      /\ UNCHANGED <<sFree, sHeap, relS, fn, sock, nKey, acpt, conn, ops, stalled>>
  BY DEF Return, GoTo, fields
<1>2. /\ myB[t] # Null /\ myB[t] \in BObjs /\ myS[t] = Null
      /\ pc[t] = "acc_nosock" => relS[myB[t]] = Null
  BY DEF IInv, Control, At, TypeOK
<1>3. /\ Buffers' /\ LiveB' = LiveB \ {myB[t]}
      /\ bFree' \in Seq(BObjs) /\ Len(bFree') <= PoolCap /\ bHeap' \subseteq BObjs
  BY <1>1, <1>2, BufferGiven DEF IInv
<1>4. /\ OnlyOwn(t) /\ pc'[t] = "idle" /\ myB'[t] = Null /\ myS'[t] = Null
  BY <1>1 DEF IInv, TypeOK, OnlyOwn
<1>5. TypeOK'
  BY <1>1, <1>3 DEF IInv, TypeOK, PCs
<1>6. At(t)'
  BY <1>4 DEF At, Requesting
<1>7. \A b \in BObjs : Client(b)' <=> Client(b)
  <2> TAKE b \in BObjs
  <2>1. CASE b = myB[t]
    <3>1. ~Client(b)
      BY <1>2, <2>1 DEF Client, SocketGone
    <3>2. ~Client(b)'
      BY <1>3, <2>1 DEF Client
    <3> QED
      BY <3>1, <3>2
  <2>2. CASE b # myB[t]
    <3>1. SocketGone(b)' <=> SocketGone(b)
      BY <1>4, <2>2 DEF SocketGone, OnlyOwn
    <3> QED
      BY <1>1, <1>3, <2>2, <3>1 DEF Client
  <2> QED
    BY <2>1, <2>2
<1>8. Sockets'
  <2>1. ~Carries(t) /\ ~Carries(t)'
    BY <1>2, <1>4 DEF Carries
  <2> QED
    BY <1>1, <1>4, <1>6, <1>7, <2>1, OthersKept, SocketsKept DEF IInv, OnlyOwn
<1>9. Control' /\ Posted'
  BY <1>1, <1>4, <1>6, OthersKept DEF Posted
<1>10. AcptListed' /\ ConnMapSound'
  BY <1>1, <1>3, <1>4, MapsKept DEF Listing, Requesting
<1> QED
  BY <1>3, <1>5, <1>8, <1>9, <1>10 DEF IInv

-----------------------------------------------------------------------------
(* Requests go to the kernel and come back *)

\* A request is posted.
LEMMA PostSucceedsInv ==
    ASSUME IInv, NEW t \in Threads, PostSucceeds(t)
    PROVE  IInv'
<1>1. /\ pc[t] = "post" /\ ops' = ops \cup {Request(myB[t], myS[t], want[t])}
      /\ pc' = [pc EXCEPT ![t] = "idle"] /\ want' = [want EXCEPT ![t] = Null]
      /\ myB' = [myB EXCEPT ![t] = Null] /\ myS' = [myS EXCEPT ![t] = Null]
      /\ UNCHANGED <<bFree, sFree, bHeap, sHeap, relS, fn, sock, nKey, acpt, conn, stalled>>
  BY DEF PostSucceeds, Return, GoTo, memory, fields
<1>2. PICK b, s, k : b = myB[t] /\ s = myS[t] /\ k = want[t]
  OBVIOUS
<1>3. /\ b # Null /\ b \in BObjs /\ s # Null /\ s \in SObjs /\ k \in Kinds
      /\ Fits(b, s) /\ fn[b][2] = k
  <2>1. b # Null /\ Fits(b, s) /\ fn[b][2] = k
    BY <1>1, <1>2 DEF IInv, Control, At, Kind, Requesting
  <2>2. k \in Kinds
    BY <2>1 DEF Fits, HandlerPairs, Kinds
  <2> QED
    BY <1>2, <2>1, <2>2 DEF IInv, TypeOK, Fits
<1>4. PICK r : r = Request(b, s, k)
  OBVIOUS
<1>5. /\ r.buf = b /\ r.sock = s /\ r.kind = k /\ ops' = ops \cup {r}
      /\ r \in [buf : BObjs, sock : SObjs, kind : Kinds] /\ r \notin ops
  <2>1. /\ r.buf = b /\ r.sock = s /\ r.kind = k /\ ops' = ops \cup {r}
        /\ r \in [buf : BObjs, sock : SObjs, kind : Kinds]
    BY <1>1, <1>2, <1>3, <1>4 DEF Request
  <2>2. r \notin ops
    BY <1>2, <2>1 DEF IInv, Buffers, BuffersApart
  <2> QED
    BY <2>1, <2>2
<1>6. /\ OnlyOwn(t) /\ pc'[t] = "idle" /\ myB'[t] = Null /\ myS'[t] = Null
  BY <1>1 DEF IInv, TypeOK, OnlyOwn
<1>7. TypeOK'
  BY <1>1, <1>5 DEF IInv, TypeOK, PCs
<1>8. At(t)'
  BY <1>6 DEF At, Requesting
<1>9. Buffers'
  <2>1. ops' = ops \cup {Request(myB[t], s, k)} /\ myB[t] # Null
    BY <1>1, <1>2, <1>3
  <2> QED
    BY <1>1, <1>3, <2>1, BufferPosted DEF IInv
<1>10. Control' /\ Posted'
  <2>1. Fits(r.buf, r.sock)' /\ Kind(r.buf)' = r.kind
    BY <1>1, <1>3, <1>5 DEF Fits, Family, Kind
  <2> QED
    BY <1>5, <1>6, <1>8, <2>1, OthersKept DEF Posted
<1>11. Sockets'
  <2>1. \A c \in BObjs : Client(c)' <=> Client(c)
    BY <1>1, <1>6, GoneKept DEF Client, LiveB
  <2>2. /\ \A op \in ops : ApiOp(op)' <=> ApiOp(op)
        /\ \A u \in Threads : u # t => /\ Carries(u)' <=> Carries(u)
                                       /\ Carries(u) => myS'[u] = myS[u]
    BY <1>6, <1>8, OthersKept DEF OnlyOwn
  <2>3. ~Carries(t)'
    BY <1>6 DEF Carries
  <2>4. CASE s = relS[b]
    <3>1. ~Carries(t) /\ ~ApiOp(r)'
      BY <1>1, <1>2, <1>3, <1>5, <2>4 DEF Carries, ApiOp
    <3> QED
      BY <1>1, <1>5, <2>1, <2>2, <2>3, <3>1, SocketsKept DEF IInv
  <2>5. CASE s # relS[b]
    <3>1. Carries(t) /\ ApiOp(r)' /\ r \in ops' /\ r.sock = myS[t]
      BY <1>1, <1>2, <1>3, <1>5, <2>5 DEF Carries, ApiOp
    <3>2. /\ \A op \in ops' : op # r => (ApiOp(op)' => op \in ops /\ ApiOp(op))
          /\ \A op \in ops : ApiOp(op) => op \in ops' /\ ApiOp(op)'
      BY <1>5, <2>2
    <3> QED
      BY <1>1, <1>5, <2>1, <2>2, <2>3, <3>1, <3>2, CarriedToOp DEF IInv
  <2> QED
    BY <2>4, <2>5
<1>12. AcptListed'
  <2> SUFFICES ASSUME NEW p \in Ports, NEW i \in Keys, acpt[p][i] # Null
               PROVE  /\ nKey[acpt[p][i]] = i
                      /\ \E c \in LiveB : /\ relS[c] = acpt[p][i]
                                          /\ fn[c] = <<p, "Accept">>
                                          /\ Pending(c)'
    BY <1>1 DEF AcptListed, LiveB
  <2>1. PICK c \in LiveB : /\ relS[c] = acpt[p][i] /\ fn[c] = <<p, "Accept">>
                           /\ Pending(c)
    BY DEF IInv, AcptListed
  <2>2. Pending(c)'
    BY <1>2, <1>5, <1>6, <2>1 DEF Pending, OnlyOwn
  <2> QED
    BY <2>1, <2>2 DEF IInv, AcptListed
<1>13. ConnMapSound'
  <2>0. UNCHANGED <<fn, nKey, conn>>
    BY <1>1
  <2> SUFFICES ASSUME NEW i \in Keys, conn[i] # Null
               PROVE  /\ nKey[conn[i]] = i
                      /\ \/ \E op \in ops' : op.sock = conn[i] /\ op.kind = "Connect"
                         \/ \E u \in Threads : /\ myS'[u] = conn[i]
                                               /\ fn[myB'[u]] = <<"api", "Connect">>
                                               /\ pc'[u] \in Requesting
    BY <2>0 DEF ConnMapSound, Requesting
  <2>1. \/ \E op \in ops : op.sock = conn[i] /\ op.kind = "Connect"
        \/ \E u \in Threads : /\ myS[u] = conn[i]
                              /\ fn[myB[u]] = <<"api", "Connect">>
                              /\ pc[u] \in Requesting
    BY DEF IInv, ConnMapSound, Requesting
  <2>2. ASSUME myS[t] = conn[i], fn[myB[t]] = <<"api", "Connect">>
        PROVE  r \in ops' /\ r.sock = conn[i] /\ r.kind = "Connect"
    BY <1>2, <1>3, <1>5, <2>2
  <2>3. nKey[conn[i]] = i
    BY DEF IInv, ConnMapSound
  <2> QED
    BY <1>5, <1>6, <2>1, <2>2, <2>3 DEF OnlyOwn
<1> QED
  BY <1>7, <1>9, <1>10, <1>11, <1>12, <1>13 DEF IInv

\* A completion is dequeued: the handler gets the objects of the request.
LEMMA completionRoutionInv ==
    ASSUME IInv, NEW w \in Threads, NEW r \in Results, completionRoution(w, r)
    PROVE  IInv'
<1>1. PICK o \in ops :
        /\ pc[w] = "idle" /\ ops' = ops \ {o}
        /\ myB' = [myB EXCEPT ![w] = o.buf]
        /\ myS' = [myS EXCEPT ![w] = IF Kind(o.buf) = "Accept" THEN relS[o.buf] ELSE o.sock]
        /\ GoTo(w, CASE r = "ok" -> "run_ok" [] r = "zero" -> "run_zero"
                     [] r = "fail" -> "run_fail")
        /\ UNCHANGED <<bFree, sFree, bHeap, sHeap, relS, fn, sock, nKey, acpt, conn, want,
                       stalled>>
  BY DEF completionRoution, memory, fields
<1>2. /\ o.buf \in BObjs /\ o.buf # Null /\ o.sock \in SObjs /\ o.buf \in LiveB
      /\ Fits(o.buf, o.sock) /\ fn[o.buf][2] = o.kind
  BY ConnAssumption DEF IInv, TypeOK, Posted, Kind, Buffers, BuffersLive
<1>3. (IF Kind(o.buf) = "Accept" THEN relS[o.buf] ELSE o.sock) = o.sock
  BY <1>2, ConnAssumption DEF Fits, Kind, Family, HandlerPairs
<1>4. PICK l \in {"run_ok", "run_zero", "run_fail"} : pc' = [pc EXCEPT ![w] = l]
  BY <1>1 DEF Results, GoTo
<1>5. myB[w] = Null /\ myS[w] = Null
  BY <1>1 DEF IInv, Control, At
<1>6. /\ OnlyOwn(w) /\ pc'[w] = l /\ myB'[w] = o.buf /\ myS'[w] = o.sock
  BY <1>1, <1>3, <1>4 DEF IInv, TypeOK, OnlyOwn
<1>7. TypeOK'
  BY <1>1, <1>2, <1>3, <1>4 DEF IInv, TypeOK, PCs
<1>8. At(w)'
  BY <1>1, <1>2, <1>6 DEF At, Requesting, Fits, Family
<1>9. Buffers'
  BY <1>1, <1>5, BufferDequeued DEF IInv
<1>10. Control' /\ Posted'
  BY <1>1, <1>6, <1>8, OthersKept DEF Posted
<1>11. Sockets'
  <2>1. \A c \in BObjs : Client(c)' <=> Client(c)
    <3>1. pc[w] # "drop_freeB" /\ pc'[w] # "drop_freeB"
      BY <1>1, <1>6
    <3> QED
      BY <1>1, <1>6, <3>1, GoneKept DEF Client, LiveB
  <2>2. /\ \A op \in ops : ApiOp(op)' <=> ApiOp(op)
        /\ \A u \in Threads : u # w => /\ Carries(u)' <=> Carries(u)
                                       /\ Carries(u) => myS'[u] = myS[u]
    BY <1>6, <1>8, OthersKept DEF OnlyOwn
  <2>3. ~Carries(w)
    BY <1>5 DEF Carries
  <2>4. CASE o.sock = relS[o.buf]
    <3>1. ~Carries(w)' /\ ~ApiOp(o)
      BY <1>1, <1>2, <1>6, <2>4 DEF Carries, ApiOp
    <3> QED
      BY <1>1, <2>1, <2>2, <2>3, <3>1, SocketsKept DEF IInv
  <2>5. CASE o.sock # relS[o.buf]
    <3>1. Carries(w)' /\ ApiOp(o) /\ o \notin ops'
      BY <1>1, <1>2, <1>6, <2>5, ConnAssumption DEF Carries, ApiOp
    <3>2. /\ \A op \in ops' : ApiOp(op)' => op \in ops /\ ApiOp(op)
          /\ \A op \in ops : op # o => (ApiOp(op) => op \in ops' /\ ApiOp(op)')
      BY <1>1, <2>2
    <3> QED
      BY <1>1, <1>6, <2>1, <2>2, <2>3, <3>1, <3>2, OpToCarried DEF IInv
  <2> QED
    BY <2>4, <2>5
<1>12. AcptListed'
  <2>0. UNCHANGED <<relS, fn, nKey, acpt>> /\ LiveB' = LiveB
    BY <1>1 DEF LiveB
  <2> SUFFICES ASSUME NEW p \in Ports, NEW i \in Keys, acpt[p][i] # Null
               PROVE  /\ nKey[acpt[p][i]] = i
                      /\ \E c \in LiveB : /\ relS[c] = acpt[p][i]
                                          /\ fn[c] = <<p, "Accept">>
                                          /\ Pending(c)'
    BY <2>0 DEF AcptListed
  <2>1. PICK c \in LiveB : /\ relS[c] = acpt[p][i] /\ fn[c] = <<p, "Accept">>
                           /\ Pending(c)
    BY DEF IInv, AcptListed
  <2>2. Pending(c)'
    <3>1. CASE \E u \in Threads : myB[u] = c /\ pc[u] \in Requesting \cup {"acc_remove"}
      BY <1>1, <1>6, <3>1 DEF Pending, OnlyOwn, Requesting
    <3>2. CASE \E op \in ops : op.buf = c
      BY <1>1, <1>6, <3>2 DEF Pending, Requesting
    <3> QED
      BY <2>1, <3>1, <3>2 DEF Pending
  <2> QED
    BY <2>1, <2>2 DEF IInv, AcptListed
<1>13. ConnMapSound'
  <2> SUFFICES ASSUME NEW i \in Keys, conn[i] # Null
               PROVE  /\ nKey[conn[i]] = i
                      /\ \/ \E op \in ops' : op.sock = conn[i] /\ op.kind = "Connect"
                         \/ \E u \in Threads : /\ myS'[u] = conn[i]
                                               /\ fn[myB'[u]] = <<"api", "Connect">>
                                               /\ pc'[u] \in Requesting
    BY <1>1 DEF ConnMapSound, Requesting
  <2>1. \/ \E op \in ops : op.sock = conn[i] /\ op.kind = "Connect"
        \/ \E u \in Threads : /\ myS[u] = conn[i]
                              /\ fn[myB[u]] = <<"api", "Connect">>
                              /\ pc[u] \in Requesting
    BY DEF IInv, ConnMapSound, Requesting
  <2>2. ASSUME o.sock = conn[i], o.kind = "Connect"
        PROVE  /\ myS'[w] = conn[i] /\ fn[myB'[w]] = <<"api", "Connect">>
               /\ pc'[w] \in Requesting
    BY <1>2, <1>6, <2>2 DEF Fits, HandlerPairs, Requesting
  <2>3. ASSUME NEW u \in Threads, pc[u] \in Requesting
        PROVE  u # w
    BY <1>1, <2>3 DEF Requesting
  <2>4. nKey[conn[i]] = i
    BY DEF IInv, ConnMapSound
  <2> QED
    BY <1>1, <1>6, <2>1, <2>2, <2>3, <2>4 DEF OnlyOwn
<1> QED
  BY <1>7, <1>9, <1>10, <1>11, <1>12, <1>13 DEF IInv

-----------------------------------------------------------------------------
(* The maps get an entry *)

\* No map lists a socket object that a thread is only setting up.
LEMMA NotListedYet ==
    ASSUME IInv, NEW t \in Threads, Carries(t), pc[t] \notin Listing
    PROVE  /\ \A p \in Ports, k \in Keys : acpt[p][k] # myS[t]
           /\ \A k \in Keys : conn[k] # myS[t]
<1>1. myS[t] # Null
  BY DEF Carries
<1>2. ASSUME NEW p \in Ports, NEW k \in Keys, acpt[p][k] = myS[t] PROVE FALSE
  <2>0. AcptSupport(p, acpt[p][k])
    BY <1>1, <1>2, MapsBySupport DEF IInv
  <2>1. PICK b \in LiveB : relS[b] = myS[t] /\ fn[b] = <<p, "Accept">> /\ Pending(b)
    BY <1>2, <2>0 DEF AcptSupport
  <2>2. b # Null /\ b \in BObjs
    BY NullIsDead DEF IInv
  <2>3. ~SocketGone(b)
    BY <2>1, <2>2 DEF IInv, Buffers, BuffersApart, Pending, SocketGone, Requesting
  <2>4. Client(b)
    BY <1>1, <2>1, <2>3 DEF Client
  <2> QED
    BY <2>1, <2>2, <2>4 DEF IInv, Sockets, SocketsApart
<1>3. ASSUME NEW k \in Keys, conn[k] = myS[t] PROVE FALSE
  <2>1. ConnSupport(myS[t])
    BY <1>1, <1>3, MapsBySupport DEF IInv
  <2>2. ASSUME NEW op \in ops, op.sock = myS[t], op.kind = "Connect" PROVE FALSE
    <3>1. ApiOp(op)
      BY <2>2 DEF IInv, Posted, Fits, Family, Kind, HandlerPairs, ApiOp
    <3> QED
      BY <2>2, <3>1 DEF IInv, Sockets, SocketsApart
  <2>3. ASSUME NEW u \in Threads, myS[u] = myS[t], fn[myB[u]] = <<"api", "Connect">>,
               pc[u] \in Requesting
        PROVE  FALSE
    <3>1. Fits(myB[u], myS[u]) /\ myB[u] # Null /\ u # t
      BY <2>3 DEF IInv, Control, At, Listing
    <3>2. Carries(u)
      BY <2>3, <3>1 DEF Carries, Fits, Family, Requesting
    <3> QED
      BY <2>3, <3>1, <3>2 DEF IInv, Sockets, SocketsApart
  <2> QED
    BY <2>1, <2>2, <2>3 DEF ConnSupport
<1> QED
  BY <1>2, <1>3

\* doApi: ConnectEx is next, or the set-up failed.
LEMMA doApiConnectInv ==
    ASSUME IInv, NEW w \in Threads, doApiConnect(w)
    PROVE  IInv'
<1>1. /\ pc[w] = "api_init" /\ pc[w] \notin Listing
      /\ UNCHANGED <<memory, relS, acpt, ops, myB, myS, stalled>>
  BY DEF doApiConnect, Listing, Requesting
<1>2. /\ myB[w] # Null /\ myB[w] \in BObjs /\ relS[myB[w]] # Null
      /\ myS[w] # Null /\ myS[w] \in SObjs /\ myS[w] # relS[myB[w]]
  BY <1>1 DEF IInv, Control, At, TypeOK
<1>3. CASE /\ \E v \in {"open", "invalid"} : sock' = [sock EXCEPT ![myS[w]] = v]
           /\ GoTo(w, "api_close") /\ UNCHANGED <<fn, want, nKey, conn>>
  <2>1. /\ UNCHANGED <<memory, relS, fn, nKey, acpt, conn, ops, locals, stalled>>
        /\ sock' \in [SObjs -> {"open", "invalid"}] /\ "api_close" \in PCs
    BY <1>1, <1>3 DEF locals, IInv, TypeOK, PCs
  <2>2. pc'[w] = "api_close" => At(w)'
    BY <1>2, <2>1 DEF At, Requesting, locals
  <2> QED
    BY <1>1, <1>2, <1>3, <2>1, <2>2, QuietMove
<1>4. ASSUME sock' = [sock EXCEPT ![myS[w]] = "open"],
             SetIoRequestFunction(w, "api", "Connect"),
             NEW k \in Keys, nKey' = [nKey EXCEPT ![myS[w]] = k], InsertConn(k, myS[w])
      PROVE  IInv'
  <2>1. /\ pc' = [pc EXCEPT ![w] = "post"] /\ want' = [want EXCEPT ![w] = "Connect"]
        /\ fn' = [fn EXCEPT ![myB[w]] = <<"api", "Connect">>]
        /\ conn' = [conn EXCEPT ![k] = myS[w]]
        /\ <<"api", "Connect">> \in Fns /\ "Connect" \in Kinds /\ "post" \in PCs
    BY <1>4 DEF SetIoRequestFunction, GoTo, InsertConn, Fns, Families, Kinds, PCs
  <2>2. /\ TypeOK' /\ OnlyOwn(w)
        /\ pc'[w] = "post" /\ want'[w] = "Connect" /\ fn'[myB[w]] = <<"api", "Connect">>
        /\ LiveB' = LiveB
    <3>1. TypeOK'
      BY <1>1, <1>2, <1>4, <2>1 DEF IInv, TypeOK, memory
    <3>2. /\ OnlyOwn(w) /\ pc'[w] = "post" /\ want'[w] = "Connect"
          /\ fn'[myB[w]] = <<"api", "Connect">>
      BY <1>1, <1>2, <2>1, NullIsDead DEF IInv, TypeOK, OnlyOwn
    <3> QED
      BY <1>1, <3>1, <3>2 DEF LiveB, memory
  <2>3. At(w)'
    BY <1>1, <1>2, <2>2 DEF At, Fits, Family, Kind, Requesting, HandlerPairs
  <2>4. Buffers'
    BY <1>1, BuffersKept DEF IInv, memory
  <2>5. Control' /\ Posted'
    BY <1>1, <2>2, <2>3, OthersKept DEF Posted
  <2>6. Carries(w) /\ Carries(w)'
    BY <1>1, <1>2, <2>2 DEF Carries
  <2>7. Sockets'
    <3>1. \A b \in BObjs : Client(b)' <=> Client(b)
      BY <1>1, <2>2, GoneKept DEF Client
    <3> QED
      BY <1>1, <2>2, <2>3, <2>6, <3>1, OthersKept, SocketsKept DEF IInv, OnlyOwn, memory
  <2>8. /\ \A p \in Ports, i \in Keys : acpt[p][i] # myS[w]
        /\ \A i \in Keys : conn[i] # myS[w]
    BY <1>1, <2>6, NotListedYet
  <2>9. /\ \A p \in Ports, s \in SObjs : AcptSupport(p, s) => AcptSupport(p, s)'
        /\ \A s \in SObjs : ConnSupport(s) => ConnSupport(s)'
    BY <1>1, <2>2, SupportKept
  <2>10. AcptListed'
    <3>1. \A p \in Ports, i \in Keys : acpt[p][i] # Null =>
             /\ acpt[p][i] \in SObjs /\ nKey'[acpt[p][i]] = i
             /\ AcptSupport(p, acpt[p][i])
      BY <1>4, <2>8, MapsBySupport DEF IInv, TypeOK
    <3>2. acpt' = acpt
      BY <1>1
    <3>3. ASSUME NEW p \in Ports, NEW i \in Keys, acpt'[p][i] # Null
          PROVE  /\ nKey'[acpt'[p][i]] = i
                 /\ \E c \in LiveB' : /\ relS'[c] = acpt'[p][i]
                                     /\ fn'[c] = <<p, "Accept">>
                                     /\ Pending(c)'
      <4>1. PICK o \in SObjs : o = acpt[p][i] /\ nKey'[o] = i /\ AcptSupport(p, o)
        BY <3>1, <3>2, <3>3
      <4>2. AcptSupport(p, o)'
        BY <2>9, <4>1
      <4> QED
        BY <3>2, <4>1, <4>2 DEF AcptSupport
    <3> QED
      BY <3>3 DEF AcptListed
  <2>11. ConnMapSound'
    <3>1. \A i \in Keys : i # k /\ conn[i] # Null =>
             conn[i] \in SObjs /\ nKey'[conn[i]] = i /\ ConnSupport(conn[i])
      BY <1>4, <2>8, MapsBySupport DEF IInv, TypeOK
    <3>2. \A i \in Keys : conn'[i] = IF i = k THEN myS[w] ELSE conn[i]
      BY <2>1 DEF IInv, TypeOK
    <3>3. nKey'[myS[w]] = k
      BY <1>2, <1>4 DEF IInv, TypeOK
    <3>4. PICK s : s = myS[w]
      OBVIOUS
    <3>5. ConnSupport(s)'
      BY <1>1, <2>2, <3>4 DEF ConnSupport, Requesting
    <3>6. ASSUME NEW i \in Keys, conn'[i] # Null
          PROVE  \E o : o = conn'[i] /\ nKey'[o] = i /\ ConnSupport(o)'
      <4>1. CASE i = k
        BY <3>2, <3>3, <3>4, <3>5, <4>1
      <4>2. CASE i # k
        <5>1. PICK o \in SObjs : o = conn[i] /\ nKey'[o] = i /\ ConnSupport(o)
          BY <3>1, <3>2, <3>6, <4>2
        <5>2. o = conn'[i] /\ ConnSupport(o)'
          BY <2>9, <3>2, <4>2, <5>1
        <5> QED
          BY <5>1, <5>2
      <4> QED
        BY <4>1, <4>2
    <3> QED
      BY <3>6 DEF ConnMapSound, ConnSupport, Requesting
  <2> QED
    BY <2>2, <2>4, <2>5, <2>7, <2>10, <2>11 DEF IInv
<1> QED
  BY <1>3, <1>4 DEF doApiConnect

-----------------------------------------------------------------------------
(* The main thread *)

\* PostAcceptEx takes a buffer.
LEMMA PostAcceptExInv ==
    ASSUME IInv, PostAcceptEx
    PROVE  IInv'
<1>0. Main \in Threads
  BY DEF Threads
<1>1. /\ pc[Main] = "idle" /\ pc' = [pc EXCEPT ![Main] = "acc_sock"]
      /\ UNCHANGED <<sFree, sHeap, sock, nKey, acpt, conn, ops, myS, want, stalled>>
  BY DEF PostAcceptEx, GoTo
<1>2. PICK b \in BObjs :
        /\ \/ /\ bFree # <<>> /\ b = Last(bFree) /\ bFree' = Front(bFree)
              /\ UNCHANGED bHeap
           \/ /\ bFree = <<>> /\ b \notin bHeap /\ bHeap' = bHeap \cup {b}
              /\ UNCHANGED bFree
        /\ relS' = [relS EXCEPT ![b] = Null]
        /\ fn' = [fn EXCEPT ![b] = NoFn]
        /\ myB' = [myB EXCEPT ![Main] = b]
  BY DEF PostAcceptEx, allocBObj
<1>3. myB[Main] = Null /\ myS[Main] = Null
  BY <1>0, <1>1 DEF IInv, Control, At
<1>4. /\ Buffers' /\ b \notin LiveB /\ LiveB' = LiveB \cup {b}
      /\ bFree' \in Seq(BObjs) /\ Len(bFree') <= PoolCap /\ bHeap' \subseteq BObjs
  BY <1>0, <1>1, <1>2, <1>3, BufferTaken DEF IInv
<1>5. /\ OnlyOwn(Main) /\ pc'[Main] = "acc_sock" /\ myB'[Main] = b /\ relS'[b] = Null
      /\ b # Null /\ myS'[Main] = Null
  <2>1. /\ pc'[Main] = "acc_sock" /\ myB'[Main] = b /\ relS'[b] = Null
        /\ b # Null /\ myS'[Main] = Null
    BY <1>0, <1>1, <1>2, <1>3, ConnAssumption DEF IInv, TypeOK
  <2>2. \A c \in LiveB : fn'[c] = fn[c] /\ relS'[c] = relS[c]
    BY <1>2, <1>4, NullIsDead DEF IInv, TypeOK
  <2> QED
    BY <1>1, <1>2, <2>1, <2>2 DEF IInv, TypeOK, OnlyOwn
<1>6. TypeOK'
  <2>1. relS' \in [BObjs -> SObjs \cup {Null}] /\ fn' \in [BObjs -> Fns]
    BY <1>2 DEF IInv, TypeOK, Fns, NoFn
  <2>2. pc' \in [Threads -> PCs] /\ myB' \in [Threads -> BObjs \cup {Null}]
    BY <1>1, <1>2 DEF IInv, TypeOK, PCs
  <2> QED
    BY <1>1, <1>4, <2>1, <2>2 DEF IInv, TypeOK
<1>7. At(Main)'
  BY <1>5 DEF At, Requesting
<1>8. Control' /\ Posted'
  BY <1>0, <1>1, <1>5, <1>7, OthersKept DEF Posted
<1>9. Sockets'
  <2>1. \A c \in BObjs : Client(c)' <=> Client(c)
    <3> TAKE c \in BObjs
    <3>1. SocketGone(c)' <=> SocketGone(c)
      BY <1>0, <1>1, <1>5, GoneKept
    <3>2. CASE c = b
      BY <1>4, <1>5, <3>2 DEF Client
    <3>3. CASE c # b
      BY <1>2, <1>4, <3>1, <3>3 DEF Client, IInv, TypeOK
    <3> QED
      BY <3>2, <3>3
  <2>2. \A c \in BObjs : Client(c) => relS'[c] = relS[c]
    BY <1>2, <1>4 DEF Client, IInv, TypeOK
  <2>3. ~Carries(Main) /\ ~Carries(Main)'
    BY <1>3, <1>5 DEF Carries
  <2>4. /\ \A op \in ops : ApiOp(op)' <=> ApiOp(op)
        /\ \A u \in Threads : u # Main => (Carries(u)' <=> Carries(u))
    BY <1>0, <1>5, <1>7, OthersKept
  <2> QED
    BY <1>1, <2>1, <2>2, <2>3, <2>4, SocketsKept DEF IInv
<1>10. AcptListed' /\ ConnMapSound'
  BY <1>0, <1>1, <1>4, <1>5, MapsKept DEF Listing, Requesting
<1> QED
  BY <1>4, <1>6, <1>8, <1>9, <1>10 DEF IInv

\* PostAcceptEx links the two objects and lists the accept.
LEMMA AcceptInitInv ==
    ASSUME IInv, AcceptInit
    PROVE  IInv'
<1>0. Main \in Threads
  BY DEF Threads
<1>1. PICK b, s : b = myB[Main] /\ s = myS[Main]
  OBVIOUS
<1>2. PICK p \in Ports, k \in Keys :
        /\ pc[Main] = "acc_init"
        /\ sock' = [sock EXCEPT ![s] = "open"] /\ relS' = [relS EXCEPT ![b] = s]
        /\ fn' = [fn EXCEPT ![b] = <<p, "Accept">>]
        /\ want' = [want EXCEPT ![Main] = "Accept"] /\ pc' = [pc EXCEPT ![Main] = "post"]
        /\ nKey' = [nKey EXCEPT ![s] = k] /\ acpt' = [acpt EXCEPT ![p][k] = s]
        /\ UNCHANGED <<bFree, sFree, bHeap, sHeap, conn, ops, myB, myS, stalled>>
  BY <1>1 DEF AcceptInit, SetIoRequestFunction, GoTo, InsertAcpt, memory
<1>3. /\ b # Null /\ b \in BObjs /\ s # Null /\ s \in SObjs /\ relS[b] = Null
      /\ b \in LiveB /\ p \in {"srv", "nc"} /\ pc[Main] \notin Listing
  BY <1>0, <1>1, <1>2, ConnAssumption
     DEF IInv, Control, At, TypeOK, Buffers, BuffersLive, Listing, Requesting
<1>4. <<p, "Accept">> \in Fns /\ "Accept" \in Kinds /\ "post" \in PCs
  BY <1>3 DEF Fns, Families, Kinds, PCs
<1>5. TypeOK'
  <2>1. acpt' \in [Ports -> [Keys -> SObjs \cup {Null}]]
    BY <1>2, <1>3 DEF IInv, TypeOK
  <2> QED
    BY <1>2, <1>3, <1>4, <2>1 DEF IInv, TypeOK
<1>6. /\ OnlyOwn(Main) /\ pc'[Main] = "post" /\ want'[Main] = "Accept"
      /\ fn'[b] = <<p, "Accept">> /\ relS'[b] = s /\ myB'[Main] = b /\ myS'[Main] = s
      /\ LiveB' = LiveB
  BY <1>0, <1>1, <1>2, <1>3, NullIsDead DEF IInv, TypeOK, OnlyOwn, LiveB
<1>7. At(Main)'
  BY <1>3, <1>6 DEF At, Fits, Family, Kind, Requesting, HandlerPairs
<1>8. Buffers'
  BY <1>2, BuffersKept DEF IInv
<1>9. Control' /\ Posted'
  BY <1>0, <1>2, <1>6, <1>7, OthersKept DEF Posted
<1>10. Carries(Main) /\ ~Carries(Main)'
  BY <1>1, <1>2, <1>3, <1>6 DEF Carries
<1>11. Sockets'
  <2>1. \A c \in BObjs : SocketGone(c)' <=> SocketGone(c)
    BY <1>0, <1>2, <1>6, GoneKept
  <2>2. ~SocketGone(b)
    BY <1>0, <1>1, <1>2, <1>3 DEF SocketGone, IInv, Buffers, BuffersApart
  <2>3. ~Client(b) /\ Client(b)' /\ relS'[b] = myS[Main]
    BY <1>1, <1>3, <1>6, <2>1, <2>2 DEF Client
  <2>4. \A c \in BObjs : c # b => /\ Client(c)' <=> Client(c)
                                  /\ Client(c) => relS'[c] = relS[c]
    BY <1>2, <1>6, <2>1 DEF Client, IInv, TypeOK
  <2>5. /\ \A op \in ops' : ApiOp(op)' => op \in ops /\ ApiOp(op)
        /\ \A op \in ops : ApiOp(op) => op \in ops' /\ ApiOp(op)'
        /\ \A u \in Threads : u # Main => /\ Carries(u)' <=> Carries(u)
                                          /\ Carries(u) => myS'[u] = myS[u]
    BY <1>0, <1>2, <1>6, <1>7, OthersKept
  <2> QED
    BY <1>0, <1>2, <1>3, <1>10, <2>3, <2>4, <2>5, CarriedToClient DEF IInv
<1>12. /\ \A q \in Ports, i \in Keys : acpt[q][i] # s
       /\ \A i \in Keys : conn[i] # s
  BY <1>0, <1>1, <1>3, <1>10, NotListedYet
<1>13. /\ \A q \in Ports, o \in SObjs : AcptSupport(q, o) => AcptSupport(q, o)'
       /\ \A o \in SObjs : ConnSupport(o) => ConnSupport(o)'
  BY <1>0, <1>2, <1>3, <1>6, SupportKept
<1>14. AcptListed'
  <2>1. \A q \in Ports, i \in Keys : acpt[q][i] # Null =>
           /\ acpt[q][i] \in SObjs /\ nKey'[acpt[q][i]] = i
           /\ AcptSupport(q, acpt[q][i])
    BY <1>2, <1>12, MapsBySupport DEF IInv, TypeOK
  <2>2. \A q \in Ports, i \in Keys :
           acpt'[q][i] = IF q = p /\ i = k THEN s ELSE acpt[q][i]
    BY <1>2 DEF IInv, TypeOK
  <2>3. nKey'[s] = k
    BY <1>2, <1>3 DEF IInv, TypeOK
  <2>4. Pending(b)'
    BY <1>0, <1>6 DEF Pending, Requesting
  <2>5. AcptSupport(p, s)'
    BY <1>3, <1>6, <2>4 DEF AcptSupport
  <2>6. ASSUME NEW q \in Ports, NEW i \in Keys, acpt'[q][i] # Null
        PROVE  /\ nKey'[acpt'[q][i]] = i
               /\ \E c \in LiveB' : /\ relS'[c] = acpt'[q][i]
                                   /\ fn'[c] = <<q, "Accept">>
                                   /\ Pending(c)'
    <3>1. PICK o \in SObjs : o = acpt'[q][i] /\ nKey'[o] = i /\ AcptSupport(q, o)'
      <4>1. CASE q = p /\ i = k
        BY <1>3, <2>2, <2>3, <2>5, <4>1
      <4>2. CASE ~(q = p /\ i = k)
        <5>1. acpt'[q][i] = acpt[q][i]
          BY <2>2, <4>2
        <5>2. PICK o \in SObjs : o = acpt[q][i] /\ nKey'[o] = i /\ AcptSupport(q, o)
          BY <2>1, <2>6, <5>1
        <5> QED
          BY <1>13, <5>1, <5>2
      <4> QED
        BY <4>1, <4>2
    <3> QED
      BY <3>1 DEF AcptSupport
  <2> QED
    BY <2>6 DEF AcptListed
<1>15. ConnMapSound'
  <2>1. \A i \in Keys : conn[i] # Null =>
           conn[i] \in SObjs /\ nKey'[conn[i]] = i /\ ConnSupport(conn[i])
    BY <1>2, <1>12, MapsBySupport DEF IInv, TypeOK
  <2>2. conn' = conn
    BY <1>2
  <2>3. \A i \in Keys : conn[i] # Null => nKey'[conn[i]] = i /\ ConnSupport(conn[i])'
    BY <1>13, <2>1, <2>2
  <2> QED
    BY <2>2, <2>3 DEF ConnMapSound, ConnSupport, Requesting
<1> QED
  BY <1>5, <1>8, <1>9, <1>11, <1>14, <1>15 DEF IInv

\* The rest of PostAcceptEx that keeps both objects: its failures.
LEMMA AcceptFailsInv ==
    ASSUME IInv, AcceptNoSObj \/ AcceptNoSocket \/ AcceptRollback
    PROVE  IInv'
<1>0. Main \in Threads
  BY DEF Threads
<1>1. CASE AcceptNoSObj
  <2>1. CASE /\ pc[Main] = "acc_sock" /\ GoTo(Main, "acc_nosock")
             /\ UNCHANGED <<memory, fields, acpt, conn, ops, locals, stalled>>
    <3>1. /\ UNCHANGED <<memory, relS, fn, nKey, acpt, conn, ops, locals, stalled>>
          /\ sock' \in [SObjs -> {"open", "invalid"}] /\ "acc_nosock" \in PCs
          /\ pc[Main] \notin Listing
      BY <2>1 DEF fields, IInv, TypeOK, PCs, Listing, Requesting
    <3>2. myB[Main] # Null /\ relS[myB[Main]] = Null /\ myS[Main] = Null
      BY <1>0, <2>1 DEF IInv, Control, At
    <3>3. pc'[Main] = "acc_nosock" => At(Main)'
      BY <3>1, <3>2 DEF At, Requesting, locals
    <3> QED
      BY <1>0, <2>1, <3>1, <3>2, <3>3, QuietMove
  <2>2. CASE /\ pc[Main] = "acc_nosock" /\ freeBObj(myB[Main]) /\ Return(Main)
             /\ UNCHANGED <<sFree, sHeap, fields, acpt, conn, ops, stalled>>
    BY <1>0, <2>2, FreeBufferInv
  <2> QED
    BY <1>1, <2>1, <2>2 DEF AcceptNoSObj
<1>2. CASE AcceptNoSocket
  <2>1. /\ pc[Main] = "acc_init" /\ GoTo(Main, "acc_freeB")
        /\ UNCHANGED <<memory, relS, fn, nKey, acpt, conn, ops, locals, stalled>>
        /\ sock' \in [SObjs -> {"open", "invalid"}] /\ "acc_freeB" \in PCs
        /\ pc[Main] \notin Listing
    BY <1>2 DEF AcceptNoSocket, fields, IInv, TypeOK, PCs, Listing, Requesting
  <2>2. myB[Main] # Null /\ relS[myB[Main]] = Null /\ myS[Main] # Null
    BY <1>0, <2>1 DEF IInv, Control, At
  <2>3. pc'[Main] = "acc_freeB" => At(Main)'
    BY <2>1, <2>2 DEF At, Requesting, locals
  <2> QED
    BY <1>0, <2>1, <2>2, <2>3, QuietMove
<1>3. CASE AcceptRollback
  <2>1. /\ pc[Main] = "acc_remove" /\ GoTo(Main, "acc_freeB")
        /\ RemoveAcpt(Family(myB[Main]), myS[Main])
        /\ UNCHANGED <<memory, relS, fn, nKey, conn, ops, locals, stalled>>
        /\ sock' \in [SObjs -> {"open", "invalid"}] /\ "acc_freeB" \in PCs
    BY <1>3 DEF AcceptRollback, IInv, TypeOK, PCs
  <2>2. /\ myB[Main] # Null /\ myS[Main] # Null /\ myS[Main] = relS[myB[Main]]
        /\ fn[myB[Main]] \in Ports \X {"Accept"}
    BY <1>0, <2>1 DEF IInv, Control, At
  <2>3. PICK f \in Ports : f = Family(myB[Main]) /\ fn[myB[Main]] = <<f, "Accept">>
    BY <2>2 DEF Family
  <2>4. AcptKept(Main, "acc_freeB")
    BY <1>0, <2>1, <2>2, <2>3, AcptErased
  <2>5. ConnKept(Main, "acc_freeB")
    BY <1>0, <2>1, ConnAlone DEF Requesting
  <2>6. pc'[Main] = "acc_freeB" => At(Main)'
    BY <2>1, <2>2 DEF At, Requesting, locals
  <2> QED
    BY <1>0, <2>1, <2>2, <2>4, <2>5, <2>6, MovesOn
<1> QED
  BY <1>1, <1>2, <1>3

\* PostAcceptEx gives up: the buffer goes first, then the socket object.
LEMMA AcceptFreeInv ==
    ASSUME IInv, AcceptFree
    PROVE  IInv'
<1>0. Main \in Threads
  BY DEF Threads
<1>1. CASE /\ pc[Main] = "acc_freeB" /\ freeBObj(myB[Main])
           /\ myB' = [myB EXCEPT ![Main] = Null] /\ GoTo(Main, "acc_freeS")
           /\ UNCHANGED <<sFree, sHeap, fields, acpt, conn, ops, myS, want, stalled>>
  <2>1. /\ pc' = [pc EXCEPT ![Main] = "acc_freeS"] /\ "acc_freeS" \in PCs
        /\ UNCHANGED <<sFree, sHeap, relS, fn, sock, nKey, acpt, conn, ops, myS, want,
                       stalled>>
    BY <1>1 DEF GoTo, fields, PCs
  <2>2. PICK b : b = myB[Main]
    OBVIOUS
  <2>3. /\ b # Null /\ b \in BObjs /\ myS[Main] # Null /\ relS[b] \in {Null, myS[Main]}
    BY <1>0, <1>1, <2>2 DEF IInv, Control, At, TypeOK
  <2>4. /\ Buffers' /\ LiveB' = LiveB \ {b}
        /\ bFree' \in Seq(BObjs) /\ Len(bFree') <= PoolCap /\ bHeap' \subseteq BObjs
    BY <1>0, <1>1, <2>2, <2>3, BufferGiven DEF IInv
  <2>5. /\ OnlyOwn(Main) /\ pc'[Main] = "acc_freeS" /\ myB'[Main] = Null
        /\ myS'[Main] = myS[Main]
    BY <1>0, <1>1, <2>1 DEF IInv, TypeOK, OnlyOwn
  <2>6. TypeOK'
    BY <1>1, <2>1, <2>4 DEF IInv, TypeOK
  <2>7. At(Main)'
    BY <2>3, <2>5 DEF At, Requesting
  <2>8. Control' /\ Posted'
    BY <1>0, <2>1, <2>5, <2>7, OthersKept DEF Posted
  <2>9. AcptListed' /\ ConnMapSound'
    BY <1>0, <1>1, <2>1, <2>2, <2>4, <2>5, MapsKept DEF Listing, Requesting
  <2>10. /\ \A op \in ops' : ApiOp(op)' => op \in ops /\ ApiOp(op)
         /\ \A op \in ops : ApiOp(op) => op \in ops' /\ ApiOp(op)'
         /\ \A u \in Threads : u # Main => /\ Carries(u)' <=> Carries(u)
                                           /\ Carries(u) => myS'[u] = myS[u]
    BY <1>0, <2>1, <2>5, <2>7, OthersKept
  <2>11. Carries(Main)' /\ ~Client(b)'
    BY <2>3, <2>4, <2>5 DEF Carries, Client
  <2>12. /\ \A c \in BObjs : SocketGone(c)' <=> SocketGone(c)
         /\ ~SocketGone(b)
    <3>1. \A c \in BObjs : SocketGone(c)' <=> SocketGone(c)
      BY <1>0, <1>1, <2>5, GoneKept
    <3>2. ~SocketGone(b)
      BY <1>0, <1>1, <2>2, <2>3 DEF SocketGone, IInv, Buffers, BuffersApart
    <3> QED
      BY <3>1, <3>2
  <2>13. \A c \in BObjs : c # b => /\ Client(c)' <=> Client(c)
                                   /\ Client(c) => relS'[c] = relS[c]
    BY <2>1, <2>4, <2>12 DEF Client
  <2>14. Sockets'
    <3>1. CASE relS[b] = Null
      <4>1. Carries(Main) /\ ~Client(b)
        BY <1>1, <2>2, <2>3, <3>1 DEF Carries, Client
      <4> QED
        BY <2>1, <2>10, <2>11, <2>13, <4>1, SocketsKept DEF IInv
    <3>2. CASE relS[b] # Null
      <4>1. relS[b] = myS[Main] /\ b \in LiveB
        BY <1>0, <2>2, <2>3, <3>2 DEF IInv, Buffers, BuffersLive
      <4>2. ~Carries(Main) /\ Client(b) /\ myS'[Main] = relS[b]
        BY <2>2, <2>3, <2>5, <2>12, <4>1 DEF Carries, Client
      <4> QED
        BY <1>0, <2>1, <2>3, <2>10, <2>11, <2>13, <4>2, ClientToCarried DEF IInv
    <3> QED
      BY <3>1, <3>2
  <2> QED
    BY <2>4, <2>6, <2>8, <2>9, <2>14 DEF IInv
<1>2. CASE /\ pc[Main] = "acc_freeS" /\ freeSObj(myS[Main]) /\ Return(Main)
           /\ UNCHANGED <<bFree, bHeap, fields, acpt, conn, ops, stalled>>
  <2>1. /\ pc' = [pc EXCEPT ![Main] = "idle"] /\ want' = [want EXCEPT ![Main] = Null]
        /\ myB' = [myB EXCEPT ![Main] = Null] /\ myS' = [myS EXCEPT ![Main] = Null]
        /\ UNCHANGED <<bFree, bHeap, relS, fn, sock, nKey, acpt, conn, ops, stalled>>
    BY <1>2 DEF Return, GoTo, fields
  <2>2. myB[Main] = Null /\ myS[Main] # Null /\ myS[Main] \in SObjs
    BY <1>0, <1>2 DEF IInv, Control, At, TypeOK
  <2>3. Carries(Main)
    BY <1>2, <2>2 DEF Carries
  <2>4. myS[Main] \in LiveS
    BY <1>0, <2>3 DEF IInv, Sockets, SocketsLive
  <2>5. /\ sFree' \in Seq(SObjs) /\ Len(sFree') <= PoolCap /\ sHeap' \subseteq SObjs
        /\ IsInjective(sFree') /\ ToSet(sFree') \subseteq sHeap'
        /\ LiveS' = LiveS \ {myS[Main]}
    BY <1>2, <2>2, <2>4, GiveSObj DEF IInv
  <2>6. /\ OnlyOwn(Main) /\ pc'[Main] = "idle" /\ myB'[Main] = Null /\ myS'[Main] = Null
        /\ myB' = myB
    BY <1>0, <2>1, <2>2 DEF IInv, TypeOK, OnlyOwn
  <2>7. TypeOK'
    BY <2>1, <2>5 DEF IInv, TypeOK, PCs
  <2>8. At(Main)'
    BY <2>6 DEF At, Requesting
  <2>9. Buffers'
    BY <2>1, <2>6, BuffersKept DEF IInv
  <2>10. Control' /\ Posted'
    BY <1>0, <2>1, <2>6, <2>8, OthersKept DEF Posted
  <2>11. AcptListed' /\ ConnMapSound'
    BY <1>0, <1>2, <2>1, <2>6, MapsKept DEF Listing, Requesting, LiveB
  <2>12. Sockets'
    <3>1. ~Carries(Main)'
      BY <2>6 DEF Carries
    <3>2. \A c \in BObjs : /\ Client(c)' <=> Client(c)
                           /\ Client(c) => relS'[c] = relS[c]
      BY <1>0, <1>2, <2>1, <2>6, GoneKept DEF Client, LiveB
    <3>3. /\ \A op \in ops' : ApiOp(op)' => op \in ops /\ ApiOp(op)
          /\ \A op \in ops : ApiOp(op) => op \in ops' /\ ApiOp(op)'
          /\ \A u \in Threads : u # Main => /\ Carries(u)' <=> Carries(u)
                                            /\ Carries(u) => myS'[u] = myS[u]
      BY <1>0, <2>1, <2>6, <2>8, OthersKept DEF OnlyOwn
    <3> QED
      BY <1>0, <2>3, <2>5, <3>1, <3>2, <3>3, CarriedGiven DEF IInv
  <2> QED
    BY <2>7, <2>9, <2>10, <2>11, <2>12 DEF IInv
<1> QED
  BY <1>1, <1>2 DEF AcceptFree

\* The sweep takes up or lays down a socket object that it does not own.
LEMMA SweepStep ==
    ASSUME IInv, NEW l, NEW s \in SObjs \cup {Null},
           \/ pc[Main] = "idle" /\ l = "sweep" /\ s # Null
           \/ pc[Main] = "sweep" /\ l = "idle" /\ s = Null,
           pc' = [pc EXCEPT ![Main] = l], myS' = [myS EXCEPT ![Main] = s],
           want' \in [Threads -> Kinds \cup {Null}],
           \A u \in Threads : u # Main => want'[u] = want[u],
           sock' \in [SObjs -> {"open", "invalid"}],
           UNCHANGED <<bFree, sFree, bHeap, sHeap, relS, fn, nKey, acpt, conn, ops, myB,
                       stalled>>
    PROVE  IInv'
<1>0. Main \in Threads
  BY DEF Threads
<1>1. /\ myB[Main] = Null /\ ~Carries(Main)
      /\ pc[Main] # "drop_freeB" /\ pc[Main] \notin Listing
  BY <1>0 DEF IInv, Control, At, Carries, Listing, Requesting
<1>2. /\ OnlyOwn(Main) /\ pc'[Main] = l /\ myB'[Main] = Null /\ myS'[Main] = s
  BY <1>0, <1>1 DEF IInv, TypeOK, OnlyOwn
<1>3. TypeOK'
  BY DEF IInv, TypeOK, PCs
<1>4. At(Main)'
  BY <1>2 DEF At, Requesting
<1>5. Buffers'
  BY BuffersKept DEF IInv
<1>6. Control' /\ Posted'
  BY <1>0, <1>2, <1>4, OthersKept DEF Posted
<1>7. AcptListed' /\ ConnMapSound'
  BY <1>0, <1>1, <1>2, MapsKept DEF LiveB
<1>8. Sockets'
  <2>1. ~Carries(Main)'
    BY <1>2 DEF Carries
  <2>2. \A c \in BObjs : Client(c)' <=> Client(c)
    <3>1. pc'[Main] # "drop_freeB"
      BY <1>2
    <3> QED
      BY <1>0, <1>1, <1>2, <3>1, GoneKept DEF Client, LiveB
  <2> QED
    BY <1>0, <1>1, <1>2, <1>4, <2>1, <2>2, OthersKept, SocketsKept DEF IInv, OnlyOwn
<1> QED
  BY <1>3, <1>5, <1>6, <1>7, <1>8 DEF IInv

\* The sweep finds a silent connection, and closes its socket later.
LEMMA SweepInv ==
    ASSUME IInv, SweepClose \/ \E p \in Ports : SweepFind(p)
    PROVE  IInv'
<1>1. CASE SweepClose
  <2>1. Main \in Threads /\ pc[Main] = "sweep"
    BY <1>1 DEF Threads, SweepClose
  <2>2. myB[Main] = Null
    BY <2>1 DEF IInv, Control, At
  <2>3. /\ pc' = [pc EXCEPT ![Main] = "idle"] /\ myS' = [myS EXCEPT ![Main] = Null]
        /\ want' \in [Threads -> Kinds \cup {Null}]
        /\ \A u \in Threads : u # Main => want'[u] = want[u]
        /\ sock' \in [SObjs -> {"open", "invalid"}] /\ myB' = myB
        /\ UNCHANGED <<bFree, sFree, bHeap, sHeap, relS, fn, nKey, acpt, conn, ops, stalled>>
    BY <1>1, <2>1, <2>2 DEF SweepClose, Return, GoTo, memory, IInv, TypeOK
  <2> QED
    BY <2>1, <2>3, SweepStep
<1>2. ASSUME NEW p \in Ports, SweepFind(p) PROVE IInv'
  <2>1. PICK s \in Listed(p) : myS' = [myS EXCEPT ![Main] = s]
    BY <1>2 DEF SweepFind
  <2>2. s \in SObjs \cup {Null} /\ s # Null
    BY <2>1 DEF Listed, IInv, TypeOK
  <2>3. /\ pc' = [pc EXCEPT ![Main] = "sweep"] /\ pc[Main] = "idle"
        /\ want' \in [Threads -> Kinds \cup {Null}]
        /\ \A u \in Threads : u # Main => want'[u] = want[u]
        /\ sock' \in [SObjs -> {"open", "invalid"}]
        /\ UNCHANGED <<bFree, sFree, bHeap, sHeap, relS, fn, nKey, acpt, conn, ops, myB,
                       stalled>>
    BY <1>2 DEF SweepFind, GoTo, memory, fields, IInv, TypeOK
  <2> QED
    BY <2>1, <2>2, <2>3, SweepStep
<1> QED
  BY <1>1, <1>2

-----------------------------------------------------------------------------
(* The invariant and what follows from it *)

\* main() starts with empty lists, empty maps and no request under way.
LEMMA InitInv == Init => IInv
<1> SUFFICES ASSUME Init PROVE IInv
  OBVIOUS
<1> USE DEF Init
<1>1. /\ bFree = <<>> /\ sFree = <<>> /\ ToSet(bFree) = {} /\ ToSet(sFree) = {}
      /\ IsInjective(bFree) /\ IsInjective(sFree)
  BY EmptySeq DEF ToSet, IsInjective
<1>2. TypeOK
  <2>1. /\ bFree \in Seq(BObjs) /\ Len(bFree) <= PoolCap
        /\ sFree \in Seq(SObjs) /\ Len(sFree) <= PoolCap
    BY ConnAssumption
  <2>2. nKey \in [SObjs -> Keys]
    OBVIOUS
  <2> QED
    BY <2>1, <2>2 DEF TypeOK, Fns, NoFn, PCs
<1>3. LiveB = {} /\ LiveS = {}
  BY DEF LiveB, LiveS
<1>4. Control /\ Posted
  BY DEF Control, At, Posted, Requesting
<1>5. Buffers
  BY <1>1, <1>3 DEF Buffers, BuffersLive, BuffersApart, BuffersHeld
<1>6. Sockets
  BY <1>1, <1>3 DEF Sockets, SocketsLive, SocketsApart, SocketsHeld, Client, Carries
<1>7. AcptListed /\ ConnMapSound
  BY DEF AcptListed, ConnMapSound
<1> QED
  BY <1>2, <1>4, <1>5, <1>6, <1>7 DEF IInv

\* Every step of the main thread and of the workers keeps the invariant.
LEMMA NextInv == IInv /\ [Next]_vars => IInv'
<1> SUFFICES ASSUME IInv, [Next]_vars PROVE IInv'
  OBVIOUS
<1>1. CASE MainStep
  <2>1. CASE AcceptAllocSObj
    BY <2>1, AllocSObjInv DEF AcceptAllocSObj, Threads
  <2> QED
    BY <1>1, <2>1, PostAcceptExInv, AcceptInitInv, AcceptFailsInv, AcceptFreeInv, SweepInv
       DEF MainStep
<1>2. ASSUME NEW w \in Workers, NEW r \in Results, completionRoution(w, r) PROVE IInv'
  BY <1>2, completionRoutionInv DEF Threads
<1>3. ASSUME NEW w \in Workers, ServerHandler(w) PROVE IInv'
  <2>1. w \in Threads
    BY DEF Threads
  <2>2. CASE AcceptCompFailed(w)
    BY <2>1, <2>2, OnAcceptFailedInv DEF AcceptCompFailed
  <2>3. CASE RecvZeroCompFailed(w) \/ RecvCompFailed(w) \/ SendCompFailed(w)
    BY <2>1, <2>3, OnFailedInv DEF RecvZeroCompFailed, RecvCompFailed, SendCompFailed
  <2>4. CASE RecvZeroCompSuccess(w)
    BY <2>1, <2>4, OnZeroRecvInv DEF RecvZeroCompSuccess, Families
  <2>5. CASE SendCompSuccess(w)
    BY <2>1, <2>5, OnSendInv DEF SendCompSuccess
  <2> QED
    BY <1>3, <2>1, <2>2, <2>3, <2>4, <2>5, AcceptSuccessInv, RecvSuccessInv,
       ProcessCommandInv, DealTailInv DEF ServerHandler
<1>4. ASSUME NEW w \in Workers, NotifyHandler(w) PROVE IInv'
  <2>1. w \in Threads
    BY DEF Threads
  <2>2. CASE NC_AcceptCompFailed(w)
    BY <2>1, <2>2, OnAcceptFailedInv DEF NC_AcceptCompFailed
  <2>3. CASE NC_RecvZeroCompFailed(w) \/ NC_RecvCompFailed(w) \/ NC_SendCompFailed(w)
    BY <2>1, <2>3, OnFailedInv DEF NC_RecvZeroCompFailed, NC_RecvCompFailed, NC_SendCompFailed
  <2>4. CASE NC_RecvZeroCompSuccess(w)
    BY <2>1, <2>4, OnZeroRecvInv DEF NC_RecvZeroCompSuccess, Families
  <2>5. CASE NC_SendCompSuccess(w)
    BY <2>1, <2>5, OnSendInv DEF NC_SendCompSuccess
  <2> QED
    BY <1>4, <2>1, <2>2, <2>3, <2>4, <2>5, AcceptSuccessInv, RecvSuccessInv, doNcDataInv
       DEF NotifyHandler
<1>5. ASSUME NEW w \in Workers, ApiHandler(w) PROVE IInv'
  <2>1. w \in Threads
    BY DEF Threads
  <2>2. CASE \/ API_ConnectCompFailed(w) \/ API_SendCompFailed(w)
             \/ API_RecvZeroCompFailed(w) \/ API_RecvCompFailed(w)
    BY <2>1, <2>2, OnApiFailedInv DEF API_ConnectCompFailed, API_SendCompFailed,
       API_RecvZeroCompFailed, API_RecvCompFailed
  <2>3. CASE API_ConnectCompSuccess(w) \/ API_SendCompSuccess(w)
    BY <2>1, <2>3, OnApiSentInv DEF API_ConnectCompSuccess, API_SendCompSuccess
  <2>4. CASE API_RecvZeroCompSuccess(w)
    BY <2>1, <2>4, OnZeroRecvInv DEF API_RecvZeroCompSuccess, Families
  <2> QED
    BY <1>5, <2>1, <2>2, <2>3, <2>4, doApiAllocInv, doApiConnectInv,
       API_RecvCompSuccessInv, DoReturnDataInv DEF ApiHandler
<1>6. ASSUME NEW t \in Threads, Common(t) PROVE IInv'
  <2>1. CASE FreeBufferObj(t)
    BY <2>1, FreeBufferInv DEF FreeBufferObj
  <2> QED
    BY <1>6, <2>1, PostSucceedsInv, PostFailsInv, CSCloseSocketInv, FreeSocketObjInv
       DEF Common
<1>7. CASE UNCHANGED vars
  <2> USE <1>7 DEF vars, memory, fields, locals
  <2>1. TypeOK'
    BY DEF IInv, TypeOK
  <2>2. Control' /\ Posted'
    BY DEF IInv, Control, At, Posted, Fits, Family, Kind
  <2>3. Buffers'
    BY BuffersKept DEF IInv
  <2>4. Sockets'
    BY SocketsKept DEF IInv, Client, LiveB, SocketGone, Carries, ApiOp
  <2>5. AcptListed' /\ ConnMapSound'
    BY DEF IInv, AcptListed, ConnMapSound, LiveB, Pending
  <2> QED
    BY <2>1, <2>2, <2>3, <2>4, <2>5 DEF IInv
<1> QED
  BY <1>1, <1>2, <1>3, <1>4, <1>5, <1>6, <1>7 DEF Next

-----------------------------------------------------------------------------
(* What the invariant says of the runs' properties *)

\* With one owner of each live buffer and no owner of any other, the count
\* of a buffer's owners is one or zero.
LEMMA OwnersOfBuffers ==
    ASSUME TypeOK, Buffers
    PROVE  BufferOwnership
<1>1. ASSUME NEW b \in BObjs, b \notin LiveB
      PROVE  Cardinality(BufferRefs(b)) = 0
  <2>1. BufferRefs(b) = {}
    BY <1>1, ConnAssumption DEF Buffers, BuffersLive, BufferRefs
  <2> QED
    BY <2>1, FS_EmptySet
<1>2. ASSUME NEW b \in LiveB
      PROVE  Cardinality(BufferRefs(b)) = 1
  <2>0. b # Null
    BY NullIsDead
  <2>1. ASSUME NEW t \in Threads, myB[t] = b
        PROVE  \E x : BufferRefs(b) = {x}
    <3>1. {u \in Threads : myB[u] = b} = {t}
      BY <2>0, <2>1 DEF Buffers, BuffersApart
    <3>2. {op \in ops : op.buf = b} = {} /\ {x \in stalled : x[1] = b} = {}
      BY <2>1 DEF Buffers, BuffersApart
    <3> QED
      BY <3>1, <3>2 DEF BufferRefs
  <2>2. ASSUME NEW op \in ops, op.buf = b
        PROVE  \E x : BufferRefs(b) = {x}
    <3>1. {o \in ops : o.buf = b} = {op}
      BY <2>2 DEF Buffers, BuffersApart
    <3>2. {t \in Threads : myB[t] = b} = {} /\ {x \in stalled : x[1] = b} = {}
      BY <2>2 DEF Buffers, BuffersApart
    <3> QED
      BY <3>1, <3>2 DEF BufferRefs
  <2>3. ASSUME NEW y \in stalled, y[1] = b
        PROVE  \E x : BufferRefs(b) = {x}
    <3>1. {x \in stalled : x[1] = b} = {y}
      BY <2>3 DEF Buffers, BuffersApart
    <3>2. {t \in Threads : myB[t] = b} = {} /\ {op \in ops : op.buf = b} = {}
      BY <2>3 DEF Buffers, BuffersApart
    <3> QED
      BY <3>1, <3>2 DEF BufferRefs
  <2>4. \E x : BufferRefs(b) = {x}
    BY <2>1, <2>2, <2>3 DEF Buffers, BuffersHeld
  <2> QED
    BY <2>4, FS_Singleton
<1> QED
  BY <1>1, <1>2 DEF BufferOwnership, Buffers

\* The same for the socket objects.
LEMMA OwnersOfSockets ==
    ASSUME TypeOK, Sockets
    PROVE  SocketOwnership
<1> DEFINE Clients(s) == {b \in LiveB : relS[b] = s /\ ~SocketGone(b)}
           Calls(s) == {op \in ops : op.sock = s /\ relS[op.buf] # s}
           Carriers(s) == {t \in Threads : /\ myS[t] = s
                                           /\ pc[t] # "sweep"
                                           /\ myB[t] = Null \/ relS[myB[t]] # s}
<1>1. ASSUME NEW s \in SObjs
      PROVE  /\ s # Null
             /\ Clients(s) = {b \in BObjs : Client(b) /\ relS[b] = s}
             /\ Calls(s) = {op \in ops : ApiOp(op) /\ op.sock = s}
             /\ Carriers(s) = {t \in Threads : Carries(t) /\ myS[t] = s}
             /\ SocketRefs(s) = Clients(s) \cup Calls(s) \cup Carriers(s)
  <2>1. s # Null
    BY ConnAssumption
  <2>2. Clients(s) = {b \in BObjs : Client(b) /\ relS[b] = s}
    BY <2>1, NullIsDead DEF Client
  <2>3. Calls(s) = {op \in ops : ApiOp(op) /\ op.sock = s}
    BY DEF ApiOp
  <2>4. Carriers(s) = {t \in Threads : Carries(t) /\ myS[t] = s}
    BY <2>1 DEF Carries
  <2> QED
    BY <2>1, <2>2, <2>3, <2>4 DEF SocketRefs
<1> HIDE DEF Clients, Calls, Carriers
<1>2. ASSUME NEW s \in SObjs, s \notin LiveS
      PROVE  Cardinality(SocketRefs(s)) = 0
  <2>1. SocketRefs(s) = {}
    BY <1>1, <1>2 DEF Sockets, SocketsLive
  <2> QED
    BY <2>1, FS_EmptySet
<1>3. ASSUME NEW s \in LiveS
      PROVE  Cardinality(SocketRefs(s)) = 1
  <2>0. s \in SObjs
    BY NullIsDead
  <2>1. ASSUME NEW b \in BObjs, Client(b), relS[b] = s
        PROVE  \E x : SocketRefs(s) = {x}
    <3>1. Clients(s) = {b}
      BY <1>1, <2>0, <2>1 DEF Sockets, SocketsApart
    <3>2. Calls(s) = {} /\ Carriers(s) = {}
      BY <1>1, <2>0, <2>1 DEF Sockets, SocketsApart
    <3> QED
      BY <1>1, <2>0, <3>1, <3>2
  <2>2. ASSUME NEW op \in ops, ApiOp(op), op.sock = s
        PROVE  \E x : SocketRefs(s) = {x}
    <3>1. Calls(s) = {op}
      BY <1>1, <2>0, <2>2 DEF Sockets, SocketsApart
    <3>2. Clients(s) = {} /\ Carriers(s) = {}
      BY <1>1, <2>0, <2>2 DEF Sockets, SocketsApart
    <3> QED
      BY <1>1, <2>0, <3>1, <3>2
  <2>3. ASSUME NEW t \in Threads, Carries(t), myS[t] = s
        PROVE  \E x : SocketRefs(s) = {x}
    <3>1. Carriers(s) = {t}
      BY <1>1, <2>0, <2>3 DEF Sockets, SocketsApart
    <3>2. Clients(s) = {} /\ Calls(s) = {}
      BY <1>1, <2>0, <2>3 DEF Sockets, SocketsApart
    <3> QED
      BY <1>1, <2>0, <3>1, <3>2
  <2>4. \E x : SocketRefs(s) = {x}
    BY <2>1, <2>2, <2>3 DEF Sockets, SocketsHeld
  <2> QED
    BY <2>4, FS_Singleton
<1> QED
  BY <1>2, <1>3 DEF SocketOwnership, Sockets

(***************************************************************************)
(* The inductive invariant, for any number of worker threads, objects,     *)
(* keys and pending requests: at each place of the handlers a thread holds *)
(* what the code there assumes, and every object has one owner.            *)
(***************************************************************************)
THEOREM Invariance == Spec => []IInv
BY InitInv, NextInv, PTL DEF Spec

(***************************************************************************)
(* The fields, lists and maps keep their types, and no free list grows     *)
(* past the size at which freeBObj and freeSObj return to the heap.        *)
(***************************************************************************)
THEOREM TypeCorrect == Spec => []TypeOK
<1>1. IInv => TypeOK
  BY DEF IInv
<1> QED
  BY <1>1, Invariance, PTL

(***************************************************************************)
(* On every path of every handler, failed posts and broken API calls       *)
(* included, a BUFFER_OBJ in use is in one pair of hands and a free one in *)
(* none: no double free, no leak, no OVERLAPPED used twice.                *)
(***************************************************************************)
THEOREM BuffersOwned == Spec => []BufferOwnership
<1>1. IInv => BufferOwnership
  BY OwnersOfBuffers DEF IInv
<1> QED
  BY <1>1, Invariance, PTL

(***************************************************************************)
(* The same for a SOCKET_OBJ, whose owner is its client's buffer, the      *)
(* request of an API call, or the thread that sets it up or frees it.      *)
(***************************************************************************)
THEOREM SocketsOwned == Spec => []SocketOwnership
<1>1. IInv => SocketOwnership
  BY OwnersOfSockets DEF IInv
<1> QED
  BY <1>1, Invariance, PTL

(***************************************************************************)
(* completionRoution always calls the handlers of the request it dequeued, *)
(* and an API completion is never taken for one on the client's socket.    *)
(***************************************************************************)
THEOREM RightHandler == Spec => []HandlerMatchesRequest
<1>1. IInv => HandlerMatchesRequest
  BY DEF IInv, Posted, Fits, HandlerMatchesRequest
<1> QED
  BY <1>1, Invariance, PTL

(***************************************************************************)
(* AcptMap and ConnMap never list an object that was freed or reused, even *)
(* when GetRand repeats a key.                                             *)
(***************************************************************************)
THEOREM MapsAlwaysSound == Spec => []MapsSound
<1>1. IInv => MapsSound
  BY DEF IInv, AcptListed, MapsSound, AcptMapSound
<1> QED
  BY <1>1, Invariance, PTL
=============================================================================
