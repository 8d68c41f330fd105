--------------------------- MODULE ListenerProofs ---------------------------
(***************************************************************************)
(* Proofs about Listener, for every number of ports and clients and every  *)
(* POST_COUNT.                                                             *)
(***************************************************************************)
EXTENDS Listener, SequenceTheorems, TLAPS

\* The types of what Winsock keeps, and of called.
WinsockTypes ==
    /\ at \in [Clients -> {"away", "queued", "silent", "data", "closed"}]
    /\ queue \in [Ports -> Seq(Clients)]
    /\ pending \in [Ports -> Nat]
    /\ event \in [Ports -> BOOLEAN]
    /\ armed \in [Ports -> BOOLEAN]
    /\ called \in [Ports -> BOOLEAN]

\* The backlogs hold the clients that are queued, each once and on its port.
BacklogSound ==
    /\ \A p \in Ports : IsInjective(queue[p])
    /\ \A p \in Ports, c \in Clients :
         c \in ToSet(queue[p]) <=> at[c] = "queued" /\ PortOf[c] = p

\* A connection waits in the backlog only while no AcceptEx is left for it.
NoIdleAccept == \A p \in Ports : queue[p] # <<>> => pending[p] = 0

\* Winsock is armed, or has set the event, on every port of a good round.
ArmedOrSignalled == \A p \in Ports : called[p] => armed[p] \/ event[p]

\* A connection that arrives while Winsock is armed is recorded at once.
ArmedMeansEmpty == \A p \in Ports : armed[p] => queue[p] = <<>>

\* The inductive invariant.
IInv ==
    /\ WinsockTypes
    /\ BacklogSound
    /\ NoIdleAccept
    /\ ArmedOrSignalled
    /\ ArmedMeansEmpty

(***************************************************************************)
(* However often main has reset the event and posted: a client that waits  *)
(* in the backlog has the event of its port set, and no AcceptEx of the    *)
(* port is outstanding, unless the last round of posts on the port failed  *)
(* before AcceptEx every time.                                             *)
(***************************************************************************)
WaiterSignalled ==
    \A c \in Clients :
        at[c] = "queued" /\ called[PortOf[c]]
            => event[PortOf[c]] /\ pending[PortOf[c]] = 0

\* Taking the first element off a list without duplicates.
LEMMA PopFront ==
    ASSUME NEW S, NEW q \in Seq(S), q # <<>>, IsInjective(q)
    PROVE  /\ Head(q) \in S /\ Head(q) \in ToSet(q)
           /\ Tail(q) \in Seq(S)
           /\ IsInjective(Tail(q))
           /\ ToSet(Tail(q)) = ToSet(q) \ {Head(q)}
<1> DEFINE n == Len(q)
<1>1. n \in Nat \ {0} /\ DOMAIN q = 1 .. n
  BY EmptySeq, LenProperties
<1>2. /\ Head(q) = q[1] /\ Head(q) \in S /\ Tail(q) \in Seq(S)
      /\ Len(Tail(q)) = n - 1 /\ DOMAIN Tail(q) = 1 .. (n - 1)
      /\ \A u \in 1 .. (n - 1) : Tail(q)[u] = q[u + 1]
  BY <1>1, HeadTailProperties, LenProperties
<1>3. IsInjective(Tail(q))
  BY <1>1, <1>2 DEF IsInjective
<1>4. Head(q) \in ToSet(q)
  BY <1>1, <1>2 DEF ToSet
<1>5. ASSUME NEW x \in ToSet(Tail(q)) PROVE x \in ToSet(q) \ {Head(q)}
  <2>1. PICK u \in 1 .. (n - 1) : x = q[u + 1]
    BY <1>2 DEF ToSet
  <2>2. u + 1 \in 1 .. n /\ 1 \in 1 .. n /\ u + 1 # 1
    BY <1>1
  <2> QED
    BY <1>1, <1>2, <2>1, <2>2 DEF ToSet, IsInjective
<1>6. ASSUME NEW x \in ToSet(q) \ {Head(q)} PROVE x \in ToSet(Tail(q))
  <2>1. PICK j \in 1 .. n : x = q[j] /\ j # 1
    BY <1>1, <1>2, <1>6 DEF ToSet
  <2>2. j - 1 \in 1 .. (n - 1) /\ (j - 1) + 1 = j
    BY <1>1, <2>1
  <2>3. Tail(q)[j - 1] = x
    BY <1>2, <2>1, <2>2
  <2> QED
    BY <1>2, <2>2, <2>3 DEF ToSet
<1> QED
  BY <1>2, <1>3, <1>4, <1>5, <1>6

\* What push_back() of a new element does to a vector without duplicates.
LEMMA PushBack ==
    ASSUME NEW S, NEW q \in Seq(S), NEW x \in S, IsInjective(q), x \notin ToSet(q)
    PROVE  /\ Append(q, x) \in Seq(S)
           /\ ToSet(Append(q, x)) = ToSet(q) \cup {x}
           /\ IsInjective(Append(q, x))
           /\ Append(q, x) # <<>>
<1> DEFINE n == Len(q)
           r == Append(q, x)
<1>1. n \in Nat /\ DOMAIN q = 1 .. n
  BY LenProperties
<1>2. /\ r \in Seq(S)
      /\ Len(r) = n + 1
      /\ DOMAIN r = 1 .. (n + 1)
      /\ \A u \in 1 .. n : r[u] = q[u]
      /\ r[n + 1] = x
  BY <1>1
<1>3. ToSet(r) = ToSet(q) \cup {x}
  <2>1. ASSUME NEW y \in ToSet(r) PROVE y \in ToSet(q) \cup {x}
    <3>1. PICK u \in 1 .. (n + 1) : y = r[u]
      BY <1>2 DEF ToSet
    <3>2. u \in 1 .. n \/ u = n + 1
      BY <1>1
    <3> QED
      BY <3>1, <3>2, <1>1, <1>2 DEF ToSet
  <2>2. ASSUME NEW y \in ToSet(q) \cup {x} PROVE y \in ToSet(r)
    <3>1. (\E u \in 1 .. n : y = q[u]) \/ y = x
      BY <1>1 DEF ToSet
    <3>2. \A u \in 1 .. n : u \in 1 .. (n + 1)
      BY <1>1
    <3>3. n + 1 \in 1 .. (n + 1)
      BY <1>1
    <3> QED
      BY <3>1, <3>2, <3>3, <1>2 DEF ToSet
  <2> QED
    BY <2>1, <2>2
<1>4. IsInjective(r)
  <2> SUFFICES ASSUME NEW u \in 1 .. (n + 1), NEW j \in 1 .. (n + 1), r[u] = r[j]
               PROVE  u = j
    BY <1>2 DEF IsInjective
  <2>1. (u \in 1 .. n \/ u = n + 1) /\ (j \in 1 .. n \/ j = n + 1)
    BY <1>1
  <2>2. \A k \in 1 .. n : q[k] # x
    BY <1>1 DEF ToSet
  <2> QED
    BY <2>1, <2>2, <1>1, <1>2 DEF IsInjective
<1> QED
  BY <1>1, <1>2, <1>3, <1>4, EmptySeq

\* Taking the element at one position out of a list without duplicates.
LEMMA TakeOut ==
    ASSUME NEW S, NEW q \in Seq(S), IsInjective(q), NEW k \in 1 .. Len(q)
    PROVE  /\ RemoveAt(q, k) \in Seq(S)
           /\ IsInjective(RemoveAt(q, k))
           /\ ToSet(RemoveAt(q, k)) = ToSet(q) \ {q[k]}
<1> DEFINE n == Len(q)
           a == SubSeq(q, 1, k - 1)
           b == SubSeq(q, k + 1, n)
           r == RemoveAt(q, k)
<1>1. n \in Nat /\ DOMAIN q = 1 .. n /\ (\A u \in 1 .. n : q[u] \in S) /\ k \in Nat
  BY LenProperties
<1>a. n \in Nat /\ k \in Nat /\ 1 <= k /\ k <= n
  BY <1>1
<1>2. /\ a \in Seq(S) /\ Len(a) = k - 1
      /\ \A u \in 1 .. (k - 1) : a[u] = q[u]
  <2>1. \A u \in 1 .. (k - 1) : q[u] \in S
    BY <1>1
  <2> QED
    BY <1>1, <2>1, SubSeqProperties
<1>3. /\ b \in Seq(S) /\ Len(b) = n - k
      /\ \A u \in 1 .. (n - k) : b[u] = q[k + u]
  <2>1. \A u \in (k + 1) .. n : q[u] \in S
    BY <1>1
  <2> HIDE DEF b
  <2>2. /\ b \in Seq(S)
        /\ Len(b) = IF k + 1 <= n THEN n - (k + 1) + 1 ELSE 0
        /\ \A u \in 1 .. n - (k + 1) + 1 : b[u] = q[k + 1 + u - 1]
    BY <1>1, <2>1, SubSeqProperties DEF b
  <2>3. Len(b) = n - k
    <3>1. CASE k + 1 <= n
      <4>1. Len(b) = n - (k + 1) + 1
        BY <2>2, <3>1
      <4> QED
        BY <1>a, <4>1
    <3>2. CASE ~(k + 1 <= n)
      <4>1. Len(b) = 0
        BY <2>2, <3>2
      <4>2. n - k = 0
        BY <1>a, <3>2
      <4> QED
        BY <4>1, <4>2
    <3> QED
      BY <3>1, <3>2
  <2>4. \A u \in 1 .. (n - k) : u \in 1 .. n - (k + 1) + 1 /\ k + 1 + u - 1 = k + u
    BY <1>1
  <2> QED
    BY <2>2, <2>3, <2>4
<1>4. r = a \o b
  BY DEF RemoveAt
<1> HIDE DEF a, b, r
<1>5. /\ r \in Seq(S) /\ Len(r) = n - 1 /\ DOMAIN r = 1 .. (n - 1)
      /\ \A u \in 1 .. (n - 1) : r[u] = IF u < k THEN q[u] ELSE q[u + 1]
  <2>1. /\ r \in Seq(S) /\ Len(r) = Len(a) + Len(b)
        /\ \A u \in 1 .. Len(a) + Len(b) : r[u] = IF u <= Len(a) THEN a[u] ELSE b[u - Len(a)]
    BY <1>2, <1>3, <1>4, ConcatProperties
  <2>2. Len(a) + Len(b) = n - 1
    BY <1>1, <1>2, <1>3
  <2>3. DOMAIN r = 1 .. (n - 1)
    BY <2>1, <2>2, LenProperties
  <2>4. ASSUME NEW u \in 1 .. (n - 1)
        PROVE  r[u] = IF u < k THEN q[u] ELSE q[u + 1]
    <3>1. CASE u < k
      <4>1. u <= Len(a) /\ u \in 1 .. (k - 1)
        BY <1>1, <1>2, <3>1
      <4> QED
        BY <1>2, <2>1, <2>2, <3>1, <4>1
    <3>2. CASE ~(u < k)
      <4>1. ~(u <= Len(a)) /\ u - Len(a) \in 1 .. (n - k) /\ k + (u - Len(a)) = u + 1
        BY <1>1, <1>2, <3>2
      <4> QED
        BY <1>3, <2>1, <2>2, <3>2, <4>1
    <3> QED
      BY <3>1, <3>2
  <2> QED
    BY <2>1, <2>2, <2>3, <2>4
<1>6. IsInjective(r)
  <2> SUFFICES ASSUME NEW u \in 1 .. (n - 1), NEW j \in 1 .. (n - 1), r[u] = r[j]
               PROVE  u = j
    BY <1>5 DEF IsInjective
  <2> DEFINE up(x) == IF x < k THEN x ELSE x + 1
  <2>1. up(u) \in 1 .. n /\ up(j) \in 1 .. n
    BY <1>1
  <2>2. q[up(u)] = q[up(j)]
    BY <1>5
  <2>3. up(u) = up(j)
    BY <1>1, <2>1, <2>2 DEF IsInjective
  <2> QED
    BY <1>1, <2>3
<1>7. ToSet(r) = ToSet(q) \ {q[k]}
  <2>1. ASSUME NEW x \in ToSet(r) PROVE x \in ToSet(q) \ {q[k]}
    <3>1. PICK u \in 1 .. (n - 1) : x = r[u]
      BY <1>5 DEF ToSet
    <3>2. PICK j \in 1 .. n : j # k /\ x = q[j]
      <4>1. u \in 1 .. n /\ u + 1 \in 1 .. n
        BY <1>1
      <4> QED
        BY <1>1, <1>5, <3>1, <4>1
    <3> QED
      BY <1>1, <3>2 DEF ToSet, IsInjective
  <2>2. ASSUME NEW x \in ToSet(q) \ {q[k]} PROVE x \in ToSet(r)
    <3>1. PICK j \in 1 .. n : x = q[j] /\ j # k
      BY <1>1, <2>2 DEF ToSet
    <3>2. CASE j < k
      <4>1. j \in 1 .. (n - 1)
        BY <1>1, <3>2
      <4> QED
        BY <1>5, <3>1, <3>2, <4>1 DEF ToSet
    <3>3. CASE j > k
      <4>1. j - 1 \in 1 .. (n - 1) /\ ~(j - 1 < k) /\ (j - 1) + 1 = j
        BY <1>1, <3>3
      <4>2. r[j - 1] = x
        BY <1>5, <3>1, <4>1
      <4> QED
        BY <1>5, <4>1, <4>2 DEF ToSet
    <3> QED
      BY <1>1, <3>1, <3>2, <3>3
  <2> QED
    BY <2>1, <2>2
<1> QED
  BY <1>5, <1>6, <1>7 DEF r

\* The sockets start armed, with empty backlogs and without a round.
LEMMA InitInv == Init => IInv
<1> SUFFICES ASSUME Init PROVE IInv
  OBVIOUS
<1>1. WinsockTypes
  BY EmptySeq DEF Init, WinsockTypes
<1>2. BacklogSound
  <2>1. \A p \in Ports : queue[p] = <<>> /\ DOMAIN queue[p] = {}
    BY DEF Init
  <2> QED
    BY <2>1 DEF Init, BacklogSound, IsInjective, ToSet
<1>3. NoIdleAccept /\ ArmedOrSignalled /\ ArmedMeansEmpty
  BY DEF Init, NoIdleAccept, ArmedOrSignalled, ArmedMeansEmpty
<1> QED
  BY <1>1, <1>2, <1>3 DEF IInv

\* A record keeps a port armed or signalled, and arms only an empty backlog.
LEMMA RecordInv ==
    ASSUME IInv, NEW p \in Ports, NEW q \in Seq(Clients), NEW isArmed \in BOOLEAN,
           Record(p, q, isArmed),
           \/ isArmed = armed[p] /\ called' = called
           \/ isArmed = TRUE /\ called' = [called EXCEPT ![p] = TRUE]
    PROVE  /\ queue' \in [Ports -> Seq(Clients)]
           /\ event' \in [Ports -> BOOLEAN]
           /\ armed' \in [Ports -> BOOLEAN]
           /\ called' \in [Ports -> BOOLEAN]
           /\ queue'[p] = q
           /\ \A r \in Ports : r # p => queue'[r] = queue[r]
           /\ ArmedOrSignalled'
           /\ ArmedMeansEmpty'
<1>1. /\ queue' \in [Ports -> Seq(Clients)]
      /\ event' \in [Ports -> BOOLEAN]
      /\ armed' \in [Ports -> BOOLEAN]
      /\ called' \in [Ports -> BOOLEAN]
  BY DEF IInv, WinsockTypes, Record
<1>2. /\ queue'[p] = q
      /\ event'[p] = (event[p] \/ (isArmed /\ q # <<>>))
      /\ armed'[p] = (isArmed /\ q = <<>>)
  BY DEF IInv, WinsockTypes, Record
<1>3. \A r \in Ports : r # p => /\ queue'[r] = queue[r]
                                /\ event'[r] = event[r]
                                /\ armed'[r] = armed[r]
                                /\ called'[r] = called[r]
  BY DEF IInv, WinsockTypes, Record
<1>4. ArmedMeansEmpty'
  BY <1>2, <1>3 DEF IInv, ArmedMeansEmpty
<1>5. ArmedOrSignalled'
  <2>1. called'[p] => armed[p] \/ event[p] \/ isArmed
    BY DEF IInv, WinsockTypes, ArmedOrSignalled
  <2>2. called'[p] => isArmed \/ event[p]
    BY <2>1 DEF IInv, WinsockTypes, ArmedOrSignalled
  <2>3. called'[p] => armed'[p] \/ event'[p]
    BY <1>2, <2>2
  <2> QED
    BY <1>3, <2>3 DEF IInv, ArmedOrSignalled
<1> QED
  BY <1>1, <1>2, <1>3, <1>4, <1>5

\* Steps that touch neither the backlogs nor Winsock's records.
LEMMA UnrecordedInv ==
    ASSUME IInv, UNCHANGED <<queue, pending, event, armed, called>>,
           at' \in [Clients -> {"away", "queued", "silent", "data", "closed"}],
           \A c \in Clients : at'[c] = "queued" <=> at[c] = "queued"
    PROVE  IInv'
<1>1. WinsockTypes' /\ BacklogSound'
  BY DEF IInv, WinsockTypes, BacklogSound
<1>2. NoIdleAccept' /\ ArmedOrSignalled' /\ ArmedMeansEmpty'
  BY DEF IInv, NoIdleAccept, ArmedOrSignalled, ArmedMeansEmpty
<1> QED
  BY <1>1, <1>2 DEF IInv

\* One client moves into or out of the backlog of its port.
LEMMA OneMoves ==
    ASSUME IInv, NEW c \in Clients, NEW p \in Ports, PortOf[c] = p, NEW a,
           at' = [at EXCEPT ![c] = a],
           IsInjective(queue'[p]),
           c \in ToSet(queue'[p]) <=> a = "queued",
           \A d \in Clients : d # c => (d \in ToSet(queue'[p]) <=> d \in ToSet(queue[p])),
           \A r \in Ports : r # p => queue'[r] = queue[r]
    PROVE  BacklogSound'
<1>1. \A d \in Clients : at'[d] = IF d = c THEN a ELSE at[d]
  BY DEF IInv, WinsockTypes
<1>2. ASSUME NEW r \in Ports PROVE IsInjective(queue'[r])
  BY DEF IInv, BacklogSound
<1>3. ASSUME NEW r \in Ports, NEW d \in Clients
      PROVE  d \in ToSet(queue'[r]) <=> at'[d] = "queued" /\ PortOf[d] = r
  <2>1. d \in ToSet(queue[r]) <=> at[d] = "queued" /\ PortOf[d] = r
    BY DEF IInv, BacklogSound
  <2>2. CASE r = p
    BY <1>1, <2>1, <2>2
  <2>3. CASE r # p
    BY <1>1, <2>1, <2>3
  <2> QED
    BY <2>2, <2>3
<1> QED
  BY <1>2, <1>3 DEF BacklogSound

\* A client that finds no AcceptEx goes to the end of the backlog.
LEMMA ConnectInv == ASSUME IInv, NEW c \in Clients, Connect(c) PROVE IInv'
<1> DEFINE p == PortOf[c]
<1>1. p \in Ports /\ at[c] = "away" /\ called' = called
  BY ListenerAssumption DEF Connect
<1>2. CASE /\ pending[p] > 0
           /\ pending' = [pending EXCEPT ![p] = @ - 1]
           /\ at' = [at EXCEPT ![c] = "silent"]
           /\ UNCHANGED <<queue, event, armed>>
  <2>1. pending' \in [Ports -> Nat] /\ queue[p] = <<>>
    BY <1>1, <1>2 DEF IInv, WinsockTypes, NoIdleAccept
  <2>2. WinsockTypes' /\ BacklogSound'
    BY <1>1, <1>2, <2>1 DEF IInv, WinsockTypes, BacklogSound
  <2>3. NoIdleAccept'
    BY <1>1, <1>2, <2>1 DEF IInv, WinsockTypes, NoIdleAccept
  <2>4. ArmedOrSignalled' /\ ArmedMeansEmpty'
    BY <1>1, <1>2 DEF IInv, ArmedOrSignalled, ArmedMeansEmpty
  <2> QED
    BY <2>2, <2>3, <2>4 DEF IInv
<1>3. CASE /\ pending[p] = 0
           /\ at' = [at EXCEPT ![c] = "queued"]
           /\ Record(p, Append(queue[p], c), armed[p])
           /\ UNCHANGED pending
  <2> DEFINE q == Append(queue[p], c)
  <2>1. queue[p] \in Seq(Clients) /\ armed[p] \in BOOLEAN /\ c \notin ToSet(queue[p])
    BY <1>1 DEF IInv, WinsockTypes, BacklogSound
  <2>2. q \in Seq(Clients) /\ IsInjective(q) /\ ToSet(q) = ToSet(queue[p]) \cup {c}
    BY <1>1, <2>1, PushBack DEF IInv, BacklogSound
  <2>3. /\ queue' \in [Ports -> Seq(Clients)]
        /\ event' \in [Ports -> BOOLEAN]
        /\ armed' \in [Ports -> BOOLEAN]
        /\ called' \in [Ports -> BOOLEAN]
        /\ queue'[p] = q
        /\ \A r \in Ports : r # p => queue'[r] = queue[r]
        /\ ArmedOrSignalled'
        /\ ArmedMeansEmpty'
    BY <1>1, <1>3, <2>1, <2>2, RecordInv
  <2>4. WinsockTypes'
    BY <1>3, <2>3 DEF IInv, WinsockTypes
  <2>5. BacklogSound'
    <3>1. /\ c \in ToSet(queue'[p])
          /\ \A d \in Clients :
               d # c => (d \in ToSet(queue'[p]) <=> d \in ToSet(queue[p]))
      BY <2>2, <2>3
    <3>2. /\ IsInjective(queue'[p])
          /\ \A r \in Ports : r # p => queue'[r] = queue[r]
          /\ at' = [at EXCEPT ![c] = "queued"]
      BY <1>3, <2>2, <2>3
    <3> QED
      BY <1>1, <3>1, <3>2, OneMoves
  <2>6. NoIdleAccept'
    BY <1>3, <2>3 DEF IInv, NoIdleAccept
  <2> QED
    BY <2>3, <2>4, <2>5, <2>6 DEF IInv
<1> QED
  BY <1>2, <1>3 DEF Connect

\* A client that gives up leaves the others in the backlog.
LEMMA GiveUpInv == ASSUME IInv, NEW c \in Clients, GiveUp(c) PROVE IInv'
<1> DEFINE p == PortOf[c]
<1>1. p \in Ports /\ at[c] = "queued"
  BY ListenerAssumption DEF GiveUp
<1>2. PICK k \in 1 .. Len(queue[p]) :
         queue[p][k] = c /\ queue' = [queue EXCEPT ![p] = RemoveAt(@, k)]
  BY DEF GiveUp
<1>3. /\ at' = [at EXCEPT ![c] = "away"]
      /\ UNCHANGED <<pending, event, armed, called>>
  BY DEF GiveUp
<1>4. queue[p] \in Seq(Clients) /\ IsInjective(queue[p])
  BY <1>1 DEF IInv, WinsockTypes, BacklogSound
<1>5. /\ queue'[p] \in Seq(Clients)
      /\ IsInjective(queue'[p])
      /\ ToSet(queue'[p]) = ToSet(queue[p]) \ {c}
      /\ queue' \in [Ports -> Seq(Clients)]
      /\ \A r \in Ports : r # p => queue'[r] = queue[r]
  <2>1. /\ RemoveAt(queue[p], k) \in Seq(Clients)
        /\ IsInjective(RemoveAt(queue[p], k))
        /\ ToSet(RemoveAt(queue[p], k)) = ToSet(queue[p]) \ {queue[p][k]}
    BY <1>4, TakeOut
  <2>2. queue'[p] = RemoveAt(queue[p], k)
    BY <1>1, <1>2 DEF IInv, WinsockTypes
  <2> QED
    BY <1>1, <1>2, <2>1, <2>2 DEF IInv, WinsockTypes
<1>6. queue[p] # <<>>
  BY <1>2, EmptySeq
<1>7. WinsockTypes'
  BY <1>3, <1>5 DEF IInv, WinsockTypes
<1>8. BacklogSound'
  <2>1. /\ c \notin ToSet(queue'[p])
        /\ \A d \in Clients :
             d # c => (d \in ToSet(queue'[p]) <=> d \in ToSet(queue[p]))
    BY <1>5
  <2> QED
    BY <1>1, <1>3, <1>5, <2>1, OneMoves
<1>9. NoIdleAccept' /\ ArmedOrSignalled' /\ ArmedMeansEmpty'
  BY <1>1, <1>3, <1>5, <1>6
     DEF IInv, NoIdleAccept, ArmedOrSignalled, ArmedMeansEmpty
<1> QED
  BY <1>7, <1>8, <1>9 DEF IInv

\* A post that reaches AcceptEx takes the first connection or waits for one.
LEMMA PostAcceptExInv == ASSUME IInv, NEW p \in Ports, PostAcceptEx(p) PROVE IInv'
<1>1. called' = [called EXCEPT ![p] = TRUE]
  BY DEF PostAcceptEx
<1>2. CASE /\ queue[p] = <<>>
           /\ pending' = [pending EXCEPT ![p] = @ + 1]
           /\ Record(p, <<>>, TRUE)
           /\ UNCHANGED at
  <2>1. /\ queue' \in [Ports -> Seq(Clients)]
        /\ event' \in [Ports -> BOOLEAN]
        /\ armed' \in [Ports -> BOOLEAN]
        /\ called' \in [Ports -> BOOLEAN]
        /\ queue'[p] = <<>>
        /\ \A r \in Ports : r # p => queue'[r] = queue[r]
        /\ ArmedOrSignalled'
        /\ ArmedMeansEmpty'
    BY <1>1, <1>2, EmptySeq, RecordInv
  <2>2. WinsockTypes'
    <3>1. pending' \in [Ports -> Nat]
      BY <1>2 DEF IInv, WinsockTypes
    <3> QED
      BY <1>2, <2>1, <3>1 DEF IInv, WinsockTypes
  <2>3. BacklogSound'
    <3>1. at' = at /\ \A r \in Ports : queue'[r] = queue[r]
      BY <1>2, <2>1
    <3>2. /\ \A r \in Ports : IsInjective(queue[r])
          /\ \A r \in Ports, c \in Clients :
               c \in ToSet(queue[r]) <=> at[c] = "queued" /\ PortOf[c] = r
      BY DEF IInv, BacklogSound
    <3> QED
      BY <3>1, <3>2 DEF BacklogSound
  <2>4. NoIdleAccept'
    BY <1>2, <2>1 DEF IInv, WinsockTypes, NoIdleAccept
  <2> QED
    BY <2>1, <2>2, <2>3, <2>4 DEF IInv
<1>3. CASE /\ queue[p] # <<>>
           /\ at' = [at EXCEPT ![Head(queue[p])] = "silent"]
           /\ Record(p, Tail(queue[p]), TRUE)
           /\ UNCHANGED pending
  <2>1. queue[p] \in Seq(Clients) /\ IsInjective(queue[p])
    BY DEF IInv, WinsockTypes, BacklogSound
  <2>c. PICK c \in Clients : c = Head(queue[p])
    BY <1>3, <2>1, PopFront
  <2>2. /\ c \in Clients /\ c \in ToSet(queue[p])
        /\ Tail(queue[p]) \in Seq(Clients)
        /\ IsInjective(Tail(queue[p]))
        /\ ToSet(Tail(queue[p])) = ToSet(queue[p]) \ {c}
    BY <1>3, <2>1, <2>c, PopFront
  <2>3. /\ queue' \in [Ports -> Seq(Clients)]
        /\ event' \in [Ports -> BOOLEAN]
        /\ armed' \in [Ports -> BOOLEAN]
        /\ called' \in [Ports -> BOOLEAN]
        /\ queue'[p] = Tail(queue[p])
        /\ \A r \in Ports : r # p => queue'[r] = queue[r]
        /\ ArmedOrSignalled'
        /\ ArmedMeansEmpty'
    BY <1>1, <1>3, <2>2, RecordInv
  <2>4. PortOf[c] = p
    BY <2>2 DEF IInv, BacklogSound
  <2>5. WinsockTypes'
    BY <1>3, <2>c, <2>3 DEF IInv, WinsockTypes
  <2>6. BacklogSound'
    <3>1. /\ c \notin ToSet(queue'[p])
          /\ \A d \in Clients :
               d # c => (d \in ToSet(queue'[p]) <=> d \in ToSet(queue[p]))
      BY <2>2, <2>3
    <3>2. /\ IsInjective(queue'[p])
          /\ \A r \in Ports : r # p => queue'[r] = queue[r]
          /\ at' = [at EXCEPT ![c] = "silent"]
      BY <1>3, <2>2, <2>3, <2>c
    <3> QED
      BY <2>4, <3>1, <3>2, OneMoves
  <2>7. NoIdleAccept'
    BY <1>3, <2>3 DEF IInv, NoIdleAccept
  <2> QED
    BY <2>3, <2>5, <2>6, <2>7 DEF IInv
<1> QED
  BY <1>2, <1>3 DEF PostAcceptEx

\* A failed call of AcceptEx arms its port like a successful one.
LEMMA PostAcceptExFailsInv ==
    ASSUME IInv, NEW p \in Ports, PostAcceptExFails(p) PROVE IInv'
<1>1. at' = at /\ pending' = pending
  BY DEF PostAcceptExFails
<1>2. CASE UNCHANGED <<queue, event, armed, called>>
  BY <1>1, <1>2, UnrecordedInv DEF IInv, WinsockTypes
<1>3. CASE Record(p, queue[p], TRUE) /\ called' = [called EXCEPT ![p] = TRUE]
  <2>1. queue[p] \in Seq(Clients)
    BY DEF IInv, WinsockTypes
  <2>2. /\ queue' \in [Ports -> Seq(Clients)]
        /\ event' \in [Ports -> BOOLEAN]
        /\ armed' \in [Ports -> BOOLEAN]
        /\ called' \in [Ports -> BOOLEAN]
        /\ \A r \in Ports : queue'[r] = queue[r]
        /\ ArmedOrSignalled'
        /\ ArmedMeansEmpty'
    BY <1>3, <2>1, RecordInv
  <2>3. WinsockTypes' /\ BacklogSound' /\ NoIdleAccept'
    BY <1>1, <2>2 DEF IInv, WinsockTypes, BacklogSound, NoIdleAccept
  <2> QED
    BY <2>2, <2>3 DEF IInv
<1> QED
  BY <1>2, <1>3 DEF PostAcceptExFails

\* WSAResetEvent starts a round: what the last one achieved no longer counts.
LEMMA TestSetInv == ASSUME IInv, TestSet PROVE IInv'
<1>1. /\ event' = [event EXCEPT ![nIndex] = FALSE]
      /\ called' = [called EXCEPT ![nIndex] = FALSE]
      /\ UNCHANGED <<at, queue, pending, armed>>
  BY DEF TestSet
<1>2. WinsockTypes'
  BY <1>1 DEF IInv, WinsockTypes
<1>3. ArmedOrSignalled'
  BY <1>1 DEF IInv, WinsockTypes, ArmedOrSignalled
<1>4. BacklogSound' /\ NoIdleAccept' /\ ArmedMeansEmpty'
  BY <1>1 DEF IInv, BacklogSound, NoIdleAccept, ArmedMeansEmpty
<1> QED
  BY <1>2, <1>3, <1>4 DEF IInv

\* Every step preserves the invariant.
LEMMA NextInv == IInv /\ [Next]_vars => IInv'
<1> SUFFICES ASSUME IInv, [Next]_vars PROVE IInv'
  OBVIOUS
<1>1. ASSUME NEW c \in Clients, Connect(c) \/ GiveUp(c) PROVE IInv'
  BY <1>1, ConnectInv, GiveUpInv
<1>2. ASSUME NEW c \in Clients, Data(c) \/ Age(c) \/ AcceptComp(c) PROVE IInv'
  BY <1>2, UnrecordedInv DEF Data, Age, AcceptComp, IInv, WinsockTypes
<1>3. ASSUME NEW p \in Ports, PostAcceptEx(p) \/ PostAcceptExFails(p) PROVE IInv'
  BY <1>3, PostAcceptExInv, PostAcceptExFailsInv
<1>4. ASSUME TestSet PROVE IInv'
  BY <1>4, TestSetInv
<1>5. ASSUME StartDone \/ WaitForEvents \/ TestUnset \/ UNCHANGED vars PROVE IInv'
  BY <1>5, UnrecordedInv
     DEF StartDone, WaitForEvents, TestUnset, vars, winsock, IInv, WinsockTypes
<1>6. ASSUME PostDone PROVE IInv'
  <2>1. UNCHANGED <<queue, pending, event, armed, called>>
    BY <1>6 DEF PostDone
  <2>2. at' \in [Clients -> {"away", "queued", "silent", "data", "closed"}]
    BY <1>6 DEF PostDone, IInv, WinsockTypes
  <2>3. \A c \in Clients : at'[c] = "queued" <=> at[c] = "queued"
    BY <1>6 DEF PostDone, IInv, WinsockTypes
  <2> QED
    BY <2>1, <2>2, <2>3, UnrecordedInv
<1> QED
  BY <1>1, <1>2, <1>3, <1>4, <1>5, <1>6 DEF Next, Main, Environment

\* The inductive invariant holds in every reachable state.
THEOREM Invariance == Spec => []IInv
<1> QED
  BY InitInv, NextInv, PTL DEF Spec

(***************************************************************************)
(* Main resets an event before it posts, so a port never goes deaf after a *)
(* round in which one PostAcceptEx got as far as AcceptEx.                 *)
(***************************************************************************)
THEOREM NeverDeaf == Spec => []DeafOnlyAfterFailedRound
<1>1. IInv => DeafOnlyAfterFailedRound
  BY DEF IInv, ArmedOrSignalled, DeafOnlyAfterFailedRound, Deaf
<1> QED
  BY <1>1, Invariance, PTL

(***************************************************************************)
(* The client in the backlog is what matters: after a good round it always *)
(* has main's event set, so that main's next wait returns.                 *)
(***************************************************************************)
THEOREM BacklogWakesMain == Spec => []WaiterSignalled
<1>1. IInv => WaiterSignalled
  <2> SUFFICES ASSUME IInv, NEW c \in Clients, at[c] = "queued", called[PortOf[c]]
               PROVE  event[PortOf[c]] /\ pending[PortOf[c]] = 0
    BY DEF WaiterSignalled
  <2>1. PortOf[c] \in Ports
    BY ListenerAssumption
  <2>2. queue[PortOf[c]] # <<>>
    <3>1. c \in ToSet(queue[PortOf[c]])
      BY <2>1 DEF IInv, BacklogSound
    <3>2. ToSet(<<>>) = {}
      BY DEF ToSet
    <3> QED
      BY <3>1, <3>2
  <2> QED
    BY <2>1, <2>2 DEF IInv, ArmedOrSignalled, ArmedMeansEmpty, NoIdleAccept
<1> QED
  BY <1>1, Invariance, PTL
=============================================================================
