---------------------------- MODULE CarrierProofs ----------------------------
(***************************************************************************)
(* Proofs about the two components that face the carrier: the connection   *)
(* it pushes documents on (Notify), for any documents and any sizes, and   *)
(* the commands that are passed on to its API (ApiAnswers), for any        *)
(* commands, any number of them and any documents it answers with.  The    *)
(* two share no state.                                                     *)
(***************************************************************************)
EXTENDS Notify, ApiAnswers, SequenceTheorems, WellFoundedInduction, TLAPS

-----------------------------------------------------------------------------
(***************************************************************************)
(* Induction over the natural numbers, and what FlattenSeq computes.       *)
(***************************************************************************)
\* Every set of numbers that is not empty has a least one.
LEMMA LeastNat ==
    ASSUME NEW T \in SUBSET Nat, T # {}
    PROVE  \E m \in T : \A k \in T : m <= k
<1> DEFINE R == OpToRel(<, Nat)
<1>1. IsWellFoundedOn(R, Nat)
  BY NatLessThanWellFounded
<1>2. \A x, y \in Nat : x < y => <<x, y>> \in R
  BY DEF OpToRel
<1> HIDE DEF R
<1>3. PICK m \in T : \A y \in T : ~ (<<y, m>> \in R)
  BY <1>1, WFMin
<1>4. \A k \in T : ~(k < m)
  BY <1>2, <1>3
<1> QED
  BY <1>4

\* Induction, for a set of numbers.
LEMMA Induction ==
    ASSUME NEW P, 0 \in P, \A m \in Nat : m \in P => m + 1 \in P
    PROVE  Nat \subseteq P
<1> SUFFICES ASSUME Nat \ P # {} PROVE FALSE
  OBVIOUS
<1> DEFINE T == Nat \ P
<1>1. PICK m \in T : \A k \in T : m <= k
  BY LeastNat
<1>2. m # 0 /\ m \in Nat
  OBVIOUS
<1>3. m - 1 \in Nat /\ (m - 1) + 1 = m /\ ~(m <= m - 1)
  BY <1>2
<1>4. m - 1 \in P
  BY <1>1, <1>3
<1> QED
  BY <1>3, <1>4

-----------------------------------------------------------------------------
\* The recursion of FlattenSeq, on the first n sequences of q.
Flattening(q, n, f) ==
    f = [k \in 1 .. n |-> IF k = 1 THEN q[k] ELSE f[k - 1] \o q[k]]

\* g begins with the first n values of f.
Agree(f, g, n) == \A k \in 1 .. n : g[k] = f[k]

\* There is a function as FlattenSeq wants it.
LEMMA FlatteningExists ==
    ASSUME NEW q, NEW n \in Nat
    PROVE  \E f : Flattening(q, n, f)
<1> DEFINE P == {m \in Nat : \E f : Flattening(q, m, f)}
<1>1. 0 \in P
  <2> DEFINE f == [k \in 1 .. 0 |-> {}]
  <2>1. Flattening(q, 0, f)
    BY DEF Flattening
  <2> HIDE DEF f
  <2> QED
    BY <2>1
<1>2. ASSUME NEW m \in Nat, m \in P PROVE m + 1 \in P
  <2>1. PICK f : Flattening(q, m, f)
    BY <1>2
  <2> DEFINE g == [k \in 1 .. m + 1 |->
                     IF k # m + 1 THEN f[k]
                     ELSE IF k = 1 THEN q[k] ELSE f[m] \o q[k]]
             h == [k \in 1 .. m + 1 |-> IF k = 1 THEN q[k] ELSE g[k - 1] \o q[k]]
  <2>2. ASSUME NEW k \in 1 .. m + 1 PROVE g[k] = h[k]
    <3>1. CASE k = 1 /\ k = m + 1
      BY <3>1
    <3>2. CASE k # 1 /\ k = m + 1
      <4>1. k - 1 \in 1 .. m + 1 /\ k - 1 # m + 1 /\ k - 1 = m
        BY <3>2
      <4>2. g[k - 1] = f[m]
        BY <4>1
      <4> QED
        BY <3>2, <4>2
    <3>3. CASE k # m + 1
      <4>1. k \in 1 .. m
        BY <3>3
      <4>2. g[k] = f[k] /\ f[k] = IF k = 1 THEN q[k] ELSE f[k - 1] \o q[k]
        BY <2>1, <3>3, <4>1 DEF Flattening
      <4>3. k # 1 => g[k - 1] = f[k - 1]
        BY <4>1
      <4> QED
        BY <4>2, <4>3
    <3> QED
      BY <3>1, <3>2, <3>3
  <2>3. g = h
    BY <2>2
  <2>4. Flattening(q, m + 1, g)
    BY <2>3 DEF Flattening
  <2> HIDE DEF g, h
  <2> QED
    BY <2>4
<1> HIDE DEF P
<1>3. Nat \subseteq P
  BY <1>1, <1>2, Induction
<1> QED
  BY <1>3 DEF P

\* The recursion has one solution, and a longer one continues a shorter one.
LEMMA FlatteningUnique ==
    ASSUME NEW q, NEW r, NEW n \in Nat, NEW m \in Nat, m <= n,
           Agree(q, r, m), NEW f, Flattening(q, m, f), NEW g, Flattening(r, n, g)
    PROVE  Agree(f, g, m)
<1> DEFINE P == {k \in Nat : k \in 1 .. m => g[k] = f[k]}
<1>1. 0 \in P
  OBVIOUS
<1>2. ASSUME NEW k \in Nat, k \in P PROVE k + 1 \in P
  <2> SUFFICES ASSUME k + 1 \in 1 .. m PROVE g[k + 1] = f[k + 1]
    OBVIOUS
  <2>1. k + 1 \in 1 .. n /\ (k + 1) - 1 = k
    OBVIOUS
  <2>2. f[k + 1] = IF k + 1 = 1 THEN q[k + 1] ELSE f[(k + 1) - 1] \o q[k + 1]
    BY DEF Flattening
  <2>3. g[k + 1] = IF k + 1 = 1 THEN r[k + 1] ELSE g[(k + 1) - 1] \o r[k + 1]
    BY <2>1 DEF Flattening
  <2>4. k + 1 # 1 => g[k] = f[k]
    BY <1>2
  <2>5. r[k + 1] = q[k + 1]
    BY DEF Agree
  <2> QED
    BY <2>1, <2>2, <2>3, <2>4, <2>5
<1> HIDE DEF P
<1>3. Nat \subseteq P
  BY <1>1, <1>2, Induction
<1> QED
  BY <1>3 DEF P, Agree

\* FlattenSeq is the last value of the recursion.
LEMMA FlattenValue ==
    ASSUME NEW q, NEW n \in Nat, n # 0, Len(q) = n
    PROVE  \E f : Flattening(q, n, f) /\ FlattenSeq(q) = f[n]
<1> DEFINE flat == CHOOSE f : f = [k \in 1 .. Len(q) |->
                                     IF k = 1 THEN q[k] ELSE f[k - 1] \o q[k]]
<1>1. FlattenSeq(q) = flat[Len(q)]
  BY DEF FlattenSeq
<1>2. PICK f : Flattening(q, n, f)
  BY FlatteningExists
<1>3. f = [k \in 1 .. Len(q) |-> IF k = 1 THEN q[k] ELSE f[k - 1] \o q[k]]
  BY <1>2 DEF Flattening
<1>4. flat = [k \in 1 .. Len(q) |-> IF k = 1 THEN q[k] ELSE flat[k - 1] \o q[k]]
  BY <1>3, Zenon
<1> HIDE DEF flat
<1>5. Flattening(q, n, flat)
  BY <1>4 DEF Flattening
<1> QED
  BY <1>1, <1>5

\* One more sequence at the end.
LEMMA FlattenAppend ==
    ASSUME NEW S, NEW q \in Seq(Seq(S)), NEW x \in Seq(S), FlattenSeq(q) \in Seq(S)
    PROVE  /\ FlattenSeq(Append(q, x)) = FlattenSeq(q) \o x
           /\ FlattenSeq(Append(q, x)) \in Seq(S)
<1> DEFINE n == Len(q)
           r == Append(q, x)
<1>1. /\ n \in Nat /\ Len(r) = n + 1 /\ r[n + 1] = x
      /\ \A k \in 1 .. n : r[k] = q[k]
  BY LenProperties, AppendProperties
<1>2. PICK g : Flattening(r, n + 1, g) /\ FlattenSeq(r) = g[n + 1]
  <2>1. PICK m, s : m = n + 1 /\ s = r
    OBVIOUS
  <2>2. m \in Nat /\ m # 0 /\ Len(s) = m
    BY <1>1, <2>1
  <2> QED
    BY <2>1, <2>2, FlattenValue
<1> HIDE DEF r
<1>3. g[n + 1] = IF n + 1 = 1 THEN r[n + 1] ELSE g[(n + 1) - 1] \o r[n + 1]
  <2>1. n + 1 \in 1 .. n + 1
    BY <1>1
  <2> QED
    BY <1>2, <2>1 DEF Flattening
<1>4. CASE n = 0
  <2>1. FlattenSeq(q) = q /\ q = <<>>
    BY <1>4, EmptySeq DEF FlattenSeq
  <2>2. g[n + 1] = x
    BY <1>1, <1>3, <1>4
  <2>3. <<>> \o x = x
    BY ConcatEmptySeq
  <2> QED
    BY <1>2, <2>1, <2>2, <2>3 DEF r
<1>5. CASE n # 0
  <2>1. PICK f : Flattening(q, n, f) /\ FlattenSeq(q) = f[n]
    BY <1>1, <1>5, FlattenValue
  <2>2. PICK num, long : num = n /\ long = n + 1
    OBVIOUS
  <2>3. /\ num \in Nat /\ long \in Nat /\ num <= long
        /\ Flattening(q, num, f) /\ Flattening(r, long, g)
        /\ Agree(q, r, num)
    BY <1>1, <1>2, <2>1, <2>2 DEF Agree
  <2>4. Agree(f, g, num)
    BY <2>3, FlatteningUnique
  <2>5. g[n] = f[n]
    BY <1>1, <1>5, <2>2, <2>4 DEF Agree
  <2>6. n + 1 # 1 /\ (n + 1) - 1 = n
    BY <1>1, <1>5
  <2>7. g[n + 1] = f[n] \o x
    BY <1>1, <1>3, <2>5, <2>6
  <2>8. FlattenSeq(q) \o x \in Seq(S)
    BY ConcatProperties
  <2> QED
    BY <1>2, <2>1, <2>7, <2>8 DEF r
<1> QED
  BY <1>4, <1>5

-----------------------------------------------------------------------------
(***************************************************************************)
(* The notification connection.                                            *)
(***************************************************************************)
Byte == Nat \X Nat

TypeInv ==
    /\ data \in [1 .. Cap -> Byte]
    /\ recved \in 0 .. Cap
    /\ request \in {"accept", "zero", "recv", "send", "closed", "crashed"}
    /\ inflight \in Seq(Byte)
    /\ pushed \in 0 .. Len(Pushes)
    /\ acks \in Nat
    /\ handled \in Seq(Seq(Byte))
    /\ FlattenSeq(handled) \in Seq(Byte)
    /\ Stream \in Seq(Byte)
    /\ request = "accept" => recved = 0

(***************************************************************************)
(* Until doNcData is called for the first time the buffer holds the        *)
(* beginning of the first document and zeros behind it, and the rest of    *)
(* that document is under way.                                             *)
(***************************************************************************)
Fresh ==
    /\ acks = 0 /\ request # "send" /\ pushed \in {0, 1}
    /\ \A k \in 1 .. Cap : data[k] = IF k <= recved THEN <<1, k>> ELSE Zero
    /\ pushed = 0 => recved = 0 /\ inflight = <<>>
    /\ pushed = 1 =>
         /\ recved + Len(inflight) = Pushes[1].len
         /\ \A k \in 1 .. Len(inflight) : inflight[k] = <<1, recved + k>>

IInv ==
    /\ TypeInv
    /\ handled = <<>> => Fresh
    /\ FirstPushWhole
    /\ StreamIntact

\* The bytes there are.
LEMMA ByteTypes ==
    /\ Zero \in Byte /\ Feedback \in Byte
    /\ \A i, j \in Nat : <<i, j>> \in Byte /\ (<<i, j>> = Zero <=> i = 0 /\ j = 0)
    /\ \A i, j, k, l \in Nat : <<i, j>> = <<k, l>> => i = k /\ j = l
BY DEF Byte, Zero, Feedback

\* A document's bytes.
LEMMA BytesOf ==
    ASSUME NEW m \in 1 .. Len(Pushes)
    PROVE  /\ Pushes[m].len \in Nat /\ Pushes[m].len >= 2
           /\ Bytes(m) \in Seq(Byte) /\ Len(Bytes(m)) = Pushes[m].len
           /\ \A j \in 1 .. Pushes[m].len : Bytes(m)[j] = <<m, j>>
<1>1. Pushes[m] \in [len : Nat \ {0, 1}, kind : Kinds]
  BY NotifyAssumption, ElementOfSeq
<1>2. Pushes[m].len \in Nat /\ Pushes[m].len >= 2
  BY <1>1
<1>3. m \in Nat
  BY NotifyAssumption, LenProperties
<1>4. \A j \in 1 .. Pushes[m].len : <<m, j>> \in Byte
  BY <1>2, <1>3, ByteTypes
<1>5. PICK n \in Nat : n = Pushes[m].len
  BY <1>2
<1>6. Bytes(m) = [j \in 1 .. n |-> <<m, j>>]
  BY <1>5 DEF Bytes
<1>7. Bytes(m) \in [1 .. n -> Byte]
  BY <1>4, <1>5, <1>6
<1>8. Bytes(m) \in Seq(Byte) /\ Len(Bytes(m)) = n
  BY <1>7
<1> QED
  BY <1>2, <1>5, <1>6, <1>8

\* The buffer as a sequence, and what is received of it.
LEMMA Buffered ==
    ASSUME NEW d \in [1 .. Cap -> Byte], NEW n \in 0 .. Cap
    PROVE  /\ SubSeq(d, 1, n) \in Seq(Byte) /\ Len(SubSeq(d, 1, n)) = n
           /\ \A k \in 1 .. n : SubSeq(d, 1, n)[k] = d[k]
<1>0. Cap \in Nat
  BY NotifyAssumption
<1>1. \A k \in 1 .. n : d[k] \in Byte
  BY <1>0
<1>2. n \in Int /\ 1 \in Int
  BY <1>0
<1>3. /\ SubSeq(d, 1, n) \in Seq(Byte)
      /\ Len(SubSeq(d, 1, n)) = IF 1 <= n THEN n - 1 + 1 ELSE 0
      /\ \A i \in 1 .. n - 1 + 1 : SubSeq(d, 1, n)[i] = d[1 + i - 1]
  BY <1>1, <1>2, SubSeqProperties
<1> QED
  BY <1>0, <1>3

\* The front and the rest of what is under way.
LEMMA Split ==
    ASSUME NEW q \in Seq(Byte), NEW n \in 0 .. Len(q)
    PROVE  LET front == SubSeq(q, 1, n)
               rest == SubSeq(q, n + 1, Len(q))
           IN /\ front \in Seq(Byte) /\ Len(front) = n
              /\ \A k \in 1 .. n : front[k] = q[k]
              /\ rest \in Seq(Byte) /\ Len(rest) = Len(q) - n
              /\ \A k \in 1 .. Len(q) - n : rest[k] = q[n + k]
              /\ front \o rest = q
<1> DEFINE front == SubSeq(q, 1, n)
           rest == SubSeq(q, n + 1, Len(q))
<1>0. Len(q) \in Nat /\ \A k \in 1 .. Len(q) : q[k] \in Byte
  BY LenProperties
<1>1. /\ front \in Seq(Byte)
      /\ Len(front) = IF 1 <= n THEN n - 1 + 1 ELSE 0
      /\ \A i \in 1 .. n - 1 + 1 : front[i] = q[1 + i - 1]
  <2>1. n \in Int /\ 1 \in Int /\ \A k \in 1 .. n : q[k] \in Byte
    BY <1>0
  <2> QED
    BY <2>1, SubSeqProperties
<1>2. /\ rest \in Seq(Byte)
      /\ Len(rest) = IF n + 1 <= Len(q) THEN Len(q) - (n + 1) + 1 ELSE 0
      /\ \A i \in 1 .. Len(q) - (n + 1) + 1 : rest[i] = q[(n + 1) + i - 1]
  <2>1. PICK a, b : a = n + 1 /\ b = Len(q)
    OBVIOUS
  <2>2. a \in Int /\ b \in Int /\ \A k \in a .. b : q[k] \in Byte
    BY <1>0, <2>1
  <2>3. /\ SubSeq(q, a, b) \in Seq(Byte)
        /\ Len(SubSeq(q, a, b)) = IF a <= b THEN b - a + 1 ELSE 0
        /\ \A i \in 1 .. b - a + 1 : SubSeq(q, a, b)[i] = q[a + i - 1]
    BY <2>2, SubSeqProperties
  <2> QED
    BY <2>1, <2>3
<1>3. front \o rest = q
  <2>1. front \o rest \in Seq(Byte) /\ Len(front \o rest) = Len(front) + Len(rest)
    BY <1>1, <1>2, ConcatProperties
  <2>2. \A i \in 1 .. Len(front) + Len(rest) : (front \o rest)[i] =
            IF i <= Len(front) THEN front[i] ELSE rest[i - Len(front)]
    BY <1>1, <1>2, ConcatProperties
  <2>3. Len(front) = n /\ Len(rest) = Len(q) - n
    BY <1>0, <1>1, <1>2
  <2> HIDE DEF front, rest
  <2>4. \A i \in 1 .. Len(q) : (front \o rest)[i] = q[i]
    BY <1>0, <1>1, <1>2, <2>2, <2>3
  <2>5. PICK w : w = front \o rest
    OBVIOUS
  <2>6. w \in Seq(Byte) /\ Len(w) = Len(q) /\ \A i \in 1 .. Len(w) : w[i] = q[i]
    <3>1. Len(front) + Len(rest) = Len(q)
      BY <1>0, <2>3
    <3>2. w \in Seq(Byte) /\ Len(w) = Len(q)
      BY <2>1, <2>5, <3>1, Zenon
    <3>3. \A i \in 1 .. Len(q) : w[i] = q[i]
      BY <2>4, <2>5, Zenon
    <3> QED
      BY <3>2, <3>3, Zenon
  <2>7. w = q
    BY <2>6, SeqEqual
  <2> QED
    BY <2>5, <2>7
<1>4. Len(front) = n /\ \A k \in 1 .. n : front[k] = q[k]
  <2> HIDE DEF front
  <2> QED
    BY <1>0, <1>1
<1>5. Len(rest) = Len(q) - n /\ \A k \in 1 .. Len(q) - n : rest[k] = q[n + k]
  <2> HIDE DEF rest
  <2> QED
    BY <1>0, <1>2
<1>6. front \in Seq(Byte) /\ rest \in Seq(Byte)
  BY <1>1, <1>2
<1> HIDE DEF front, rest
<1>7. /\ front \in Seq(Byte) /\ Len(front) = n
      /\ \A k \in 1 .. n : front[k] = q[k]
      /\ rest \in Seq(Byte) /\ Len(rest) = Len(q) - n
      /\ \A k \in 1 .. Len(q) - n : rest[k] = q[n + k]
      /\ front \o rest = q
  BY <1>3, <1>4, <1>5, <1>6
<1> QED
  BY <1>7 DEF front, rest

\* What the buffer holds of the carrier's stream.
Part == IF request = "send" THEN <<>> ELSE Received

\* It is a sequence of bytes.
LEMMA PartType ==
    ASSUME TypeInv
    PROVE  Part \in Seq(Byte) /\ (recved = 0 => Part = <<>>)
<1>1. Received \in Seq(Byte) /\ Len(Received) = recved
  BY Buffered DEF TypeInv, Received
<1>2. recved = 0 => Received = <<>>
  BY <1>1, EmptySeq
<1>3. <<>> \in Seq(Byte)
  BY EmptySeq
<1> QED
  BY <1>1, <1>2, <1>3 DEF Part

\* One more document.
LEMMA StreamGrows ==
    ASSUME NEW p \in Nat, p + 1 <= Len(Pushes),
           FlattenSeq([m \in 1 .. p |-> Bytes(m)]) \in Seq(Byte)
    PROVE  /\ FlattenSeq([m \in 1 .. p + 1 |-> Bytes(m)])
                = FlattenSeq([m \in 1 .. p |-> Bytes(m)]) \o Bytes(p + 1)
           /\ FlattenSeq([m \in 1 .. p + 1 |-> Bytes(m)]) \in Seq(Byte)
<1> DEFINE q == [m \in 1 .. p |-> Bytes(m)]
           r == [m \in 1 .. p + 1 |-> Bytes(m)]
<1>0. Len(Pushes) \in Nat
  BY NotifyAssumption, LenProperties
<1>1. \A m \in 1 .. p + 1 : Bytes(m) \in Seq(Byte)
  BY <1>0, BytesOf
<1> DEFINE D == Seq(Byte)
<1>2. q \in Seq(D) /\ Len(q) = p
  <2> HIDE DEF D
  <2>1. q \in [1 .. p -> D]
    BY <1>1 DEF D
  <2> HIDE DEF q
  <2> QED
    BY <2>1
<1>3. r = Append(q, Bytes(p + 1))
  <2>1. PICK x : x = Bytes(p + 1)
    OBVIOUS
  <2>2. /\ Len(Append(q, x)) = p + 1
        /\ \A i \in 1 .. p : Append(q, x)[i] = q[i]
        /\ Append(q, x)[p + 1] = x
        /\ Append(q, x) \in Seq(D)
    <3> HIDE DEF q, D
    <3>1. x \in D
      BY <1>1, <2>1 DEF D
    <3> QED
      BY <1>2, <3>1, AppendProperties
  <2>3. r \in Seq(D) /\ Len(r) = p + 1
    <3> HIDE DEF D
    <3>1. r \in [1 .. p + 1 -> D]
      BY <1>1 DEF D
    <3> HIDE DEF r
    <3> QED
      BY <3>1
  <2>4. ASSUME NEW i \in 1 .. p + 1 PROVE Append(q, x)[i] = r[i]
    <3>1. CASE i = p + 1
      BY <2>1, <2>2, <3>1
    <3>2. CASE i # p + 1
      <4>1. i \in 1 .. p
        BY <3>2
      <4> QED
        BY <2>2, <4>1
    <3> QED
      BY <3>1, <3>2
  <2>5. Append(q, x) = r
    <3>1. PICK u, v : u = Append(q, x) /\ v = r
      OBVIOUS
    <3>2. /\ u \in Seq(D) /\ v \in Seq(D) /\ Len(u) = Len(v)
          /\ \A i \in 1 .. Len(u) : u[i] = v[i]
      BY <2>2, <2>3, <2>4, <3>1
    <3>3. u = v
      BY <3>2, SeqEqual
    <3> QED
      BY <3>1, <3>3
  <2> QED
    BY <2>1, <2>5
<1>4. PICK x, s : x = Bytes(p + 1) /\ s = q
  OBVIOUS
<1>5. x \in Seq(Byte) /\ s \in Seq(Seq(Byte)) /\ FlattenSeq(s) \in Seq(Byte)
  BY <1>1, <1>2, <1>4
<1>6. /\ FlattenSeq(Append(s, x)) = FlattenSeq(s) \o x
      /\ FlattenSeq(Append(s, x)) \in Seq(Byte)
  BY <1>5, FlattenAppend
<1> QED
  BY <1>3, <1>4, <1>6

\* Concatenation, as a name that hides what the provers know of it.
Cat(a, b) == a \o b

\* It is associative.
LEMMA CatAssociative ==
    \A a, b, c \in Seq(Byte) : Cat(Cat(a, b), c) = Cat(a, Cat(b, c))
BY ConcatAssociative, SMT DEF Cat

\* A new connection has received nothing.
LEMMA InitInv == NC_Init => IInv
<1> SUFFICES ASSUME NC_Init PROVE IInv
  OBVIOUS
<1>0. Cap \in Nat /\ Len(Pushes) \in Nat
  BY NotifyAssumption, LenProperties
<1>1. /\ data = [k \in 1 .. Cap |-> Zero] /\ recved = 0 /\ request = "accept"
      /\ inflight = <<>> /\ pushed = 0 /\ acks = 0 /\ handled = <<>>
  BY DEF NC_Init
<1>2. FlattenSeq(<<>>) = <<>>
  BY DEF FlattenSeq
<1>3. <<>> \in Seq(Byte) /\ <<>> \in Seq(Seq(Byte))
  BY EmptySeq
<1>4. Stream = <<>>
  <2>1. [m \in 1 .. 0 |-> Bytes(m)] = <<>>
    OBVIOUS
  <2> QED
    BY <1>1, <1>2, <2>1 DEF Stream
<1>5. data \in [1 .. Cap -> Byte]
  BY <1>1, ByteTypes
<1>6. TypeInv
  <2>1. recved \in 0 .. Cap /\ pushed \in 0 .. Len(Pushes) /\ acks \in Nat
    BY <1>0, <1>1
  <2>2. /\ inflight \in Seq(Byte) /\ handled \in Seq(Seq(Byte))
        /\ Stream \in Seq(Byte) /\ FlattenSeq(handled) \in Seq(Byte)
    BY <1>1, <1>2, <1>3, <1>4, Zenon
  <2> QED
    BY <1>1, <1>5, <2>1, <2>2 DEF TypeInv
<1>7. Fresh
  BY <1>0, <1>1 DEF Fresh
<1>8. StreamIntact
  <2>1. Part = <<>>
    BY <1>1, <1>6, PartType
  <2>2. <<>> \o <<>> = <<>>
    BY <1>3, ConcatEmptySeq
  <2> QED
    BY <1>1, <1>2, <1>4, <2>1, <2>2 DEF StreamIntact, Part
<1> QED
  BY <1>1, <1>6, <1>7, <1>8 DEF IInv, FirstPushWhole

\* The carrier pushes a document.
LEMMA PushInv ==
    ASSUME IInv, Push
    PROVE  IInv'
<1>0. Len(Pushes) \in Nat
  BY NotifyAssumption, LenProperties
<1> USE DEF TypeInv
<1>1. /\ pushed + 1 \in 1 .. Len(Pushes) /\ ~Over /\ acks >= pushed
      /\ pushed' = pushed + 1 /\ inflight' = inflight \o Bytes(pushed + 1)
      /\ data' = data /\ recved' = recved /\ request' = request /\ acks' = acks
      /\ handled' = handled
  BY <1>0 DEF Push, IInv
<1>2. PICK B : B = Bytes(pushed + 1)
  OBVIOUS
<1>3. B \in Seq(Byte)
  BY <1>1, <1>2, BytesOf
<1>4. inflight' \in Seq(Byte)
  BY <1>1, <1>2, <1>3, ConcatProperties DEF IInv
<1>5. Stream' = Stream \o B /\ Stream' \in Seq(Byte)
  <2>1. PICK p \in Nat : p = pushed
    BY DEF IInv
  <2>2. FlattenSeq([m \in 1 .. p |-> Bytes(m)]) \in Seq(Byte) /\ p + 1 <= Len(Pushes)
    BY <1>0, <1>1, <2>1 DEF IInv, Stream
  <2>3. /\ FlattenSeq([m \in 1 .. p + 1 |-> Bytes(m)])
             = FlattenSeq([m \in 1 .. p |-> Bytes(m)]) \o Bytes(p + 1)
        /\ FlattenSeq([m \in 1 .. p + 1 |-> Bytes(m)]) \in Seq(Byte)
    BY <2>2, StreamGrows
  <2>4. Stream = FlattenSeq([m \in 1 .. p |-> Bytes(m)])
    BY <2>1 DEF Stream
  <2>5. Stream' = FlattenSeq([m \in 1 .. p + 1 |-> Bytes(m)])
    BY <1>1, <2>1 DEF Stream, Bytes
  <2> QED
    BY <1>2, <2>1, <2>3, <2>4, <2>5
<1>6. TypeInv'
  BY <1>1, <1>4, <1>5 DEF IInv
<1>7. StreamIntact'
  <2>1. PICK H, R, I : H = FlattenSeq(handled) /\ R = Part /\ I = inflight
    OBVIOUS
  <2>2. H \in Seq(Byte) /\ R \in Seq(Byte) /\ I \in Seq(Byte)
    BY <2>1, PartType DEF IInv
  <2>3. Stream = (H \o R) \o I
    BY <1>1, <2>1 DEF IInv, StreamIntact, Part
  <2>4. PICK F : F = H \o R
    OBVIOUS
  <2>5. F \in Seq(Byte)
    BY <2>2, <2>4, ConcatProperties
  <2>6. (F \o I) \o B = F \o (I \o B)
    <3>1. Cat(Cat(F, I), B) = Cat(F, Cat(I, B))
      BY <1>3, <2>2, <2>5, CatAssociative, SMT
    <3> QED
      BY <3>1, Zenon DEF Cat
  <2>7. Stream' = F \o inflight'
    BY <1>1, <1>2, <1>5, <2>1, <2>3, <2>4, <2>6
  <2>8. FlattenSeq(handled') = H /\ Part' = R
    BY <1>1, <2>1 DEF Part, Received
  <2> QED
    BY <2>4, <2>7, <2>8 DEF StreamIntact, Part
<1>8. ASSUME handled = <<>> PROVE Fresh'
  <2>1. Fresh
    BY <1>8 DEF IInv
  <2>2. pushed = 0 /\ recved = 0 /\ inflight = <<>>
    BY <1>1, <2>1 DEF Fresh
  <2>3. inflight' = Bytes(1)
    BY <1>1, <1>2, <1>3, <2>2, ConcatEmptySeq
  <2>4. /\ Len(Bytes(1)) = Pushes[1].len /\ Pushes[1].len \in Nat
        /\ \A j \in 1 .. Pushes[1].len : Bytes(1)[j] = <<1, j>>
    BY <1>1, <2>2, BytesOf
  <2> QED
    BY <1>1, <2>1, <2>2, <2>3, <2>4 DEF Fresh
<1>9. FirstPushWhole'
  BY <1>1 DEF IInv, FirstPushWhole, Bytes
<1> QED
  BY <1>1, <1>6, <1>7, <1>8, <1>9 DEF IInv

\* The buffer with n more bytes in it.
LEMMA Written ==
    ASSUME TypeInv, NEW n \in 1 .. Len(inflight), recved + n <= Cap
    PROVE  /\ Write(n) \in [1 .. Cap -> Byte]
           /\ \A k \in 1 .. Cap :
                Write(n)[k] = IF k \in recved + 1 .. recved + n
                              THEN inflight[k - recved] ELSE data[k]
           /\ SubSeq(Write(n), 1, recved + n) = Received \o SubSeq(inflight, 1, n)
           /\ SubSeq(Write(n), 1, recved + n) \in Seq(Byte)
<1>0. /\ Cap \in Nat /\ recved \in Nat /\ n \in Nat /\ Len(inflight) \in Nat
      /\ recved + n \in 0 .. Cap
  BY NotifyAssumption, LenProperties DEF TypeInv
<1>1. \A k \in 1 .. Len(inflight) : inflight[k] \in Byte
  BY ElementOfSeq DEF TypeInv
<1>2. \A k \in 1 .. Cap :
        Write(n)[k] = IF k \in recved + 1 .. recved + n
                      THEN inflight[k - recved] ELSE data[k]
  BY DEF Write
<1>3. Write(n) \in [1 .. Cap -> Byte]
  <2>1. ASSUME NEW k \in 1 .. Cap
        PROVE  (IF k \in recved + 1 .. recved + n
                THEN inflight[k - recved] ELSE data[k]) \in Byte
    <3>1. CASE k \in recved + 1 .. recved + n
      <4>1. k - recved \in 1 .. Len(inflight)
        BY <1>0, <3>1
      <4> QED
        BY <1>1, <3>1, <4>1
    <3>2. CASE k \notin recved + 1 .. recved + n
      BY <3>2 DEF TypeInv
    <3> QED
      BY <3>1, <3>2
  <2> QED
    BY <2>1 DEF Write
<1>4. PICK w, t, u, v : /\ w = Write(n) /\ t = SubSeq(Write(n), 1, recved + n)
                        /\ u = Received /\ v = SubSeq(inflight, 1, n)
  OBVIOUS
<1>5. /\ t \in Seq(Byte) /\ Len(t) = recved + n
      /\ \A k \in 1 .. recved + n : t[k] = w[k]
  <2>1. PICK c \in 0 .. Cap : c = recved + n
    BY <1>0
  <2>2. /\ SubSeq(w, 1, c) \in Seq(Byte) /\ Len(SubSeq(w, 1, c)) = c
        /\ \A k \in 1 .. c : SubSeq(w, 1, c)[k] = w[k]
    BY <1>3, <1>4, Buffered
  <2> QED
    BY <1>4, <2>1, <2>2
<1>6. u \in Seq(Byte) /\ Len(u) = recved /\ \A k \in 1 .. recved : u[k] = data[k]
  BY <1>4, Buffered DEF TypeInv, Received
<1>7. v \in Seq(Byte) /\ Len(v) = n /\ \A k \in 1 .. n : v[k] = inflight[k]
  <2>1. inflight \in Seq(Byte) /\ n \in 0 .. Len(inflight)
    BY <1>0 DEF TypeInv
  <2> QED
    BY <1>4, <2>1, Split
<1>8. /\ u \o v \in Seq(Byte) /\ Len(u \o v) = recved + n
      /\ \A i \in 1 .. recved + n : (u \o v)[i] =
             IF i <= recved THEN u[i] ELSE v[i - recved]
  BY <1>6, <1>7, ConcatProperties
<1>9. ASSUME NEW i \in 1 .. recved + n PROVE t[i] = (u \o v)[i]
  <2>1. i \in 1 .. Cap /\ t[i] = w[i]
    BY <1>0, <1>5
  <2>2. CASE i <= recved
    <3>1. i \notin recved + 1 .. recved + n /\ i \in 1 .. recved
      BY <1>0, <2>2
    <3> QED
      BY <1>2, <1>4, <1>6, <1>8, <2>1, <2>2, <3>1
  <2>3. CASE ~(i <= recved)
    <3>1. i \in recved + 1 .. recved + n /\ i - recved \in 1 .. n
      BY <1>0, <2>3
    <3> QED
      BY <1>2, <1>4, <1>7, <1>8, <2>1, <2>3, <3>1
  <2> QED
    BY <2>2, <2>3
<1>10. t = u \o v
  <2>1. PICK y : y = u \o v
    OBVIOUS
  <2>2. y \in Seq(Byte) /\ Len(t) = Len(y) /\ \A i \in 1 .. Len(t) : t[i] = y[i]
    BY <1>5, <1>8, <1>9, <2>1
  <2>3. t = y
    BY <1>5, <2>2, SeqEqual
  <2> QED
    BY <2>1, <2>3
<1> QED
  BY <1>2, <1>3, <1>4, <1>5, <1>10

(***************************************************************************)
(* While doNcData has not been called, strstr finds a closing tag only     *)
(* when the whole first document is there.                                 *)
(***************************************************************************)
LEMMA FirstComplete ==
    ASSUME TypeInv, Fresh, NEW n \in 1 .. Len(inflight), recved + n <= Cap
    PROVE  /\ \A k \in 1 .. Cap :
                Write(n)[k] = IF k <= recved + n THEN <<1, k>> ELSE Zero
           /\ pushed = 1
           /\ Complete(Write(n)) => SubSeq(Write(n), 1, recved + n) = Bytes(1)
<1>0. /\ Cap \in Nat /\ recved \in Nat /\ n \in Nat /\ Len(inflight) \in Nat
      /\ recved + n \in 0 .. Cap /\ Len(Pushes) \in Nat
  BY NotifyAssumption, LenProperties DEF TypeInv
<1>1. inflight # <<>>
  BY <1>0, EmptySeq
<1>2. pushed = 1 /\ 1 \in 1 .. Len(Pushes)
  BY <1>0, <1>1 DEF Fresh, TypeInv
<1>3. /\ recved + Len(inflight) = Pushes[1].len
      /\ \A k \in 1 .. Len(inflight) : inflight[k] = <<1, recved + k>>
      /\ \A k \in 1 .. Cap : data[k] = IF k <= recved THEN <<1, k>> ELSE Zero
  BY <1>2 DEF Fresh
<1>4. ASSUME NEW k \in 1 .. Cap
      PROVE  Write(n)[k] = IF k <= recved + n THEN <<1, k>> ELSE Zero
  <2>1. Write(n)[k] = IF k \in recved + 1 .. recved + n
                      THEN inflight[k - recved] ELSE data[k]
    BY Written
  <2>2. CASE k \in recved + 1 .. recved + n
    <3>1. /\ k - recved \in 1 .. Len(inflight) /\ recved + (k - recved) = k
          /\ k <= recved + n
      BY <1>0, <2>2
    <3> QED
      BY <1>3, <2>1, <2>2, <3>1
  <2>3. CASE k \notin recved + 1 .. recved + n
    <3>1. k <= recved <=> k <= recved + n
      BY <1>0, <2>3
    <3> QED
      BY <1>3, <2>1, <2>3, <3>1
  <2> QED
    BY <2>2, <2>3
<1>5. ASSUME Complete(Write(n)) PROVE SubSeq(Write(n), 1, recved + n) = Bytes(1)
  <2>1. PICK k \in 1 .. Cap - 1 :
          /\ \A l \in 1 .. k + 1 : Write(n)[l] # Zero
          /\ \E m \in 1 .. Len(Pushes) :
               /\ Write(n)[k] = <<m, Pushes[m].len - 1>>
               /\ Write(n)[k + 1] = <<m, Pushes[m].len>>
    BY <1>5 DEF Complete
  <2>2. PICK m \in 1 .. Len(Pushes) : Write(n)[k + 1] = <<m, Pushes[m].len>>
    BY <2>1
  <2>3. k + 1 \in 1 .. Cap /\ k + 1 \in 1 .. k + 1 /\ k + 1 \in Nat
    BY <1>0
  <2>4. k + 1 <= recved + n /\ Write(n)[k + 1] = <<1, k + 1>>
    <3>1. Write(n)[k + 1] # Zero
      BY <2>1, <2>3
    <3>2. Write(n)[k + 1] = IF k + 1 <= recved + n THEN <<1, k + 1>> ELSE Zero
      BY <1>4, <2>3
    <3> QED
      BY <3>1, <3>2
  <2>5. m \in Nat /\ Pushes[m].len \in Nat /\ Pushes[1].len \in Nat
    BY <1>0, <1>2, BytesOf
  <2>6. m = 1 /\ k + 1 = Pushes[1].len
    <3>1. <<m, Pushes[m].len>> = <<1, k + 1>>
      BY <2>2, <2>4
    <3> QED
      BY <3>1
  <2>7. recved + n = Pushes[1].len
    BY <1>0, <1>3, <2>4, <2>5, <2>6
  <2>8. PICK c \in 0 .. Cap, w \in [1 .. Cap -> Byte] :
          c = recved + n /\ w = Write(n)
    BY <1>0, Written
  <2>9. /\ SubSeq(w, 1, c) \in Seq(Byte) /\ Len(SubSeq(w, 1, c)) = c
        /\ \A j \in 1 .. c : SubSeq(w, 1, c)[j] = w[j]
    BY Buffered
  <2>10. /\ Bytes(1) \in Seq(Byte) /\ Len(Bytes(1)) = c
         /\ \A j \in 1 .. c : Bytes(1)[j] = <<1, j>>
    BY <1>2, <2>7, <2>8, BytesOf
  <2>11. \A j \in 1 .. c : SubSeq(w, 1, c)[j] = <<1, j>>
    BY <1>0, <1>4, <2>8, <2>9
  <2>12. PICK x, y : x = SubSeq(w, 1, c) /\ y = Bytes(1)
    OBVIOUS
  <2>13. /\ x \in Seq(Byte) /\ y \in Seq(Byte) /\ Len(x) = Len(y)
         /\ \A j \in 1 .. Len(x) : x[j] = y[j]
    BY <2>9, <2>10, <2>11, <2>12
  <2>14. x = y
    BY <2>13, SeqEqual
  <2> QED
    BY <2>8, <2>12, <2>14
<1> QED
  BY <1>2, <1>4, <1>5

\* The front of what is under way joins what is received.
LEMMA Regroup ==
    ASSUME NEW H \in Seq(Byte), NEW R \in Seq(Byte),
           NEW front \in Seq(Byte), NEW rest \in Seq(Byte)
    PROVE  Cat(Cat(H, R), Cat(front, rest)) = Cat(Cat(H, Cat(R, front)), rest)
<1>1. \A a, b \in Seq(Byte) : Cat(a, b) \in Seq(Byte)
  BY ConcatProperties, SMT DEF Cat
<1>2. Cat(front, rest) \in Seq(Byte) /\ Cat(R, front) \in Seq(Byte)
  BY <1>1, Zenon
<1>3. Cat(Cat(R, front), rest) = Cat(R, Cat(front, rest))
  BY CatAssociative, Zenon
<1>4. Cat(Cat(H, R), Cat(front, rest)) = Cat(H, Cat(R, Cat(front, rest)))
  BY <1>2, CatAssociative, SMT
<1>5. Cat(Cat(H, Cat(R, front)), rest) = Cat(H, Cat(Cat(R, front), rest))
  BY <1>2, CatAssociative, SMT
<1> QED
  BY <1>3, <1>4, <1>5, Zenon

\* Bytes arrive, and the document is handled or more is waited for.
LEMMA ReceiveInv ==
    ASSUME IInv, request \in {"accept", "recv"}, NEW n \in 1 .. Len(inflight),
           recved + n <= Cap, MoreOrHandle(n),
           inflight' = SubSeq(inflight, n + 1, Len(inflight)),
           UNCHANGED <<pushed, acks>>
    PROVE  IInv'
<1>0. /\ Cap \in Nat /\ recved \in Nat /\ n \in Nat /\ Len(inflight) \in Nat
      /\ recved + n \in 0 .. Cap /\ ReplyLen \in 0 .. Cap
  BY NotifyAssumption, LenProperties DEF IInv, TypeInv
<1>1. TypeInv /\ FirstPushWhole
  BY DEF IInv
<1>2. pushed' = pushed /\ acks' = acks
  OBVIOUS
<1>3. PICK H, R, I, front, rest : /\ H = FlattenSeq(handled) /\ R = Received
                                  /\ I = inflight /\ front = SubSeq(inflight, 1, n)
                                  /\ rest = SubSeq(inflight, n + 1, Len(inflight))
  OBVIOUS
<1>4. /\ front \in Seq(Byte) /\ rest \in Seq(Byte) /\ Len(rest) = Len(I) - n
      /\ \A k \in 1 .. Len(I) - n : rest[k] = I[n + k]
      /\ front \o rest = I
  <2>1. inflight \in Seq(Byte) /\ n \in 0 .. Len(inflight)
    BY <1>0, <1>1 DEF TypeInv
  <2> QED
    BY <1>3, <2>1, Split
<1>5. inflight' = rest
  BY <1>3
<1>6. H \in Seq(Byte) /\ R \in Seq(Byte) /\ Stream \in Seq(Byte)
  <2>1. Part = Received
    BY DEF Part
  <2> QED
    BY <1>1, <1>3, <2>1, PartType DEF TypeInv
<1>7. Stream = (H \o R) \o I
  BY <1>3 DEF IInv, StreamIntact, Over
<1>8. Stream' = Stream
  BY <1>2 DEF Stream, Bytes
<1>9. PICK w, t : w = Write(n) /\ t = SubSeq(Write(n), 1, recved + n)
  OBVIOUS
<1>10. w \in [1 .. Cap -> Byte] /\ t = R \o front /\ t \in Seq(Byte)
  BY <1>1, <1>3, <1>9, Written
<1>11. Stream = (H \o t) \o rest
  <2>0. /\ H \in Seq(Byte) /\ R \in Seq(Byte)
        /\ front \in Seq(Byte) /\ rest \in Seq(Byte)
    BY <1>4, <1>6
  <2>1. Cat(Cat(H, R), Cat(front, rest)) = Cat(Cat(H, Cat(R, front)), rest)
    BY <2>0, Regroup, SMT
  <2>2. I = front \o rest /\ t = R \o front
    BY <1>4, <1>10
  <2> QED
    BY <1>7, <2>1, <2>2, Zenon DEF Cat
<1>12. handled = <<>> => Fresh
  BY DEF IInv
<1>13. CASE Complete(w)
  <2>1. /\ handled' = Append(handled, t)
        /\ data' = [k \in 1 .. Cap |-> IF k <= ReplyLen THEN Feedback ELSE w[k]]
        /\ recved' = ReplyLen
        /\ request' \in {"crashed", "send", "closed"}
    BY <1>9, <1>13 DEF MoreOrHandle, doNcData
  <2>2. PICK q : q = handled
    OBVIOUS
  <2>3. q \in Seq(Seq(Byte)) /\ H = FlattenSeq(q)
    BY <1>1, <1>3, <2>2 DEF TypeInv
  <2>4. FlattenSeq(handled') = H \o t /\ FlattenSeq(handled') \in Seq(Byte)
    <3>1. /\ FlattenSeq(Append(q, t)) = FlattenSeq(q) \o t
          /\ FlattenSeq(Append(q, t)) \in Seq(Byte)
      BY <1>6, <1>10, <2>3, FlattenAppend
    <3> QED
      BY <2>1, <2>2, <2>3, <3>1
  <2>5. /\ handled' \in Seq(Seq(Byte)) /\ handled' # <<>>
        /\ q = <<>> => handled'[1] = t
        /\ q # <<>> => handled'[1] = q[1]
    <3> DEFINE D == Seq(Byte)
    <3> HIDE DEF D
    <3>1. q \in Seq(D) /\ t \in D
      BY <1>10, <2>3 DEF D
    <3>2. /\ Append(q, t) \in Seq(D)
          /\ Len(q) \in Nat /\ Len(Append(q, t)) = Len(q) + 1
          /\ \A i \in 1 .. Len(q) : Append(q, t)[i] = q[i]
          /\ Append(q, t)[Len(q) + 1] = t
      BY <3>1, AppendProperties, LenProperties
    <3>3. Append(q, t) # <<>>
      <4>1. Len(Append(q, t)) # 0
        BY <3>2
      <4>2. Len(<<>>) = 0
        OBVIOUS
      <4> QED
        BY <4>1, <4>2, Zenon
    <3>4. ASSUME q = <<>> PROVE Append(q, t)[1] = t
      <4>1. Len(q) + 1 = 1
        BY <3>4
      <4> QED
        BY <3>2, <4>1
    <3>5. q # <<>> => 1 \in 1 .. Len(q)
      BY <3>1, EmptySeq
    <3> QED
      BY <2>1, <2>2, <3>2, <3>3, <3>4, <3>5 DEF D
  <2>6. data' \in [1 .. Cap -> Byte]
    BY <1>10, <2>1, ByteTypes
  <2>7. TypeInv'
    <3>1. recved' \in 0 .. Cap /\ request' # "accept"
      BY <1>0, <2>1
    <3> QED
      BY <1>1, <1>2, <1>4, <1>5, <1>6, <1>8, <2>1, <2>4, <2>5, <2>6, <3>1 DEF TypeInv
  <2>8. FirstPushWhole'
    <3>1. CASE q = <<>>
      <4>1. t = Bytes(1)
        BY <1>1, <1>9, <1>12, <1>13, <2>2, <3>1, FirstComplete
      <4> QED
        BY <2>5, <3>1, <4>1 DEF FirstPushWhole, Bytes
    <3>2. CASE q # <<>>
      BY <1>1, <2>2, <2>5, <3>2 DEF FirstPushWhole, Bytes
    <3> QED
      BY <3>1, <3>2
  <2>9. StreamIntact'
    <3>1. (H \o t) \o <<>> = H \o t
      BY <1>6, <1>10, ConcatProperties, ConcatEmptySeq
    <3>2. request' = "send" \/ Over'
      BY <2>1 DEF Over
    <3> QED
      BY <1>5, <1>8, <1>11, <2>4, <3>1, <3>2 DEF StreamIntact
  <2> QED
    BY <2>5, <2>7, <2>8, <2>9 DEF IInv
<1>14. CASE ~Complete(w)
  <2>1. /\ data' = w /\ recved' = recved + n /\ request' \in {"zero", "closed"}
        /\ handled' = handled
    BY <1>9, <1>14 DEF MoreOrHandle
  <2>2. TypeInv'
    BY <1>0, <1>1, <1>2, <1>4, <1>5, <1>6, <1>8, <1>10, <2>1 DEF TypeInv
  <2>3. Received' = t
    BY <1>9, <2>1 DEF Received
  <2>4. StreamIntact'
    BY <1>3, <1>5, <1>8, <1>11, <2>1, <2>3 DEF StreamIntact
  <2>5. ASSUME handled = <<>> PROVE Fresh'
    <3>1. Fresh
      BY <1>12, <2>5
    <3>2. /\ \A k \in 1 .. Cap : w[k] = IF k <= recved + n THEN <<1, k>> ELSE Zero
          /\ pushed = 1
      BY <1>1, <1>9, <3>1, FirstComplete
    <3>3. /\ recved + Len(I) = Pushes[1].len
          /\ \A k \in 1 .. Len(I) : I[k] = <<1, recved + k>>
      BY <1>3, <3>1, <3>2 DEF Fresh
    <3>4. (recved + n) + Len(rest) = Pushes[1].len
      <4>1. Len(I) \in Nat /\ Len(rest) = Len(I) - n
        BY <1>0, <1>3, <1>4
      <4> QED
        BY <1>0, <3>3, <4>1
    <3>5. ASSUME NEW k \in 1 .. Len(rest) PROVE rest[k] = <<1, (recved + n) + k>>
      <4>1. k \in 1 .. Len(I) - n /\ n + k \in 1 .. Len(I)
            /\ recved + (n + k) = (recved + n) + k
        BY <1>0, <1>3, <1>4
      <4> QED
        BY <1>4, <3>3, <4>1
    <3>6. /\ acks' = 0 /\ request' # "send"
          /\ pushed' \in {0, 1} /\ pushed' # 0
      BY <1>2, <2>1, <3>1, <3>2 DEF Fresh
    <3>7. \A k \in 1 .. Cap : data'[k] = IF k <= recved' THEN <<1, k>> ELSE Zero
      BY <2>1, <3>2
    <3>8. /\ recved' + Len(inflight') = Pushes[1].len
          /\ \A k \in 1 .. Len(inflight') : inflight'[k] = <<1, recved' + k>>
      BY <1>5, <2>1, <3>4, <3>5
    <3> QED
      BY <3>6, <3>7, <3>8, Zenon DEF Fresh
  <2>6. FirstPushWhole'
    BY <1>1, <2>1 DEF FirstPushWhole, Bytes
  <2> QED
    BY <2>1, <2>2, <2>4, <2>5, <2>6 DEF IInv
<1> QED
  BY <1>13, <1>14

\* Only the request changes that is pending.
LEMMA RequestInv ==
    ASSUME IInv, request' \in {"zero", "recv", "closed"},
           request # "send" \/ request' = "closed",
           ~Over, UNCHANGED <<data, recved, inflight, pushed, acks, handled>>
    PROVE  IInv'
<1>1. Stream' = Stream /\ Received' = Received
  BY DEF Stream, Bytes, Received
<1>2. TypeInv' /\ FirstPushWhole' /\ (handled' = <<>> => Fresh')
  BY <1>1 DEF IInv, TypeInv, Fresh, FirstPushWhole, Bytes
<1>3. StreamIntact'
  BY <1>1 DEF IInv, StreamIntact, Over
<1> QED
  BY <1>2, <1>3 DEF IInv

\* The feedback is sent, in one piece or several.
LEMMA SendInv ==
    ASSUME IInv, NC_SendCompSuccess
    PROVE  IInv'
<1>0. Cap \in Nat
  BY NotifyAssumption
<1>1. /\ request = "send" /\ data' = data /\ inflight' = inflight /\ pushed' = pushed
      /\ handled' = handled
      /\ \/ request' \in {"send", "closed"} /\ recved' = recved /\ acks' = acks
         \/ request' \in {"zero", "closed"} /\ recved' = 0 /\ acks' = acks + 1
  BY DEF NC_SendCompSuccess
<1>2. handled # <<>>
  BY <1>1 DEF IInv, Fresh
<1>3. Stream' = Stream
  BY <1>1 DEF Stream, Bytes
<1>4. TypeInv'
  BY <1>0, <1>1, <1>3 DEF IInv, TypeInv
<1>5. FirstPushWhole'
  BY <1>1 DEF IInv, FirstPushWhole, Bytes
<1>6. Over' \/ Part' = <<>>
  <2>1. CASE request' = "send"
    BY <2>1 DEF Part
  <2>2. CASE request' = "closed"
    BY <2>2 DEF Over
  <2>3. CASE request' = "zero"
    <3>1. recved' = 0
      BY <1>1, <2>3
    <3>2. SubSeq(data', 1, 0) = <<>>
      BY SubSeqEmpty
    <3> QED
      BY <2>3, <3>1, <3>2 DEF Part, Received
  <2> QED
    BY <1>1, <2>1, <2>2, <2>3
<1>7. StreamIntact'
  BY <1>1, <1>3, <1>6 DEF IInv, StreamIntact, Part, Over
<1> QED
  BY <1>1, <1>2, <1>4, <1>5, <1>7 DEF IInv

\* Every step preserves the invariant.
LEMMA NextInv == IInv /\ [NC_Next]_ncVars => IInv'
<1> SUFFICES ASSUME IInv, [NC_Next]_ncVars PROVE IInv'
  OBVIOUS
<1>1. CASE Push
  BY <1>1, PushInv
<1>2. CASE NC_AcceptCompSuccess
  <2>1. PICK n \in 1 .. Len(inflight) :
          /\ n <= Cap - AddrLen /\ MoreOrHandle(n)
          /\ inflight' = SubSeq(inflight, n + 1, Len(inflight))
    BY <1>2 DEF NC_AcceptCompSuccess
  <2>2. recved + n <= Cap
    <3>1. recved = 0 /\ n \in Nat
      BY <1>2, LenProperties DEF IInv, TypeInv, NC_AcceptCompSuccess
    <3> QED
      BY <2>1, <3>1, NotifyAssumption
  <2> QED
    BY <1>2, <2>1, <2>2, ReceiveInv DEF NC_AcceptCompSuccess
<1>3. CASE NC_RecvZeroCompSuccess
  BY <1>3, RequestInv DEF NC_RecvZeroCompSuccess, Over
<1>4. CASE NC_RecvCompSuccess
  BY <1>4, ReceiveInv DEF NC_RecvCompSuccess
<1>5. CASE NC_RecvCompEmpty
  BY <1>5, RequestInv DEF NC_RecvCompEmpty, Over
<1>6. CASE NC_SendCompSuccess
  BY <1>6, SendInv
<1>7. CASE NC_CompFailed
  BY <1>7, RequestInv DEF NC_CompFailed
<1>8. CASE UNCHANGED ncVars
  BY <1>8 DEF ncVars, IInv, TypeInv, Fresh, FirstPushWhole, StreamIntact, Stream,
              Bytes, Received, Over
<1> QED
  BY <1>1, <1>2, <1>3, <1>4, <1>5, <1>6, <1>7, <1>8 DEF NC_Next, Server

-----------------------------------------------------------------------------
(***************************************************************************)
(* The inductive invariant: before the first document is handled, the      *)
(* buffer is that document's beginning and zeros, so that strstr looks at  *)
(* fresh bytes only.                                                       *)
(***************************************************************************)
THEOREM NotifyInvariance == NC_Spec => []IInv
BY InitInv, NextInv, PTL DEF NC_Spec

(***************************************************************************)
(* The first document of a connection reaches doNcData whole, for any      *)
(* documents, any sizes of buffer and feedback, and wherever TCP cuts it.  *)
(***************************************************************************)
THEOREM FirstPushHandledWhole == NC_Spec => []FirstPushWhole
<1>1. IInv => FirstPushWhole
  BY DEF IInv
<1> QED
  BY <1>1, NotifyInvariance, PTL

(***************************************************************************)
(* While a connection lasts none of the carrier's bytes is lost, repeated  *)
(* or overwritten, although one buffer serves both directions.             *)
(***************************************************************************)
THEOREM StreamKept == NC_Spec => []StreamIntact
<1>1. IInv => StreamIntact
  BY DEF IInv
<1> QED
  BY <1>1, NotifyInvariance, PTL

-----------------------------------------------------------------------------
(***************************************************************************)
(* The commands that are passed on to the API.                             *)
(***************************************************************************)
IsSeq(q) == \E S : q \in Seq(S)

\* The response function of a command.
Response(c) ==
    IF c.cmd = "DISABLE_NUMBER_DATA" THEN "doDisNumberResponse"
    ELSE IF c.sub = "PL_GET_LIST" THEN "doPoolList01Response"
    ELSE IF c.sub = "PL_LLC_INFO" THEN "doPoolList02Response"
    ELSE "doPoolList03Response"

(***************************************************************************)
(* From the command to its reply the buffer object has the command's       *)
(* numbers, its response function and, if it has one, its card.            *)
(***************************************************************************)
Remembered ==
    pc \in {"account", "api"} =>
        LET c == cmds[Len(cmds)]
        IN /\ bobj.nCmd = c.cmd /\ bobj.nSubCmd = c.sub
           /\ bobj.pfn = Response(c)
           /\ c.cmd = "DISABLE_NUMBER_DATA" => bobj.strJrhm = c.arg

\* A reply answers the command c.
Answering(r, c) ==
    /\ \/ r.nCmd = "0xbb"
       \/ r.nCmd = c.cmd /\ r.nSubCmd = c.sub
    /\ r.nCmd = "DISABLE_NUMBER_DATA" => r.jrhm = c.arg

(***************************************************************************)
(* A reply to a command that stops or restores a card names the card of    *)
(* that command, although the card waits in the buffer object while the    *)
(* account is looked up and the API is called.                             *)
(***************************************************************************)
OwnCard ==
    \A n \in 1 .. Len(replies) :
        replies[n].nCmd = "DISABLE_NUMBER_DATA" => replies[n].jrhm = cmds[n].arg

ApiInv ==
    /\ IsSeq(cmds) /\ IsSeq(replies)
    /\ pc \in {"idle", "account", "api", "send", "silent", "crashed"}
    /\ Len(replies) = IF pc \in {"idle", "send"} THEN Len(cmds) ELSE Len(cmds) - 1
    /\ \A n \in 1 .. Len(replies) : Answering(replies[n], cmds[n])
    /\ Remembered

-----------------------------------------------------------------------------
\* What Append does to a sequence of anything.
LEMMA Appended ==
    ASSUME NEW q, IsSeq(q), NEW x
    PROVE  /\ IsSeq(Append(q, x)) /\ Len(q) \in Nat /\ Len(Append(q, x)) = Len(q) + 1
           /\ \A i \in 1 .. Len(q) : Append(q, x)[i] = q[i]
           /\ Append(q, x)[Len(q) + 1] = x
<1>1. PICK S : q \in Seq(S)
  BY DEF IsSeq
<1>2. q \in Seq(S \cup {x})
  BY <1>1
<1>3. /\ Append(q, x) \in Seq(S \cup {x})
      /\ Len(Append(q, x)) = Len(q) + 1
      /\ \A i \in 1 .. Len(q) : Append(q, x)[i] = q[i]
      /\ Append(q, x)[Len(q) + 1] = x
  BY <1>2, AppendProperties
<1>4. IsSeq(Append(q, x))
  BY <1>3 DEF IsSeq
<1> QED
  BY <1>1, <1>3, <1>4, LenProperties

\* A new connection has no commands and no replies.
LEMMA ApiInitInv == Init => ApiInv
<1> SUFFICES ASSUME Init PROVE ApiInv
  OBVIOUS
<1>1. cmds = <<>> /\ replies = <<>> /\ pc = "idle"
  BY DEF Init
<1>2. <<>> \in Seq({}) /\ Len(<<>>) = 0
  OBVIOUS
<1>3. IsSeq(<<>>)
  BY <1>2, Zenon DEF IsSeq
<1> QED
  BY <1>1, <1>2, <1>3 DEF ApiInv, Remembered

\* A command that is taken from the connection, pfn being its response function.
LEMMA CommandInv ==
    ASSUME ApiInv, NEW c, NEW pfn, NEW jrhm, NEW next \in {"account", "silent"},
           Command(c, pfn, jrhm, next),
           next = "account" => pfn = Response(c),
           next = "account" /\ c.cmd = "DISABLE_NUMBER_DATA" => jrhm = c.arg
    PROVE  ApiInv'
<1>1. /\ pc = "idle" /\ pc' = next
      /\ cmds' = Append(cmds, c) /\ replies' = replies
      /\ bobj' = [nCmd |-> c.cmd, nSubCmd |-> c.sub, pfn |-> pfn, strJrhm |-> jrhm]
  BY DEF Command
<1>2. /\ IsSeq(cmds') /\ Len(cmds) \in Nat /\ Len(cmds') = Len(cmds) + 1
      /\ \A i \in 1 .. Len(cmds) : cmds'[i] = cmds[i]
      /\ cmds'[Len(cmds')] = c
  BY <1>1, Appended DEF ApiInv
<1>3. Len(replies) = Len(cmds)
  BY <1>1 DEF ApiInv
<1>4. Len(replies') = Len(cmds') - 1
  BY <1>1, <1>2, <1>3
<1>5. \A n \in 1 .. Len(replies') : Answering(replies'[n], cmds'[n])
  BY <1>1, <1>2, <1>3 DEF ApiInv
<1>6. Remembered'
  BY <1>1, <1>2 DEF Remembered
<1> QED
  BY <1>1, <1>2, <1>4, <1>5, <1>6 DEF ApiInv

\* A reply to the command that is under way.
LEMMA ReplyInv ==
    ASSUME ApiInv, pc \in {"account", "api"}, NEW r, DealTail(r),
           UNCHANGED cmds, Answering(r, cmds[Len(cmds)])
    PROVE  ApiInv'
<1>1. /\ IsSeq(replies') /\ Len(replies) \in Nat /\ Len(replies') = Len(replies) + 1
      /\ \A i \in 1 .. Len(replies) : replies'[i] = replies[i]
      /\ replies'[Len(replies')] = r
  BY Appended DEF ApiInv, DealTail
<1>2. Len(cmds) \in Nat
  BY Appended DEF ApiInv
<1>3. Len(replies') = Len(cmds)
  BY <1>1, <1>2 DEF ApiInv
<1>4. ASSUME NEW n \in 1 .. Len(replies') PROVE Answering(replies'[n], cmds[n])
  <2>1. CASE n \in 1 .. Len(replies)
    BY <1>1, <2>1 DEF ApiInv
  <2>2. CASE n = Len(replies')
    BY <1>1, <1>3, <2>2
  <2> QED
    BY <1>1, <1>4, <2>1, <2>2
<1> QED
  BY <1>1, <1>3, <1>4 DEF ApiInv, Remembered, DealTail

\* The connection stops, without a reply.
LEMMA StopInv ==
    ASSUME ApiInv, pc = "api", pc' \in {"silent", "crashed"},
           UNCHANGED <<cmds, replies>>
    PROVE  ApiInv'
BY DEF ApiInv, Remembered

\* API_Failed answers the command under way.
LEMMA FailedInv ==
    ASSUME ApiInv, pc \in {"account", "api"}, API_Failed, UNCHANGED cmds
    PROVE  ApiInv'
<1>1. Answering(Reply(5, 5, 1, bobj.strJrhm, <<>>), cmds[Len(cmds)])
  BY DEF ApiInv, Remembered, Answering, Reply
<1> QED
  BY <1>1, ReplyInv DEF API_Failed

\* The response function of the command answers it, or stops the connection.
LEMMA ResponseInv ==
    ASSUME ApiInv, pc = "api", NEW doc, pfndoApiResponse(doc), UNCHANGED cmds
    PROVE  ApiInv'
<1> DEFINE c == cmds[Len(cmds)]
<1>0. /\ bobj.nCmd = c.cmd /\ bobj.nSubCmd = c.sub /\ bobj.pfn = Response(c)
      /\ c.cmd = "DISABLE_NUMBER_DATA" => bobj.strJrhm = c.arg
  BY DEF ApiInv, Remembered
<1>1. ASSUME Crash PROVE ApiInv'
  BY <1>1, StopInv DEF Crash
<1>2. ASSUME NEW array, NEW items, NEW code, NEW jrhm, NEW rows,
             DealTail(Reply(array, items, code, jrhm, rows)),
             jrhm = bobj.strJrhm \/ bobj.pfn # "doDisNumberResponse"
      PROVE  ApiInv'
  <2>1. Answering(Reply(array, items, code, jrhm, rows), c)
    BY <1>0, <1>2 DEF Answering, Reply, Response
  <2> QED
    BY <1>2, <2>1, ReplyInv
<1>3. CASE bobj.pfn = "doDisNumberResponse" /\ doDisNumberResponse(doc)
  BY <1>1, <1>2, <1>3 DEF doDisNumberResponse
<1>4. CASE bobj.pfn = "doPoolList01Response" /\ doPoolList01Response(doc)
  BY <1>1, <1>2, <1>4 DEF doPoolList01Response
<1>5. CASE bobj.pfn = "doPoolList02Response" /\ doPoolList02Response(doc)
  BY <1>5, StopInv DEF doPoolList02Response
<1>6. CASE bobj.pfn = "doPoolList03Response" /\ doPoolList03Response(doc)
  BY <1>1, <1>2, <1>6, FailedInv DEF doPoolList03Response
<1> QED
  BY <1>3, <1>4, <1>5, <1>6 DEF pfndoApiResponse

\* Every step preserves the invariant.
LEMMA ApiNextInv == ApiInv /\ [Next]_vars => ApiInv'
<1> SUFFICES ASSUME ApiInv, [Next]_vars PROVE ApiInv'
  OBVIOUS
<1>1. ASSUME NEW j \in Cards, NEW s \in {"DN_DISABLE", "DN_ABLE"},
             doDisabledNumber(j, s)
      PROVE  ApiInv'
  BY <1>1, CommandInv DEF doDisabledNumber, Cmd, Response
<1>2. ASSUME NEW p, NEW s, NEW pfn, doGetPoolList(p, s, pfn),
             pfn = Response(Cmd("POOL_LIST_DATA", s, p))
      PROVE  ApiInv'
  <2>1. Cmd("POOL_LIST_DATA", s, p).cmd # "DISABLE_NUMBER_DATA"
    BY DEF Cmd
  <2> QED
    BY <1>2, <2>1, CommandInv DEF doGetPoolList
<1>3. CASE \/ doGetPoolList("", "PL_GET_LIST", "doPoolList01Response")
           \/ \E p \in Pools :
                doGetPoolList(p, "PL_LLC_INFO", "doPoolList02Response")
           \/ \E p \in Pools :
                doGetPoolList(p, "PL_LLC_POOLQRY", "doPoolList03Response")
  BY <1>2, <1>3 DEF Response, Cmd
<1>4. ASSUME NEW cmd \in {"DISABLE_NUMBER_DATA", "POOL_LIST_DATA"},
             UnknownSubCmd(cmd)
      PROVE  ApiInv'
  BY <1>4, CommandInv DEF UnknownSubCmd
<1>5. CASE AccountFails \/ ApiFails
  BY <1>5, FailedInv DEF AccountFails, ApiFails
<1>6. CASE Escape
  <2>1. Answering([Reply(3, 3, 0, "", <<>>) EXCEPT
                       !.nCmd = "0xbb", !.nSubCmd = "0xbb"], cmds[Len(cmds)])
    BY DEF Answering, Reply
  <2> QED
    BY <1>6, <2>1, ReplyInv DEF Escape
<1>7. CASE doApi
  BY <1>7 DEF doApi, ApiInv, Remembered
<1>8. CASE DoReturnData
  BY <1>8, FailedInv, ResponseInv DEF DoReturnData
<1>9. CASE SendCompSuccess
  BY <1>9 DEF SendCompSuccess, ApiInv, Remembered
<1>10. CASE UNCHANGED vars
  BY <1>10 DEF vars, ApiInv, Remembered
<1> QED
  BY <1>1, <1>3, <1>4, <1>5, <1>6, <1>7, <1>8, <1>9, <1>10 DEF Next

-----------------------------------------------------------------------------
(***************************************************************************)
(* The inductive invariant: while a command is under way, the buffer       *)
(* object's fields are that command's and no earlier one's.                *)
(***************************************************************************)
THEOREM ApiInvariance == Spec => []ApiInv
BY ApiInitInv, ApiNextInv, PTL DEF Spec

(***************************************************************************)
(* One reply per command and in their order, each with its command's       *)
(* numbers or those of the error reply, for any documents of the API.      *)
(***************************************************************************)
THEOREM AnsweredInOrder == Spec => []RepliesInOrder
<1>1. ApiInv => RepliesInOrder
  BY DEF ApiInv, RepliesInOrder, Answering
<1> QED
  BY <1>1, ApiInvariance, PTL

\* A card that is stopped or restored is the one the reply names.
THEOREM CardsNotMixed == Spec => []OwnCard
<1>1. ApiInv => OwnCard
  BY DEF ApiInv, OwnCard, Answering
<1> QED
  BY <1>1, ApiInvariance, PTL

-----------------------------------------------------------------------------
\* The positions, up to n, of commands that stop or restore a card.
Stops(q, n) ==
    {k \in 1 .. n : q[k].cmd = "DISABLE_NUMBER_DATA" /\ q[k].sub # "unknown"}

LastStop(q, n) == CHOOSE x \in Stops(q, n) : \A y \in Stops(q, n) : x >= y

\* The card of the last of them.
CardIn(q, n) == IF Stops(q, n) = {} THEN "" ELSE q[LastStop(q, n)].arg

\* A set of positions that is not empty has a last one.
LEMMA GreatestNat ==
    ASSUME NEW n \in Nat, NEW T \in SUBSET (1 .. n), T # {}
    PROVE  \E m \in T : \A k \in T : m >= k
<1> DEFINE B == {b \in Nat : \A k \in T : b >= k}
<1>1. n \in B
  OBVIOUS
<1>2. PICK m \in B : \A b \in B : m <= b
  <2>1. B \in SUBSET Nat /\ B # {}
    BY <1>1
  <2> HIDE DEF B
  <2> QED
    BY <2>1, LeastNat
<1>3. m \in Nat /\ \A k \in T : m >= k
  BY <1>2
<1>4. ASSUME m \notin T PROVE FALSE
  <2>1. \A k \in T : m - 1 >= k /\ k \in Nat /\ k >= 1
    BY <1>3, <1>4
  <2>2. m - 1 \in Nat
    <3>1. PICK k \in T : TRUE
      OBVIOUS
    <3> QED
      BY <1>3, <2>1, <3>1
  <2>3. m - 1 \in B
    BY <2>1, <2>2
  <2> QED
    BY <1>2, <1>3, <2>3
<1> QED
  BY <1>3, <1>4

\* The choice of the last position.
LEMMA LastStopIs ==
    ASSUME NEW q, NEW n \in Nat, Stops(q, n) # {}
    PROVE  /\ LastStop(q, n) \in Stops(q, n)
           /\ \A y \in Stops(q, n) : LastStop(q, n) >= y
<1>1. Stops(q, n) \in SUBSET (1 .. n)
  BY DEF Stops
<1>2. PICK T : T = Stops(q, n)
  OBVIOUS
<1>3. \E x \in T : \A y \in T : x >= y
  BY <1>1, <1>2, GreatestNat
<1>4. LastStop(q, n) = CHOOSE x \in T : \A y \in T : x >= y
  BY <1>2 DEF LastStop
<1> QED
  BY <1>2, <1>3, <1>4, Zenon

\* It depends on the first n commands only.
LEMMA CardKept ==
    ASSUME NEW q, NEW r, NEW n \in Nat, Agree(q, r, n)
    PROVE  CardIn(r, n) = CardIn(q, n)
<1>1. Stops(r, n) = Stops(q, n)
  BY DEF Stops, Agree
<1>2. LastStop(r, n) = LastStop(q, n)
  BY <1>1 DEF LastStop
<1>3. ASSUME Stops(q, n) # {} PROVE r[LastStop(q, n)] = q[LastStop(q, n)]
  <2>1. LastStop(q, n) \in 1 .. n
    BY <1>3, LastStopIs DEF Stops
  <2> QED
    BY <2>1 DEF Agree
<1> QED
  BY <1>1, <1>2, <1>3 DEF CardIn

\* One more command.
LEMMA CardNext ==
    ASSUME NEW q, NEW r, NEW n \in Nat, Agree(q, r, n)
    PROVE  CardIn(r, n + 1) =
               IF r[n + 1].cmd = "DISABLE_NUMBER_DATA" /\ r[n + 1].sub # "unknown"
               THEN r[n + 1].arg ELSE CardIn(q, n)
<1> DEFINE stops == r[n + 1].cmd = "DISABLE_NUMBER_DATA" /\ r[n + 1].sub # "unknown"
<1>0. CardIn(r, n) = CardIn(q, n)
  BY CardKept
<1>1. CASE stops
  <2>1. PICK m \in Nat : m = n + 1
    OBVIOUS
  <2>2. m \in Stops(r, m)
    BY <1>1, <2>1 DEF Stops
  <2>3. LastStop(r, m) \in 1 .. m /\ LastStop(r, m) >= m
    BY <2>2, LastStopIs DEF Stops
  <2>4. LastStop(r, m) = m
    BY <2>3
  <2> QED
    BY <1>1, <2>1, <2>2, <2>4 DEF CardIn
<1>2. CASE ~stops
  <2>1. Stops(r, n + 1) = Stops(r, n)
    BY <1>2 DEF Stops
  <2>2. LastStop(r, n + 1) = LastStop(r, n)
    BY <2>1 DEF LastStop
  <2>3. CardIn(r, n + 1) = CardIn(r, n)
    BY <2>1, <2>2 DEF CardIn
  <2> QED
    BY <1>0, <1>2, <2>3
<1> QED
  BY <1>1, <1>2

-----------------------------------------------------------------------------
\* What a reply r to the command c tells of cards, last being the last card.
CardOf(r, c, last) ==
    r.jrhm = IF r.nCmd = "DISABLE_NUMBER_DATA" THEN c.arg
             ELSE IF r.code = 1 THEN last ELSE ""

\* What strJrhm holds is a card or nothing.
NoPool(j) == j \in Cards \cup {""}

\* A pool query is one of a pool.
OfPool(c) == c.sub = "PL_LLC_POOLQRY" => c.arg \in Pools

\* The first column of a pool query's row.
Counted(r, a) == r.rows[1][1] = a

\* How it is packed; no member of the pool is ever counted.
Packed(r, c) ==
    /\ r.array = r.items <=> ~(r.nSubCmd = "PL_GET_LIST" /\ r.code = 0)
    /\ r.nSubCmd = "PL_LLC_POOLQRY" /\ r.code = 0 => c.arg \in Pools /\ Counted(r, 0)

CardTold(r, c, last) == CardOf(r, c, last) /\ Packed(r, c)

\* What it tells of pools, doc being the API's answer.
PoolsTold(r, doc) ==
    r.code = 0 =>
        /\ r.nSubCmd = "PL_GET_LIST" =>
             /\ Len(r.rows) = Len(doc.kids)
             /\ \A i \in 1 .. Len(doc.kids) :
                  \E k \in 1 .. Len(r.rows) :
                     r.rows[k] =
                         [f \in 1 .. 7 |-> Field(doc.kids[i], PoolFields[f])]
        /\ r.nSubCmd = "PL_LLC_POOLQRY" =>
             SubSeq(r.rows[1], 3, 5) =
                 [f \in 1 .. 3 |-> Field(doc.kids[1], Figures[f])]

\* The commands that reach the API.
Known(c) ==
    \/ c.cmd = "DISABLE_NUMBER_DATA" /\ c.sub \in {"DN_DISABLE", "DN_ABLE"}
    \/ c.cmd = "POOL_LIST_DATA"
       /\ c.sub \in {"PL_GET_LIST", "PL_LLC_INFO", "PL_LLC_POOLQRY"}
       /\ OfPool(c)

(***************************************************************************)
(* The buffer object's card is the last one that a command named, and no   *)
(* pool has its number; the replies so far are as stated.                  *)
(***************************************************************************)
Told ==
    /\ IsSeq(docs) /\ Len(docs) = Len(cmds)
    /\ "strJrhm" \in DOMAIN bobj
    /\ bobj.strJrhm = CardIn(cmds, Len(cmds)) /\ NoPool(bobj.strJrhm)
    /\ pc \in {"account", "api"} => Known(cmds[Len(cmds)])
    /\ \A n \in 1 .. Len(replies) : CardTold(replies[n], cmds[n], CardIn(cmds, n))
    /\ \A n \in 1 .. Len(replies) : PoolsTold(replies[n], docs[n])

\* The last card, as the property states it.
LEMMA LastCardIs ==
    ASSUME NEW n
    PROVE  LastCard(n) = CardIn(cmds, n)
BY DEF LastCard, Max, CardIn, Stops, LastStop

\* True replies are faithful ones.
LEMMA ToldFaithful ==
    ASSUME Told
    PROVE  RepliesFaithful
<1>1. ASSUME NEW n \in 1 .. Len(replies)
      PROVE  /\ CardOf(replies[n], cmds[n], LastCard(n))
             /\ Packed(replies[n], cmds[n])
  BY LastCardIs DEF Told, CardTold
<1>2. CardNamed
  <2>1. 0 # 1
    OBVIOUS
  <2> QED
    BY <1>1, <2>1, Zenon DEF CardNamed, CardOf
<1>3. PoolsReported
  BY DEF Told, PoolsReported, PoolsTold
<1>4. StaleCard
  <2>1. ASSUME NEW n \in 1 .. Len(replies), replies[n].nCmd # "DISABLE_NUMBER_DATA",
               replies[n].code = 1
        PROVE  replies[n].jrhm = LastCard(n)
    BY <1>1, <2>1 DEF CardOf
  <2>2. ASSUME NEW n \in 1 .. Len(replies), replies[n].nSubCmd = "PL_LLC_POOLQRY",
               replies[n].code = 0
        PROVE  replies[n].rows[1][1] = Members[cmds[n].arg] <=> Members[cmds[n].arg] = 0
    <3>1. replies[n].rows[1][1] = 0
      BY <1>1, <2>2 DEF Packed, Counted
    <3> QED
      BY <3>1, Zenon
  <2> QED
    BY <2>1, <2>2 DEF StaleCard
<1>5. Decodable
  BY <1>1 DEF Decodable, Packed
<1> QED
  BY <1>2, <1>3, <1>4, <1>5 DEF RepliesFaithful

\* A new connection.
LEMMA ToldInit ==
    ASSUME Init
    PROVE  Told
<1>1. /\ cmds = <<>> /\ replies = <<>> /\ docs = <<>> /\ pc = "idle"
      /\ bobj = [nCmd |-> "none", nSubCmd |-> "none", pfn |-> "none", strJrhm |-> ""]
  BY DEF Init
<1>2. <<>> \in Seq({}) /\ Len(<<>>) = 0
  OBVIOUS
<1>3. IsSeq(<<>>)
  BY <1>2, Zenon DEF IsSeq
<1>4. "strJrhm" \in DOMAIN bobj /\ bobj.strJrhm = ""
  BY <1>1
<1>5. CardIn(cmds, Len(cmds)) = ""
  <2>1. Stops(cmds, 0) = {}
    BY DEF Stops
  <2>2. Len(cmds) = 0
    BY <1>1, <1>2
  <2> QED
    BY <2>1, <2>2, Zenon DEF CardIn
<1>6. 1 .. Len(replies) = {}
  <2>1. Len(replies) = 0
    BY <1>1, <1>2
  <2> QED
    BY <2>1
<1>7. IsSeq(docs) /\ Len(docs) = Len(cmds)
  BY <1>1, <1>3, Zenon
<1>8. pc \notin {"account", "api"}
  BY <1>1
<1>9. NoPool(bobj.strJrhm)
  BY <1>4 DEF NoPool
<1> QED
  BY <1>4, <1>5, <1>6, <1>7, <1>8, <1>9, Zenon DEF Told

\* A command that is taken from the connection.
LEMMA ToldCommand ==
    ASSUME ApiInv, Told, NEW c, NEW pfn, NEW jrhm,
           NEW next \in {"account", "silent"}, Command(c, pfn, jrhm, next),
           next = "account" => Known(c),
           jrhm = IF c.cmd = "DISABLE_NUMBER_DATA" /\ c.sub # "unknown"
                  THEN c.arg ELSE bobj.strJrhm,
           NoPool(jrhm)
    PROVE  Told'
<1>1. /\ pc = "idle" /\ pc' = next /\ cmds' = Append(cmds, c)
      /\ replies' = replies /\ docs' = Append(docs, Broken)
      /\ bobj' = [nCmd |-> c.cmd, nSubCmd |-> c.sub, pfn |-> pfn, strJrhm |-> jrhm]
  BY DEF Command
<1>2. /\ Len(cmds) \in Nat /\ Len(cmds') = Len(cmds) + 1
      /\ \A i \in 1 .. Len(cmds) : cmds'[i] = cmds[i]
      /\ cmds'[Len(cmds) + 1] = c
  BY <1>1, Appended DEF ApiInv
<1>3. /\ IsSeq(docs') /\ Len(docs') = Len(docs) + 1
      /\ \A i \in 1 .. Len(docs) : docs'[i] = docs[i]
  <2>1. PICK x : x = Broken
    OBVIOUS
  <2> QED
    BY <1>1, <2>1, Appended DEF Told
<1>4. Len(replies) = Len(cmds) /\ Len(docs) = Len(cmds)
  BY <1>1 DEF ApiInv, Told
<1>5. PICK q, r, n : q = cmds /\ r = cmds' /\ n = Len(cmds) /\ n \in Nat
  BY <1>2
<1>6. Agree(q, r, n)
  BY <1>2, <1>5 DEF Agree
<1>7. bobj'.strJrhm = CardIn(cmds', Len(cmds'))
  <2>1. CardIn(r, n + 1) =
            IF r[n + 1].cmd = "DISABLE_NUMBER_DATA" /\ r[n + 1].sub # "unknown"
            THEN r[n + 1].arg ELSE CardIn(q, n)
    BY <1>5, <1>6, CardNext
  <2>2. r[n + 1] = c /\ CardIn(q, n) = bobj.strJrhm
    BY <1>2, <1>5 DEF Told
  <2>3. CardIn(r, n + 1) = jrhm
    BY <2>1, <2>2
  <2> QED
    BY <1>1, <1>2, <1>5, <2>3
<1>8. ASSUME NEW k \in 1 .. Len(replies)
      PROVE  /\ CardTold(replies'[k], cmds'[k], CardIn(cmds', k))
             /\ PoolsTold(replies'[k], docs'[k])
  <2>1. k \in Nat /\ k \in 1 .. Len(cmds) /\ k <= n
    BY <1>2, <1>4, <1>5
  <2>2. Agree(q, r, k)
    BY <1>5, <1>6, <2>1 DEF Agree
  <2>3. CardIn(r, k) = CardIn(q, k)
    BY <2>1, <2>2, CardKept
  <2>4. /\ CardTold(replies[k], cmds[k], CardIn(cmds, k))
        /\ PoolsTold(replies[k], docs[k])
    BY DEF Told
  <2>5. replies' = replies /\ cmds'[k] = cmds[k] /\ docs'[k] = docs[k]
    BY <1>1, <1>2, <1>3, <1>4, <2>1
  <2> QED
    BY <1>5, <2>3, <2>4, <2>5
<1>9. pc' \in {"account", "api"} => Known(cmds'[Len(cmds')])
  BY <1>1, <1>2
<1>10. "strJrhm" \in DOMAIN bobj' /\ NoPool(bobj'.strJrhm)
  BY <1>1
<1> QED
  BY <1>1, <1>2, <1>3, <1>4, <1>7, <1>8, <1>9, <1>10 DEF Told

\* A reply to the command that is under way.
LEMMA ToldReply ==
    ASSUME ApiInv, Told, pc \in {"account", "api"}, NEW r, DealTail(r),
           UNCHANGED cmds, IsSeq(docs'), Len(docs') = Len(docs),
           \A n \in 1 .. Len(docs) - 1 : docs'[n] = docs[n],
           "strJrhm" \in DOMAIN bobj', bobj'.strJrhm = bobj.strJrhm,
           CardTold(r, cmds[Len(cmds)], bobj.strJrhm),
           PoolsTold(r, docs'[Len(docs)])
    PROVE  Told'
<1>1. /\ Len(replies) \in Nat /\ Len(replies') = Len(replies) + 1
      /\ \A i \in 1 .. Len(replies) : replies'[i] = replies[i]
      /\ replies'[Len(replies')] = r
  BY Appended DEF ApiInv, DealTail
<1>2. Len(cmds) \in Nat /\ Len(docs) = Len(cmds) /\ Len(replies) = Len(cmds) - 1
  BY Appended DEF ApiInv, Told
<1>3. cmds' = cmds /\ pc' = "send"
  BY DEF DealTail
<1>4. ASSUME NEW n \in 1 .. Len(replies')
      PROVE  /\ CardTold(replies'[n], cmds[n], CardIn(cmds, n))
             /\ PoolsTold(replies'[n], docs'[n])
  <2>1. CASE n \in 1 .. Len(replies)
    <3>1. /\ CardTold(replies[n], cmds[n], CardIn(cmds, n))
          /\ PoolsTold(replies[n], docs[n])
      BY <2>1 DEF Told
    <3>2. replies'[n] = replies[n] /\ docs'[n] = docs[n]
      BY <1>1, <1>2, <2>1
    <3> QED
      BY <3>1, <3>2
  <2>2. CASE n = Len(replies')
    <3>1. n = Len(cmds) /\ n = Len(docs) /\ replies'[n] = r
      BY <1>1, <1>2, <2>2
    <3>2. CardIn(cmds, n) = bobj.strJrhm
      BY <3>1 DEF Told
    <3> QED
      BY <3>1, <3>2
  <2> QED
    BY <1>1, <1>4, <2>1, <2>2
<1> QED
  BY <1>2, <1>3, <1>4 DEF Told

\* An element's children are a sequence.
LEMMA KidsOf ==
    ASSUME NEW e, HasKids(e)
    PROVE  Len(e.kids) \in Nat
<1>1. PICK S, q : S = Range(e.kids) /\ q = e.kids /\ q \in Seq(S)
  BY DEF HasKids
<1>2. Len(q) \in Nat
  BY <1>1, LenProperties
<1> QED
  BY <1>1, <1>2

\* In documented order the f-th child is the field of the f-th name.
LEMMA FieldAt ==
    ASSUME NEW e, NEW names, NEW n \in Nat, Len(names) = n, HasKids(e),
           Len(e.kids) >= n, HasFields(e, names), NEW f \in 1 .. n
    PROVE  Field(e, names[f]) = e.kids[f].text
<1>0. Len(e.kids) \in Nat
  BY KidsOf
<1>1. f \in 1 .. Len(e.kids)
  BY <1>0
<1>2. \A j \in 1 .. Len(e.kids) : e.kids[j].name = names[f] <=> j = f
  BY DEF HasFields
<1>3. PICK K, nm : K = 1 .. Len(e.kids) /\ nm = names[f]
  OBVIOUS
<1>4. f \in K /\ \A j \in K : e.kids[j].name = nm <=> j = f
  BY <1>1, <1>2, <1>3
<1>5. (CHOOSE j \in K : e.kids[j].name = nm) = f
  BY <1>4, Zenon
<1>6. Field(e, nm) = e.kids[CHOOSE j \in K : e.kids[j].name = nm].text
  BY <1>3 DEF Field
<1> QED
  BY <1>3, <1>5, <1>6

\* A list of pools is told by the row of each, last first.
LEMMA ListTold ==
    ASSUME AnswersDocumented, NEW doc \in Answers,
           \A i \in 1 .. Len(doc.kids) : CanWalk(doc.kids[i], 7),
           NEW r, r.nSubCmd # "PL_LLC_POOLQRY",
           r.rows = Reverse([i \in 1 .. Len(doc.kids) |->
                                   Texts(doc.kids[i], 7)])
    PROVE  PoolsTold(r, doc)
<1>1. HasKids(doc)
  BY DEF AnswersDocumented
<1>2. PICK L \in Nat : L = Len(doc.kids)
  BY <1>1, KidsOf
<1>3. PICK q : q = [i \in 1 .. L |-> Texts(doc.kids[i], 7)]
  OBVIOUS
<1>4. Len(q) = L
  BY <1>3
<1>5. r.rows = [k \in 1 .. L |-> q[(L - k) + 1]]
  BY <1>2, <1>3, <1>4 DEF Reverse
<1>6. Len(r.rows) = L
  BY <1>5
<1>7. ASSUME NEW i \in 1 .. L
      PROVE  \E k \in 1 .. L : r.rows[k] =
                [f \in 1 .. 7 |-> Field(doc.kids[i], PoolFields[f])]
  <2>1. PICK k \in 1 .. L : k = (L - i) + 1
    OBVIOUS
  <2>2. r.rows[k] = q[i]
    <3>1. (L - k) + 1 = i
      BY <2>1
    <3> QED
      BY <1>5, <3>1
  <2>3. PICK e : e = doc.kids[i]
    OBVIOUS
  <2>4. q[i] = [f \in 1 .. 7 |-> e.kids[f].text]
    BY <1>3, <2>3 DEF Texts
  <2>5. /\ HasKids(e) /\ Len(e.kids) >= 7
        /\ Len(e.kids) >= 7 => HasFields(e, PoolFields)
    BY <1>2, <2>3 DEF AnswersDocumented, CanWalk
  <2>6. Len(PoolFields) = 7 /\ 7 \in Nat
    BY DEF PoolFields
  <2>7. PICK names : names = PoolFields
    OBVIOUS
  <2>8. \A f \in 1 .. 7 : Field(e, names[f]) = e.kids[f].text
    BY <2>5, <2>6, <2>7, FieldAt
  <2>9. [f \in 1 .. 7 |-> e.kids[f].text] = [f \in 1 .. 7 |-> Field(e, names[f])]
    BY <2>8
  <2> QED
    BY <2>2, <2>3, <2>4, <2>7, <2>9
<1> QED
  BY <1>2, <1>6, <1>7 DEF PoolsTold

\* A pool's figures are told behind the count of its cards and the result.
LEMMA QueryTold ==
    ASSUME AnswersDocumented, NEW doc \in Answers, doc.kids # <<>>,
           CanWalk(doc, 1), CanWalk(doc.kids[1], 3),
           NEW r, r.nSubCmd # "PL_GET_LIST", NEW a, NEW b,
           r.rows = <<<<a, b>> \o Texts(doc.kids[1], 3)>>
    PROVE  PoolsTold(r, doc) /\ Counted(r, a)
<1>1. PICK e : e = doc.kids[1]
  OBVIOUS
<1>2. 1 \in 1 .. Len(doc.kids)
  <2>1. HasKids(doc)
    BY DEF AnswersDocumented
  <2>2. Len(doc.kids) \in Nat /\ Len(doc.kids) >= 1
    BY <2>1, KidsOf DEF CanWalk
  <2> QED
    BY <2>2
<1>3. /\ HasKids(e) /\ Len(e.kids) >= 3
      /\ HasFields(e, Figures)
  <2>1. Len(e.kids) >= 3
    BY <1>1 DEF CanWalk
  <2>2. e.text # NULL
    <3>1. 1 \in 1 .. 1
      OBVIOUS
    <3> QED
      BY <1>1, <3>1 DEF CanWalk
  <2>3. /\ HasKids(e)
        /\ 1 = 1 /\ e.text # NULL /\ Len(e.kids) >= 3
             => HasFields(e, Figures)
    BY <1>1, <1>2, Zenon DEF AnswersDocumented
  <2> QED
    BY <2>1, <2>2, <2>3
<1>4. PICK names : names = Figures
  OBVIOUS
<1>5. Len(names) = 3 /\ 3 \in Nat
  BY <1>4 DEF Figures
<1>6. \A f \in 1 .. 3 : Field(e, names[f]) = e.kids[f].text
  BY <1>3, <1>4, <1>5, FieldAt
<1>7. PICK t : t = Texts(e, 3)
  OBVIOUS
<1>8. t = [f \in 1 .. 3 |-> e.kids[f].text]
  BY <1>7 DEF Texts
<1>9. PICK S : S = {a, b, e.kids[1].text, e.kids[2].text, e.kids[3].text}
  OBVIOUS
<1>10. t \in Seq(S) /\ Len(t) = 3 /\ <<a, b>> \in Seq(S) /\ Len(<<a, b>>) = 2
  <2>1. t \in [1 .. 3 -> S]
    <3>1. \A f \in 1 .. 3 : f = 1 \/ f = 2 \/ f = 3
      OBVIOUS
    <3> QED
      BY <1>8, <1>9, <3>1
  <2>2. t \in Seq(S) /\ Len(t) = 3
    <3>1. PICK n \in Nat : n = 3
      OBVIOUS
    <3>2. t \in [1 .. n -> S]
      BY <2>1, <3>1
    <3>3. t \in Seq(S) /\ Len(t) = n
      BY <3>2
    <3> QED
      BY <3>1, <3>3
  <2>3. <<a, b>> \in Seq(S) /\ Len(<<a, b>>) = 2
    BY <1>9
  <2> QED
    BY <2>2, <2>3
<1>11. PICK p, w : p = <<a, b>> /\ w = p \o t
  OBVIOUS
<1>12. /\ w \in Seq(S) /\ Len(w) = 5
       /\ \A i \in 1 .. 5 : w[i] = IF i <= 2 THEN p[i] ELSE t[i - 2]
  <2>1. p \in Seq(S) /\ Len(p) = 2
    BY <1>10, <1>11
  <2>2. /\ p \o t \in Seq(S) /\ Len(p \o t) = Len(p) + Len(t)
        /\ \A i \in 1 .. Len(p) + Len(t) : (p \o t)[i] =
               IF i <= Len(p) THEN p[i] ELSE t[i - Len(p)]
    BY <1>10, <2>1, ConcatProperties
  <2> QED
    BY <1>10, <1>11, <2>1, <2>2
<1>13. /\ SubSeq(w, 3, 5) \in Seq(S) /\ Len(SubSeq(w, 3, 5)) = 3
       /\ \A i \in 1 .. 3 : SubSeq(w, 3, 5)[i] = w[3 + i - 1]
  <2>1. \A i \in 3 .. 5 : w[i] \in S
    <3>1. \A i \in 1 .. Len(w) : w[i] \in S
      BY <1>12, ElementOfSeq
    <3>2. 3 .. 5 \subseteq 1 .. Len(w)
      BY <1>12
    <3> QED
      BY <3>1, <3>2
  <2>2. /\ SubSeq(w, 3, 5) \in Seq(S)
        /\ Len(SubSeq(w, 3, 5)) = IF 3 <= 5 THEN 5 - 3 + 1 ELSE 0
        /\ \A i \in 1 .. 5 - 3 + 1 : SubSeq(w, 3, 5)[i] = w[3 + i - 1]
    BY <2>1, SubSeqProperties
  <2> QED
    BY <2>2
<1>14. SubSeq(w, 3, 5) = t
  <2>1. PICK u : u = SubSeq(w, 3, 5)
    OBVIOUS
  <2>2. \A i \in 1 .. 3 : u[i] = t[i]
    <3>1. ASSUME NEW i \in 1 .. 3 PROVE u[i] = t[i]
      <4>1. /\ 3 + i - 1 \in 1 .. 5 /\ ~(3 + i - 1 <= 2)
            /\ (3 + i - 1) - 2 = i
        OBVIOUS
      <4> QED
        BY <1>12, <1>13, <2>1, <4>1
    <3> QED
      BY <3>1
  <2>3. /\ u \in Seq(S) /\ t \in Seq(S) /\ Len(u) = Len(t)
        /\ \A i \in 1 .. Len(u) : u[i] = t[i]
    BY <1>10, <1>13, <2>1, <2>2
  <2>4. u = t
    BY <2>3, SeqEqual
  <2> QED
    BY <2>1, <2>4
<1>15. r.rows[1] = w
  BY <1>1, <1>7, <1>11
<1>16. t = [f \in 1 .. 3 |-> Field(doc.kids[1], Figures[f])]
  BY <1>1, <1>4, <1>6, <1>8
<1>17. SubSeq(r.rows[1], 3, 5) =
          [f \in 1 .. 3 |-> Field(doc.kids[1], Figures[f])]
  BY <1>14, <1>15, <1>16
<1>18. w[1] = a
  <2>1. 1 \in 1 .. 5 /\ 1 <= 2
    OBVIOUS
  <2>2. w[1] = p[1]
    BY <1>12, <2>1
  <2> QED
    BY <1>11, <2>2
<1>19. Counted(r, a)
  BY <1>15, <1>18, Zenon DEF Counted
<1> QED
  BY <1>17, <1>19 DEF PoolsTold

\* The connection stops, without a reply.
LEMMA ToldStop ==
    ASSUME Told, pc' \in {"silent", "crashed"}, UNCHANGED <<cmds, replies, bobj>>,
           IsSeq(docs'), Len(docs') = Len(docs),
           \A n \in 1 .. Len(replies) : docs'[n] = docs[n]
    PROVE  Told'
BY DEF Told

\* API_Failed names the buffer object's card, which is the command's if it has one.
LEMMA ToldFailed ==
    ASSUME ApiInv, Told, pc \in {"account", "api"}, API_Failed,
           UNCHANGED <<cmds, bobj>>, IsSeq(docs'), Len(docs') = Len(docs),
           \A n \in 1 .. Len(docs) - 1 : docs'[n] = docs[n]
    PROVE  Told'
<1>1. PICK r : r = Reply(5, 5, 1, bobj.strJrhm, <<>>)
  OBVIOUS
<1>2. /\ r.nCmd = bobj.nCmd /\ r.code = 1 /\ r.jrhm = bobj.strJrhm
      /\ r.array = 5 /\ r.items = 5
  BY <1>1 DEF Reply
<1>30. CardOf(r, cmds[Len(cmds)], bobj.strJrhm)
  BY <1>2 DEF CardOf, ApiInv, Remembered
<1>31. Packed(r, cmds[Len(cmds)])
  <2>1. r.code # 0 /\ r.array = r.items
    BY <1>2
  <2> QED
    BY <2>1, Zenon DEF Packed
<1>3. CardTold(r, cmds[Len(cmds)], bobj.strJrhm)
  BY <1>30, <1>31 DEF CardTold
<1>4. PoolsTold(r, docs'[Len(docs)])
  BY <1>2 DEF PoolsTold
<1>5. DealTail(r)
  BY <1>1 DEF API_Failed
<1>6. "strJrhm" \in DOMAIN bobj' /\ bobj'.strJrhm = bobj.strJrhm
  BY DEF Told
<1> QED
  BY <1>3, <1>4, <1>5, <1>6, ToldReply

\* The documented answer, or another one, is turned into a reply or stops all.
LEMMA ToldResponse ==
    ASSUME AnswersDocumented, ApiInv, Told, pc = "api", NEW doc \in Answers,
           pfndoApiResponse(doc), UNCHANGED <<cmds, bobj>>,
           IsSeq(docs'), Len(docs') = Len(docs),
           \A n \in 1 .. Len(docs) - 1 : docs'[n] = docs[n], docs'[Len(docs)] = doc
    PROVE  Told'
<1> DEFINE c == cmds[Len(cmds)]
<1>0. /\ bobj.nCmd = c.cmd /\ bobj.nSubCmd = c.sub /\ bobj.pfn = Response(c)
      /\ c.cmd = "DISABLE_NUMBER_DATA" => bobj.strJrhm = c.arg
      /\ Known(c)
  BY DEF ApiInv, Remembered, Told
<1>1. "strJrhm" \in DOMAIN bobj' /\ bobj'.strJrhm = bobj.strJrhm
  BY DEF Told
<1>2. ASSUME pc' \in {"silent", "crashed"}, replies' = replies PROVE Told'
  <2>1. Len(docs) \in Nat /\ Len(replies) = Len(docs) - 1
    BY Appended DEF ApiInv, Told
  <2> QED
    BY <1>2, <2>1, ToldStop
<1>3. ASSUME NEW r, DealTail(r), CardTold(r, c, bobj.strJrhm), PoolsTold(r, doc)
      PROVE  Told'
  BY <1>1, <1>3, ToldReply
<1> HIDE DEF c
<1>4. CASE bobj.pfn = "doDisNumberResponse" /\ doDisNumberResponse(doc)
  <2>1. c.cmd = "DISABLE_NUMBER_DATA" /\ c.sub \in {"DN_DISABLE", "DN_ABLE"}
    BY <1>0, <1>4 DEF Response, Known
  <2>2. CASE CanWalk(doc, 4)
    <3>1. PICK r, rows : r = Reply(6, 6, 0, bobj.strJrhm, rows) /\ DealTail(r)
      BY <1>4, <2>2 DEF doDisNumberResponse
    <3>2. /\ r.nCmd = bobj.nCmd /\ r.nSubCmd = bobj.nSubCmd
          /\ r.jrhm = bobj.strJrhm /\ r.array = 6 /\ r.items = 6
      BY <3>1 DEF Reply
    <3>31. CardOf(r, c, bobj.strJrhm)
      BY <1>0, <2>1, <3>2 DEF CardOf
    <3>32. Packed(r, c)
      <4>1. r.nSubCmd \notin {"PL_GET_LIST", "PL_LLC_POOLQRY"} /\ r.array = r.items
        BY <1>0, <2>1, <3>2
      <4> QED
        BY <4>1, Zenon DEF Packed
    <3>3. CardTold(r, c, bobj.strJrhm)
      BY <3>31, <3>32 DEF CardTold
    <3>4. PoolsTold(r, doc)
      BY <1>0, <2>1, <3>2 DEF PoolsTold
    <3> QED
      BY <1>3, <3>1, <3>3, <3>4
  <2>3. CASE ~CanWalk(doc, 4)
    BY <1>2, <1>4, <2>3 DEF doDisNumberResponse, Crash
  <2> QED
    BY <2>2, <2>3
<1>5. CASE bobj.pfn = "doPoolList01Response" /\ doPoolList01Response(doc)
  <2>1. c.cmd = "POOL_LIST_DATA" /\ c.sub = "PL_GET_LIST"
    BY <1>0, <1>5 DEF Response, Known
  <2>2. CASE \A i \in 1 .. Len(doc.kids) : CanWalk(doc.kids[i], 7)
    <3>1. PICK rows : rows =
              Reverse([i \in 1 .. Len(doc.kids) |-> Texts(doc.kids[i], 7)])
      OBVIOUS
    <3>2. PICK r : r = Reply(5, 4, 0, "", rows)
      OBVIOUS
    <3>3. DealTail(r)
      BY <1>5, <2>2, <3>1, <3>2 DEF doPoolList01Response
    <3>4. /\ r.nCmd = bobj.nCmd /\ r.nSubCmd = bobj.nSubCmd /\ r.jrhm = ""
          /\ r.code = 0 /\ r.rows = rows /\ r.array = 5 /\ r.items = 4
      BY <3>2 DEF Reply
    <3>51. Packed(r, c)
      <4>1. r.nSubCmd = "PL_GET_LIST"
        BY <1>0, <2>1, <3>4, Zenon
      <4>2. r.nSubCmd # "PL_LLC_POOLQRY"
        BY <4>1
      <4>3. 4 # 5
        OBVIOUS
      <4>4. r.array # r.items
        BY <3>4, <4>3, Zenon
      <4> QED
        BY <3>4, <4>1, <4>2, <4>4, Zenon DEF Packed
    <3>5. CardTold(r, c, bobj.strJrhm)
      <4>1. r.nCmd # "DISABLE_NUMBER_DATA"
        BY <1>0, <2>1, <3>4
      <4>2. 0 # 1
        OBVIOUS
      <4>3. r.code # 1
        BY <3>4, <4>2, Zenon
      <4> QED
        BY <3>4, <3>51, <4>1, <4>3, Zenon DEF CardTold, CardOf
    <3>6. r.nSubCmd # "PL_LLC_POOLQRY"
      BY <1>0, <2>1, <3>4
    <3>7. PoolsTold(r, doc)
      BY <2>2, <3>1, <3>4, <3>6, ListTold
    <3> QED
      BY <1>3, <3>3, <3>5, <3>7
  <2>3. CASE ~(\A i \in 1 .. Len(doc.kids) : CanWalk(doc.kids[i], 7))
    BY <1>2, <1>5, <2>3 DEF doPoolList01Response, Crash
  <2> QED
    BY <2>2, <2>3
<1>6. CASE bobj.pfn = "doPoolList02Response" /\ doPoolList02Response(doc)
  BY <1>2, <1>6 DEF doPoolList02Response
<1>7. CASE bobj.pfn = "doPoolList03Response" /\ doPoolList03Response(doc)
  <2>1. c.cmd = "POOL_LIST_DATA" /\ c.sub = "PL_LLC_POOLQRY"
    BY <1>0, <1>7 DEF Response, Known
  <2>2. CASE Crash
    BY <1>2, <2>2 DEF Crash
  <2>3. CASE API_Failed
    BY <2>3, ToldFailed
  <2>4. CASE /\ doc.kids # <<>> /\ CanWalk(doc, 1) /\ CanWalk(doc.kids[1], 3)
             /\ DealTail(Reply(4, 4, 0, "",
                    <<<<CountMembers(bobj.strJrhm), atoi(doc.kids[1].text)>>
                        \o Texts(doc.kids[1], 3)>>))
    <3>1. PICK a, b : /\ a = CountMembers(bobj.strJrhm)
                      /\ b = atoi(doc.kids[1].text)
      OBVIOUS
    <3>2. PICK rows : rows = <<<<a, b>> \o Texts(doc.kids[1], 3)>>
      OBVIOUS
    <3>3. PICK r : r = Reply(4, 4, 0, "", rows)
      OBVIOUS
    <3>4. DealTail(r)
      BY <2>4, <3>1, <3>2, <3>3
    <3>5. /\ r.nCmd = bobj.nCmd /\ r.nSubCmd = bobj.nSubCmd /\ r.jrhm = ""
          /\ r.code = 0 /\ r.rows = rows /\ r.array = 4 /\ r.items = 4
      BY <3>3 DEF Reply
    <3>7. r.nSubCmd # "PL_GET_LIST"
      BY <1>0, <2>1, <3>5
    <3>8. PoolsTold(r, doc) /\ Counted(r, a)
      <4>1. r.rows = <<<<a, b>> \o Texts(doc.kids[1], 3)>>
        BY <3>2, <3>5
      <4> QED
        BY <2>4, <3>7, <4>1, QueryTold, Zenon
    <3>61. Packed(r, c)
      <4>1. bobj.strJrhm \notin Pools
        BY ApiAssumption DEF Told, NoPool
      <4>2. a = 0
        BY <3>1, <4>1 DEF CountMembers
      <4>3. r.array = r.items
        BY <3>5
      <4>4. c.arg \in Pools
        BY <1>0, <2>1 DEF Known, OfPool
      <4> QED
        BY <3>7, <3>8, <4>2, <4>3, <4>4, Zenon DEF Packed
    <3>6. CardTold(r, c, bobj.strJrhm)
      <4>1. r.nCmd # "DISABLE_NUMBER_DATA"
        BY <1>0, <2>1, <3>5
      <4>2. 0 # 1
        OBVIOUS
      <4>3. r.code # 1
        BY <3>5, <4>2, Zenon
      <4> QED
        BY <3>5, <3>61, <4>1, <4>3, Zenon DEF CardTold, CardOf
    <3> QED
      BY <1>3, <3>4, <3>6, <3>8
  <2> QED
    BY <1>7, <2>2, <2>3, <2>4 DEF doPoolList03Response
<1> QED
  BY <1>4, <1>5, <1>6, <1>7 DEF pfndoApiResponse

\* Every step keeps what was told true.
LEMMA ToldNext ==
    ASSUME AnswersDocumented, ApiInv, Told, [Next]_vars
    PROVE  Told'
<1>1. ASSUME NEW j \in Cards, NEW s \in {"DN_DISABLE", "DN_ABLE"},
             doDisabledNumber(j, s)
      PROVE  Told'
  <2>1. PICK c : c = Cmd("DISABLE_NUMBER_DATA", s, j)
    OBVIOUS
  <2>2. c.cmd = "DISABLE_NUMBER_DATA" /\ c.sub = s /\ c.arg = j
    BY <2>1 DEF Cmd
  <2>3. Known(c) /\ c.sub # "unknown"
    BY <2>2 DEF Known
  <2>4. Command(c, "doDisNumberResponse", j, "account")
    BY <1>1, <2>1 DEF doDisabledNumber
  <2>5. NoPool(j)
    BY DEF NoPool
  <2> QED
    BY <2>2, <2>3, <2>4, <2>5, ToldCommand
<1>2. ASSUME NEW p, NEW s \in {"PL_GET_LIST", "PL_LLC_INFO", "PL_LLC_POOLQRY"},
             s = "PL_LLC_POOLQRY" => p \in Pools, NEW pfn, doGetPoolList(p, s, pfn)
      PROVE  Told'
  <2>1. PICK c : c = Cmd("POOL_LIST_DATA", s, p)
    OBVIOUS
  <2>2. c.cmd = "POOL_LIST_DATA" /\ c.sub = s /\ c.arg = p
    BY <2>1 DEF Cmd
  <2>3. Known(c) /\ c.cmd # "DISABLE_NUMBER_DATA"
    <3>1. OfPool(c)
      BY <1>2, <2>2 DEF OfPool
    <3> QED
      BY <2>2, <3>1 DEF Known
  <2>4. PICK j : j = bobj.strJrhm /\ NoPool(j)
    BY DEF Told
  <2>5. Command(c, pfn, j, "account")
    BY <1>2, <2>1, <2>4 DEF doGetPoolList
  <2> QED
    BY <2>3, <2>4, <2>5, ToldCommand
<1>3. CASE \/ doGetPoolList("", "PL_GET_LIST", "doPoolList01Response")
           \/ \E p \in Pools :
                doGetPoolList(p, "PL_LLC_INFO", "doPoolList02Response")
           \/ \E p \in Pools :
                doGetPoolList(p, "PL_LLC_POOLQRY", "doPoolList03Response")
  BY <1>2, <1>3
<1>4. ASSUME NEW cmd \in {"DISABLE_NUMBER_DATA", "POOL_LIST_DATA"},
             UnknownSubCmd(cmd)
      PROVE  Told'
  <2>1. PICK c : c = Cmd(cmd, "unknown", "")
    OBVIOUS
  <2>2. c.sub = "unknown"
    BY <2>1 DEF Cmd
  <2>3. PICK j, pfn : /\ j = bobj.strJrhm /\ NoPool(j)
                      /\ pfn = IF cmd = "DISABLE_NUMBER_DATA"
                               THEN "doDisNumberResponse" ELSE bobj.pfn
    BY DEF Told
  <2>4. Command(c, pfn, j, "silent")
    BY <1>4, <2>1, <2>3 DEF UnknownSubCmd
  <2> QED
    BY <2>2, <2>3, <2>4, ToldCommand
<1>5. CASE AccountFails \/ ApiFails
  <2>1. /\ pc \in {"account", "api"} /\ API_Failed
        /\ docs' = docs /\ IsSeq(docs') /\ cmds' = cmds /\ bobj' = bobj
    BY <1>5 DEF AccountFails, ApiFails, Told
  <2> QED
    BY <2>1, ToldFailed
<1>6. CASE Escape
  <2>1. PICK r : r = [Reply(3, 3, 0, "", <<>>) EXCEPT
                        !.nCmd = "0xbb", !.nSubCmd = "0xbb"]
    OBVIOUS
  <2>2. /\ r.nCmd = "0xbb" /\ r.nSubCmd = "0xbb" /\ r.jrhm = "" /\ r.code = 0
        /\ r.array = 3 /\ r.items = 3
    BY <2>1 DEF Reply
  <2>3. CardTold(r, cmds[Len(cmds)], bobj.strJrhm)
    <3>1. r.nCmd # "DISABLE_NUMBER_DATA"
      BY <2>2
    <3>2. 0 # 1
      OBVIOUS
    <3>3. r.code # 1
      BY <2>2, <3>2, Zenon
    <3>4. r.nSubCmd \notin {"PL_GET_LIST", "PL_LLC_POOLQRY"} /\ r.array = r.items
      BY <2>2
    <3>5. Packed(r, cmds[Len(cmds)])
      BY <3>4, Zenon DEF Packed
    <3> QED
      BY <2>2, <3>1, <3>3, <3>5, Zenon DEF CardTold, CardOf
  <2>4. /\ DealTail(r) /\ cmds' = cmds /\ docs' = docs /\ pc = "account"
        /\ bobj' = [bobj EXCEPT !.nCmd = "0xbb", !.nSubCmd = "0xbb"]
    BY <1>6, <2>1 DEF Escape
  <2>5. PoolsTold(r, docs'[Len(docs)])
    BY <2>2 DEF PoolsTold
  <2>6. "strJrhm" \in DOMAIN bobj' /\ bobj'.strJrhm = bobj.strJrhm
    BY <2>4 DEF Told
  <2>7. IsSeq(docs') /\ Len(docs') = Len(docs)
    BY <2>4 DEF Told
  <2> QED
    BY <2>3, <2>4, <2>5, <2>6, <2>7, ToldReply
<1>7. CASE doApi
  <2>1. /\ pc = "account" /\ cmds' = cmds /\ docs' = docs /\ replies' = replies
        /\ bobj' = bobj
    BY <1>7 DEF doApi
  <2> QED
    BY <2>1 DEF Told
<1>8. CASE DoReturnData
  <2>1. PICK doc \in Answers :
          /\ docs' = [docs EXCEPT ![Len(docs)] = doc]
          /\ IF doc = Broken THEN API_Failed ELSE pfndoApiResponse(doc)
    BY <1>8 DEF DoReturnData
  <2>2. pc = "api" /\ cmds' = cmds /\ bobj' = bobj
    BY <1>8 DEF DoReturnData
  <2>3. PICK S, q : q = docs /\ q \in Seq(S)
    BY DEF Told, IsSeq
  <2>4. Len(q) \in Nat /\ Len(q) # 0
    <3>1. Len(q) = Len(cmds) /\ Len(cmds) \in Nat /\ Len(replies) \in Nat
      BY <2>3, Appended DEF Told, ApiInv
    <3>2. Len(replies) = Len(cmds) - 1
      BY <2>2 DEF ApiInv
    <3> QED
      BY <3>1, <3>2
  <2>5. PICK D, n : D = S \cup {doc} /\ n = Len(q)
    OBVIOUS
  <2>6. q \in Seq(D) /\ doc \in D /\ n \in 1 .. Len(q)
    BY <2>3, <2>4, <2>5, SeqMonotonic
  <2>7. /\ [q EXCEPT ![n] = doc] \in Seq(D)
        /\ Len([q EXCEPT ![n] = doc]) = Len(q)
        /\ \A k \in 1 .. Len(q) :
             [q EXCEPT ![n] = doc][k] = IF k = n THEN doc ELSE q[k]
    BY <2>6, ExceptSeq
  <2>8. docs' = [q EXCEPT ![n] = doc]
    BY <2>1, <2>3, <2>5
  <2>9. /\ IsSeq(docs') /\ Len(docs') = Len(docs) /\ docs'[Len(docs)] = doc
        /\ \A k \in 1 .. Len(docs) - 1 : docs'[k] = docs[k]
    BY <2>3, <2>4, <2>5, <2>7, <2>8 DEF IsSeq
  <2>10. CASE API_Failed
    BY <2>2, <2>9, <2>10, ToldFailed
  <2>11. CASE pfndoApiResponse(doc)
    BY <2>2, <2>9, <2>11, ToldResponse
  <2> QED
    BY <2>1, <2>10, <2>11
<1>9. CASE SendCompSuccess
  <2>1. /\ pc' = "idle" /\ cmds' = cmds /\ docs' = docs /\ replies' = replies
        /\ bobj' = bobj
    BY <1>9 DEF SendCompSuccess
  <2> QED
    BY <2>1 DEF Told
<1>10. CASE UNCHANGED vars
  <2>1. /\ pc' = pc /\ cmds' = cmds /\ docs' = docs /\ replies' = replies
        /\ bobj' = bobj
    BY <1>10 DEF vars
  <2> QED
    BY <2>1 DEF Told
<1> QED
  BY <1>1, <1>3, <1>4, <1>5, <1>6, <1>7, <1>8, <1>9, <1>10 DEF Next

(***************************************************************************)
(* For any commands and any answers whose elements are in the documented   *)
(* order: the replies to card commands name their own card, pools and      *)
(* figures are the API's, and the code's three deviations are where        *)
(* RepliesFaithful has them and nowhere else: the announced length of the  *)
(* list of pools, the earlier card in a failed pool reply, and the members *)
(* of a pool, of which not one is ever counted.                            *)
(***************************************************************************)
THEOREM RepliesTellTrue ==
    ASSUME AnswersDocumented
    PROVE  Spec => []RepliesFaithful
<1>1. Init => Told
  BY ToldInit
<1>2. ApiInv /\ Told /\ [Next]_vars => Told'
  BY ToldNext
<1>3. Told => RepliesFaithful
  BY ToldFaithful
<1> QED
  BY <1>1, <1>2, <1>3, ApiInvariance, PTL DEF Spec
=============================================================================
