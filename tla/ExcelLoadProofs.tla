--------------------------- MODULE ExcelLoadProofs ---------------------------
(***************************************************************************)
(* Proofs about ExcelLoad: imports are all or nothing, the answers are     *)
(* true, and the connection pool is used as BoundedPool allows, for any    *)
(* number of workers, connections, cards and imports of any length.        *)
(*                                                                         *)
(* AllOrNothing is about folds over the log and over the rows of an        *)
(* import.  The first part proves what such a fold is, by induction: the   *)
(* natural numbers are well-founded, so every set of them that is not      *)
(* empty has a least element.                                              *)
(***************************************************************************)
EXTENDS ExcelLoad, FiniteSetTheorems, SequenceTheorems, WellFoundedInduction, TLAPS

\* The log is folded import by import, an import row by row.
Apply(kind, what, u, x) ==
    IF kind = "log" THEN Imported(u, x)
    ELSE [u EXCEPT ![x] = Statement(what.batch.sub, @, what.by)]

\* The table after the imports of a log.
Replay(t, q) == FoldLeft(Imported, t, q)

\* The recursion that FoldLeft goes through, on the first m positions of q.
Folding(kind, what, t, q, m, f) ==
    f = [s \in SUBSET (1 .. m) |->
            IF s = {} THEN t ELSE Apply(kind, what, f[s \ {Max(s)}], q[Max(s)])]

-----------------------------------------------------------------------------
\* Every set of numbers that is not empty has a least one.
LEMMA LeastNat ==
    ASSUME NEW T \in SUBSET Nat, T # {}
    PROVE  \E m \in T : \A k \in T : m <= k
<1> DEFINE R == OpToRel(<, Nat)
<1>1. IsWellFoundedOn(R, Nat)
  BY NatLessThanWellFounded
<1>2. \A x, y \in Nat : x < y => <<x, y>> \in R
  BY DEF OpToRel
<1> HIDE DEF R
<1>3. PICK m \in T : \A y \in T : ~ (<<y, m>> \in R)
  BY <1>1, WFMin
<1>4. \A k \in T : ~(k < m)
  BY <1>2, <1>3
<1> QED
  BY <1>4

\* Induction, for a set of numbers.
LEMMA Induction ==
    ASSUME NEW P, 0 \in P, \A m \in Nat : m \in P => m + 1 \in P
    PROVE  Nat \subseteq P
<1> SUFFICES ASSUME Nat \ P # {} PROVE FALSE
  OBVIOUS
<1> DEFINE T == Nat \ P
<1>1. PICK m \in T : \A k \in T : m <= k
  BY LeastNat
<1>2. m # 0 /\ m \in Nat
  OBVIOUS
<1>3. m - 1 \in Nat /\ (m - 1) + 1 = m /\ ~(m <= m - 1)
  BY <1>2
<1>4. m - 1 \in P
  BY <1>1, <1>3
<1> QED
  BY <1>3, <1>4

\* The greatest element of a set of the numbers up to m + 1.
LEMMA MaxUpTo ==
    ASSUME NEW m \in Nat
    PROVE  /\ \A s \in SUBSET (1 .. m + 1) : m + 1 \in s => Max(s) = m + 1
           /\ \A s \in SUBSET (1 .. m) : s # {} => Max(s) \in s
<1>1. ASSUME NEW s \in SUBSET (1 .. m + 1), m + 1 \in s PROVE Max(s) = m + 1
  <2>1. \A y \in s : m + 1 >= y
    OBVIOUS
  <2>2. \A x \in s : (\A y \in s : x >= y) => x = m + 1
    BY <1>1
  <2>3. Max(s) \in s /\ \A y \in s : Max(s) >= y
    <3>1. \E x \in s : \A y \in s : x >= y
      BY <1>1, <2>1
    <3> QED
      BY <3>1, Zenon DEF Max
  <2> QED
    BY <2>2, <2>3
<1>2. ASSUME NEW s \in SUBSET (1 .. m), s # {} PROVE Max(s) \in s
  <2> DEFINE T == {m - y : y \in s}
  <2>1. T \in SUBSET Nat /\ T # {}
    BY <1>2
  <2> HIDE DEF T
  <2>2. PICK z \in T : \A k \in T : z <= k
    BY <2>1, LeastNat
  <2>3. PICK x \in s : z = m - x
    BY <2>2 DEF T
  <2>4. \A y \in s : m - x <= m - y
    BY <2>2, <2>3 DEF T
  <2>5. \A y \in s : x >= y
    BY <2>4
  <2>6. \E v \in s : \A y \in s : v >= y
    BY <2>5, Zenon
  <2> QED
    BY <2>6, Zenon DEF Max
<1> QED
  BY <1>1, <1>2

\* There is a function as FoldLeft wants it.
LEMMA FoldingExists ==
    ASSUME NEW kind, NEW what, NEW t, NEW q, NEW n \in Nat
    PROVE  \E f : Folding(kind, what, t, q, n, f)
<1> DEFINE P == {m \in Nat : \E f : Folding(kind, what, t, q, m, f)}
<1>1. 0 \in P
  <2>1. \A s \in SUBSET (1 .. 0) : s = {}
    OBVIOUS
  <2> DEFINE f == [s \in SUBSET (1 .. 0) |-> t]
  <2>2. Folding(kind, what, t, q, 0, f)
    BY <2>1 DEF Folding
  <2> HIDE DEF f
  <2> QED
    BY <2>2
<1>2. ASSUME NEW m \in Nat, m \in P PROVE m + 1 \in P
  <2>1. PICK f : Folding(kind, what, t, q, m, f)
    BY <1>2
  <2> DEFINE g == [s \in SUBSET (1 .. m + 1) |->
                     IF s = {} THEN t
                     ELSE IF m + 1 \in s THEN Apply(kind, what, f[s \ {m + 1}], q[m + 1])
                     ELSE f[s]]
             h == [s \in SUBSET (1 .. m + 1) |->
                     IF s = {} THEN t ELSE Apply(kind, what, g[s \ {Max(s)}], q[Max(s)])]
  <2>3. ASSUME NEW s \in SUBSET (1 .. m) PROVE g[s] = f[s]
    <3>1. s \in SUBSET (1 .. m + 1) /\ m + 1 \notin s
      OBVIOUS
    <3>2. s = {} => f[s] = t
      BY <2>1 DEF Folding
    <3> QED
      BY <3>1, <3>2
  <2>4. ASSUME NEW s \in SUBSET (1 .. m + 1) PROVE g[s] = h[s]
    <3>1. CASE s = {}
      BY <3>1
    <3>2. CASE m + 1 \in s
      <4>1. Max(s) = m + 1
        BY <3>2, MaxUpTo
      <4>2. s \ {m + 1} \in SUBSET (1 .. m)
        OBVIOUS
      <4>3. g[s \ {m + 1}] = f[s \ {m + 1}]
        BY <2>3, <4>2
      <4>4. g[s] = Apply(kind, what, f[s \ {m + 1}], q[m + 1])
        BY <3>2
      <4>5. h[s] = Apply(kind, what, g[s \ {Max(s)}], q[Max(s)])
        BY <3>2
      <4> HIDE DEF g, h
      <4> QED
        BY <4>1, <4>3, <4>4, <4>5
    <3>3. CASE s # {} /\ m + 1 \notin s
      <4>1. s \in SUBSET (1 .. m)
        BY <3>3
      <4>2. Max(s) \in s
        BY <3>3, <4>1, MaxUpTo
      <4>3. s \ {Max(s)} \in SUBSET (1 .. m)
        BY <4>1
      <4>4. g[s \ {Max(s)}] = f[s \ {Max(s)}]
        BY <2>3, <4>3
      <4>5. h[s] = Apply(kind, what, g[s \ {Max(s)}], q[Max(s)])
        BY <3>3
      <4>6. g[s] = f[s]
        BY <2>3, <4>1
      <4>7. f[s] = Apply(kind, what, f[s \ {Max(s)}], q[Max(s)])
        BY <2>1, <3>3, <4>1 DEF Folding
      <4> HIDE DEF g, h
      <4> QED
        BY <4>4, <4>5, <4>6, <4>7
    <3> QED
      BY <3>1, <3>2, <3>3
  <2>5. g = h
    BY <2>4
  <2>6. Folding(kind, what, t, q, m + 1, g)
    BY <2>5 DEF Folding
  <2> HIDE DEF g, h
  <2> QED
    BY <2>6
<1> HIDE DEF P
<1>3. Nat \subseteq P
  BY <1>1, <1>2, Induction
<1> QED
  BY <1>3 DEF P

\* What such a function is on the first n positions.
LEMMA FoldingValue ==
    ASSUME NEW kind, NEW what, NEW t, NEW q, NEW n \in Nat, NEW f, Folding(kind, what, t, q, n, f),
           NEW g, g[0] = t, \A j \in 1 .. n : g[j] = Apply(kind, what, g[j - 1], q[j])
    PROVE  f[1 .. n] = g[n]
<1> DEFINE P == {m \in Nat : m <= n => f[1 .. m] = g[m]}
<1>1. 0 \in P
  <2>1. 1 .. 0 = {} /\ {} \in SUBSET (1 .. n)
    OBVIOUS
  <2>2. f[{}] = t
    BY <2>1 DEF Folding
  <2> QED
    BY <2>1, <2>2
<1>2. ASSUME NEW m \in Nat, m \in P PROVE m + 1 \in P
  <2> SUFFICES ASSUME m + 1 <= n PROVE f[1 .. m + 1] = g[m + 1]
    OBVIOUS
  <2>1. f[1 .. m] = g[m]
    BY <1>2
  <2>2. 1 .. m + 1 \in SUBSET (1 .. n) /\ m + 1 \in 1 .. m + 1 /\ 1 .. m + 1 # {}
    OBVIOUS
  <2>3. Max(1 .. m + 1) = m + 1
    BY <2>2, MaxUpTo
  <2>4. (1 .. m + 1) \ {m + 1} = 1 .. m
    OBVIOUS
  <2>5. f[1 .. m + 1] = Apply(kind, what, f[(1 .. m + 1) \ {Max(1 .. m + 1)}], q[Max(1 .. m + 1)])
    BY <2>2 DEF Folding
  <2>6. f[1 .. m + 1] = Apply(kind, what, g[m], q[m + 1])
    BY <2>1, <2>3, <2>4, <2>5
  <2>7. g[m + 1] = Apply(kind, what, g[m + 1 - 1], q[m + 1])
    OBVIOUS
  <2>8. m + 1 - 1 = m
    OBVIOUS
  <2> QED
    BY <2>6, <2>7, <2>8
<1> HIDE DEF P
<1>3. Nat \subseteq P
  BY <1>1, <1>2, Induction
<1>4. n \in P
  BY <1>3
<1> QED
  BY <1>4 DEF P

\* What the rows of an import make of a table, row by row.
LEMMA RowsFold ==
    ASSUME NEW entry, NEW t, NEW n \in Nat, DOMAIN entry.batch.rows = 1 .. n,
           NEW g, g[0] = t,
           \A j \in 1 .. n : g[j] = Apply("import", entry, g[j - 1], entry.batch.rows[j])
    PROVE  Imported(t, entry) = g[n]
<1> DEFINE q == entry.batch.rows
           iter == CHOOSE f : f = [s \in SUBSET (DOMAIN q) |->
                       IF s = {} THEN t
                       ELSE [f[s \ {Max(s)}] EXCEPT ![q[Max(s)]] =
                               Statement(entry.batch.sub, @, entry.by)]]
<1>1. Imported(t, entry) = iter[DOMAIN q]
  BY DEF Imported, FoldLeft, MapThenFoldSet
<1>2. PICK f : Folding("import", entry, t, q, n, f)
  BY FoldingExists
<1>3. f = [s \in SUBSET (DOMAIN q) |->
                       IF s = {} THEN t
                       ELSE [f[s \ {Max(s)}] EXCEPT ![q[Max(s)]] =
                               Statement(entry.batch.sub, @, entry.by)]]
  BY <1>2 DEF Folding, Apply
<1>4. iter = [s \in SUBSET (DOMAIN q) |->
                       IF s = {} THEN t
                       ELSE [iter[s \ {Max(s)}] EXCEPT ![q[Max(s)]] =
                               Statement(entry.batch.sub, @, entry.by)]]
  BY <1>3, Zenon
<1> HIDE DEF iter
<1>5. Folding("import", entry, t, q, n, iter)
  BY <1>4 DEF Folding, Apply
<1>6. PICK h, r, kind : h = iter /\ r = q /\ kind = "import"
  OBVIOUS
<1>7. /\ Folding(kind, entry, t, r, n, h)
      /\ \A j \in 1 .. n : g[j] = Apply(kind, entry, g[j - 1], r[j])
  BY <1>5, <1>6
<1>8. h[1 .. n] = g[n]
  BY <1>7, FoldingValue
<1> QED
  BY <1>1, <1>6, <1>8

\* What the imports of the log make of a table, one after the other.
LEMMA LogFold ==
    ASSUME NEW t, NEW q, NEW n \in Nat, DOMAIN q = 1 .. n,
           NEW g, g[0] = t,
           \A j \in 1 .. n : g[j] = Imported(g[j - 1], q[j])
    PROVE  Replay(t, q) = g[n]
<1> DEFINE iter == CHOOSE f : f = [s \in SUBSET (DOMAIN q) |->
                       IF s = {} THEN t ELSE Imported(f[s \ {Max(s)}], q[Max(s)])]
<1>1. Replay(t, q) = iter[DOMAIN q]
  BY DEF Replay, FoldLeft, MapThenFoldSet
<1>2. PICK f : Folding("log", {}, t, q, n, f)
  BY FoldingExists
<1>3. f = [s \in SUBSET (DOMAIN q) |->
                       IF s = {} THEN t ELSE Imported(f[s \ {Max(s)}], q[Max(s)])]
  BY <1>2 DEF Folding, Apply
<1>4. iter = [s \in SUBSET (DOMAIN q) |->
                       IF s = {} THEN t ELSE Imported(iter[s \ {Max(s)}], q[Max(s)])]
  BY <1>3, Zenon
<1> HIDE DEF iter
<1>5. Folding("log", {}, t, q, n, iter)
  BY <1>4 DEF Folding, Apply
<1>6. \A j \in 1 .. n : g[j] = Apply("log", {}, g[j - 1], q[j])
  BY DEF Apply
<1>7. PICK h, kind, what : h = iter /\ kind = "log" /\ what = {}
  OBVIOUS
<1>8. /\ Folding(kind, what, t, q, n, h)
      /\ \A j \in 1 .. n : g[j] = Apply(kind, what, g[j - 1], q[j])
  BY <1>5, <1>6, <1>7
<1>9. h[1 .. n] = g[n]
  BY <1>8, FoldingValue
<1> QED
  BY <1>1, <1>7, <1>9

-----------------------------------------------------------------------------
Labels == {"idle", "alloc", "begin", "rows", "catch", "free"}

\* Between AllocTransConner and FreeConner a worker has a connection.
Holding == {"begin", "rows", "catch", "free"}

TypeInv ==
    /\ pc \in [Workers -> Labels]
    /\ held \in [Workers -> Conns \cup {NoConn}]
    /\ i \in [Workers -> Nat]
    /\ cmd = [w \in Workers |-> cmd[w]]
    /\ reply \in [Workers -> {"0", "1", "bb"}]
    /\ outcome \in [Workers -> {"none", "committed", "unknown"}]
    /\ \A w \in Workers : pc[w] # "idle" => cmd[w] \in Batch
    /\ \A w \in Workers : held[w] # NoConn <=> pc[w] \in Holding
    /\ pool \subseteq Conns /\ alive \subseteq Conns /\ open \subseteq alive

\* A connection is on the shelf, or one worker has it, or it is leaked.
Exclusive ==
    /\ \A w \in Workers : held[w] \notin pool
    /\ \A v, w \in Workers : v # w /\ held[v] = held[w] => held[v] = NoConn

\* The answer is settled together with the outcome of the transaction.
Settled ==
    \A w \in Workers :
        /\ pc[w] \in {"alloc", "begin", "rows"} => outcome[w] = "none"
        /\ pc[w] = "catch" => outcome[w] \in {"none", "unknown"}
        /\ pc[w] \in {"free", "idle"} =>
              \/ reply[w] = "0" /\ outcome[w] = "committed"
              \/ reply[w] # "0" /\ outcome[w] \in {"none", "unknown"}

(***************************************************************************)
(* Transactions: only an open one has rows, no card is locked by two, and  *)
(* no worker writes without one.                                           *)
(***************************************************************************)
Isolated ==
    /\ tbl = [k \in Cards |-> tbl[k]]
    /\ writes = [d \in Conns |-> writes[d]]
    /\ \A d \in Conns : DOMAIN writes[d] \subseteq Cards
    /\ \A d \in Conns : d \notin open => DOMAIN writes[d] = {}
    /\ \A d, e \in Conns : d # e => DOMAIN writes[d] \cap DOMAIN writes[e] = {}
    /\ \A d \in pool : d \notin open
    /\ \A w \in Workers : pc[w] \in {"begin", "free"} => held[w] \notin open
    /\ \A w \in Workers : pc[w] = "rows" /\ held[w] \in alive => held[w] \in open
    /\ \A w \in Workers : pc[w] \in {"alloc", "begin"} => i[w] = 1
    /\ \A w \in Workers : pc[w] = "rows" => i[w] \in 1 .. Len(cmd[w].rows) + 1

(***************************************************************************)
(* The rows a worker has written are what the import makes of the          *)
(* committed table so far, g being the tables row by row.                  *)
(***************************************************************************)
Written(w, g) ==
    /\ g[0] = tbl
    /\ \A j \in 0 .. i[w] - 1 : g[j] = [k \in Cards |-> g[j][k]]
    /\ \A j \in 1 .. i[w] - 1 :
         /\ cmd[w].rows[j] \in DOMAIN writes[held[w]]
         /\ g[j] = [g[j - 1] EXCEPT ![cmd[w].rows[j]] = Statement(cmd[w].sub, @, w)]
    /\ g[i[w] - 1] = Overlay(tbl, writes[held[w]])

HalfDone ==
    \A w \in Workers :
        pc[w] = "rows" /\ held[w] \in open => \E g : Written(w, g)

\* The tables after each import of the log, the last one being sim_tbl.
Serial ==
    /\ log \in Seq([by : Workers, batch : Batch])
    /\ \E h : /\ h[0] = OldTbl
              /\ \A j \in 1 .. Len(log) : h[j] = Imported(h[j - 1], log[j])
              /\ h[Len(log)] = tbl

IInv == TypeInv /\ Exclusive /\ Settled /\ Isolated /\ HalfDone /\ Serial

-----------------------------------------------------------------------------
\* At the start nothing is open, written or imported.
LEMMA InitInv == Init => IInv
<1> SUFFICES ASSUME Init PROVE IInv
  OBVIOUS
<1> USE ExcelAssumption
<1>1. TypeInv
  BY DEF Init, TypeInv, Labels, Holding
<1>2. Exclusive /\ Settled
  BY DEF Init, Exclusive, Settled
<1>3. Isolated
  <2>1. tbl = [k \in Cards |-> tbl[k]]
    BY DEF Init
  <2>2. writes = [d \in Conns |-> writes[d]] /\ \A d \in Conns : DOMAIN writes[d] = {}
    BY DEF Init, NoWrites
  <2> QED
    BY <2>1, <2>2 DEF Init, Isolated
<1>4. HalfDone
  BY DEF Init, HalfDone
<1>5. Serial
  <2> DEFINE h == [j \in {0} |-> OldTbl]
  <2>1. log = <<>> /\ Len(log) = 0 /\ log \in Seq([by : Workers, batch : Batch])
    BY DEF Init
  <2>2. h[0] = OldTbl /\ h[Len(log)] = tbl /\ \A j \in 1 .. Len(log) : FALSE
    BY <2>1 DEF Init
  <2> HIDE DEF h
  <2>3. \A j \in 1 .. Len(log) : h[j] = Imported(h[j - 1], log[j])
    BY <2>2
  <2> QED
    BY <2>1, <2>2, <2>3 DEF Serial
<1> QED
  BY <1>1, <1>2, <1>3, <1>4, <1>5 DEF IInv

\* Who holds what, and what has been answered, after a step of a worker.
LEMMA StepHolds ==
    ASSUME IInv, NEW w \in Workers, doExcelLoad(w) \/ Step(w)
    PROVE  TypeInv' /\ Exclusive' /\ Settled'
<1> USE ExcelAssumption DEF IInv, GoTo, Answer, Escape, EndTrans, db, Labels, Holding
<1>1. CASE doExcelLoad(w)
  <2>1. TypeInv'
    BY <1>1 DEF doExcelLoad, TypeInv
  <2>2. Exclusive' /\ Settled'
    BY <1>1 DEF doExcelLoad, TypeInv, Exclusive, Settled
  <2> QED
    BY <2>1, <2>2
<1>2. CASE AllocTransConner(w)
  <2>1. TypeInv'
    BY <1>2 DEF AllocTransConner, TypeInv
  <2>2. Exclusive'
    BY <1>2 DEF AllocTransConner, TypeInv, Exclusive
  <2>3. Settled'
    BY <1>2 DEF AllocTransConner, TypeInv, Settled
  <2> QED
    BY <2>1, <2>2, <2>3
<1>3. CASE AllocFails(w)
  BY <1>3 DEF AllocFails, TypeInv, Exclusive, Settled
<1>4. CASE BeginTrans(w)
  <2>1. TypeInv'
    BY <1>4 DEF BeginTrans, TypeInv
  <2>2. Exclusive'
    BY <1>4 DEF BeginTrans, TypeInv, Exclusive
  <2>3. Settled'
    BY <1>4 DEF BeginTrans, TypeInv, Settled
  <2> QED
    BY <2>1, <2>2, <2>3
<1>5. CASE BeginTransFails(w) \/ RowTypeError(w) \/ RollbackTransFails(w)
  <2>1. /\ pc[w] \in {"begin", "rows", "catch"} /\ pc' = [pc EXCEPT ![w] = "idle"]
        /\ held' = [held EXCEPT ![w] = NoConn]
        /\ reply' = [reply EXCEPT ![w] = "bb"]
        /\ UNCHANGED <<open, alive, pool, cmd, i, outcome>>
    BY <1>5 DEF BeginTransFails, RowTypeError, RollbackTransFails
  <2>2. NoConn \notin pool
    BY DEF TypeInv
  <2>3. TypeInv'
    BY <2>1 DEF TypeInv
  <2>4. Exclusive'
    BY <2>1, <2>2 DEF TypeInv, Exclusive
  <2>5. Settled'
    BY <2>1 DEF TypeInv, Settled
  <2> QED
    BY <2>3, <2>4, <2>5
<1>6. CASE Execute(w)
  <2>1. /\ i' = [i EXCEPT ![w] = @ + 1]
        /\ UNCHANGED <<open, alive, pool, pc, cmd, held, reply, outcome>>
    BY <1>6 DEF Execute
  <2> QED
    BY <2>1 DEF TypeInv, Exclusive, Settled
<1>7. CASE ExecuteFails(w)
  BY <1>7 DEF ExecuteFails, TypeInv, Exclusive, Settled
<1>8. CASE CommitTrans(w)
  BY <1>8 DEF CommitTrans, TypeInv, Exclusive, Settled
<1>9. CASE CommitTransFails(w)
  <2>1. /\ pc[w] = "rows" /\ pc' = [pc EXCEPT ![w] = "catch"]
        /\ UNCHANGED <<pool, cmd, i, held, reply>>
        /\ \/ UNCHANGED <<open, alive, outcome>>
           \/ /\ open' = open \ {held[w]} /\ alive' = alive \ {held[w]}
              /\ outcome' = [outcome EXCEPT ![w] = "unknown"]
    BY <1>9 DEF CommitTransFails
  <2>2. TypeInv'
    BY <2>1 DEF TypeInv
  <2>3. Exclusive' /\ Settled'
    BY <2>1 DEF TypeInv, Exclusive, Settled
  <2> QED
    BY <2>2, <2>3
<1>10. CASE RollbackTrans(w)
  BY <1>10 DEF RollbackTrans, TypeInv, Exclusive, Settled
<1>11. CASE FreeConner(w)
  <2>1. TypeInv'
    BY <1>11 DEF FreeConner, TypeInv
  <2>2. Exclusive'
    BY <1>11 DEF FreeConner, TypeInv, Exclusive
  <2>3. Settled'
    BY <1>11 DEF FreeConner, TypeInv, Settled
  <2> QED
    BY <2>1, <2>2, <2>3
<1> QED
  BY <1>1, <1>2, <1>3, <1>4, <1>5, <1>6, <1>7, <1>8, <1>9, <1>10, <1>11 DEF Step

(***************************************************************************)
(* What a step does not touch: another worker's rows stay what they are.   *)
(***************************************************************************)
LEMMA WrittenKept ==
    ASSUME NEW v \in Workers, NEW g, Written(v, g), UNCHANGED tbl,
           i'[v] = i[v], cmd'[v] = cmd[v], held'[v] = held[v],
           writes'[held[v]] = writes[held[v]]
    PROVE  Written(v, g)'
BY DEF Written, Overlay

(***************************************************************************)
(* A step that ends transactions, or begins one at its first row, and      *)
(* commits nothing.                                                        *)
(***************************************************************************)
LEMMA HalfDoneKept ==
    ASSUME IInv, UNCHANGED tbl,
           \A v \in Workers : pc'[v] = "rows" /\ held'[v] \in open' =>
               /\ pc[v] = "rows" /\ held[v] \in open
               /\ i'[v] = i[v] /\ cmd'[v] = cmd[v] /\ held'[v] = held[v]
               /\ writes'[held[v]] = writes[held[v]]
    PROVE  HalfDone'
<1> SUFFICES ASSUME NEW v \in Workers, pc'[v] = "rows", held'[v] \in open'
             PROVE  \E g : Written(v, g)'
  BY DEF HalfDone
<1>1. /\ pc[v] = "rows" /\ held[v] \in open
      /\ i'[v] = i[v] /\ cmd'[v] = cmd[v] /\ held'[v] = held[v]
      /\ writes'[held[v]] = writes[held[v]]
  OBVIOUS
<1>2. PICK g : Written(v, g)
  BY <1>1 DEF IInv, HalfDone
<1>3. Written(v, g)'
  BY <1>1, <1>2, WrittenKept
<1> QED
  BY <1>3

\* Without a commit the log and the table stay in step.
LEMMA SerialKept == ASSUME IInv, UNCHANGED <<tbl, log>> PROVE Serial'
BY DEF IInv, Serial

\* A transaction that ends, without a commit.
LEMMA EndInv ==
    ASSUME IInv, NEW d \in Conns, EndTrans(d), UNCHANGED <<tbl, pool, i, cmd, held>>,
           alive' \in {alive, alive \ {d}},
           \A v \in Workers : pc'[v] = pc[v] \/ (held[v] = d /\ pc'[v] = "free"),
           \A v \in Workers : pc[v] = "rows" /\ pc'[v] = "rows" /\ held[v] = d => d \notin alive'
    PROVE  Isolated' /\ HalfDone'
<1>1. /\ open' = open \ {d} /\ writes' = [writes EXCEPT ![d] = NoWrites]
      /\ DOMAIN NoWrites = {}
  BY DEF EndTrans, NoWrites
<1>2. Isolated'
  <2>1. writes' = [e \in Conns |-> writes'[e]]
    BY <1>1 DEF IInv, Isolated
  <2>2. writes'[d] = NoWrites /\ \A e \in Conns : e # d => writes'[e] = writes[e]
    BY <1>1 DEF IInv, Isolated
  <2>3. /\ \A e \in Conns : DOMAIN writes'[e] \subseteq Cards
        /\ \A e \in Conns : e \notin open' => DOMAIN writes'[e] = {}
        /\ \A e, f \in Conns : e # f => DOMAIN writes'[e] \cap DOMAIN writes'[f] = {}
    BY <1>1, <2>2 DEF IInv, Isolated
  <2>4. \A w \in Workers : pc'[w] \in {"begin", "free"} => held[w] \notin open'
    BY <1>1 DEF IInv, Isolated
  <2>5. \A w \in Workers : pc'[w] = "rows" /\ held[w] \in alive' => held[w] \in open'
    <3> SUFFICES ASSUME NEW w \in Workers, pc'[w] = "rows", held[w] \in alive'
                 PROVE  held[w] \in open'
      OBVIOUS
    <3>1. pc[w] = "rows" /\ held[w] \in alive
      OBVIOUS
    <3>2. held[w] \in open
      BY <3>1 DEF IInv, Isolated
    <3>3. held[w] # d
      BY <3>1
    <3> QED
      BY <1>1, <3>2, <3>3
  <2> QED
    BY <1>1, <2>1, <2>3, <2>4, <2>5 DEF IInv, Isolated
<1>3. HalfDone'
  <2>1. ASSUME NEW v \in Workers, pc'[v] = "rows", held'[v] \in open'
        PROVE  /\ pc[v] = "rows" /\ held[v] \in open
               /\ i'[v] = i[v] /\ cmd'[v] = cmd[v] /\ held'[v] = held[v]
               /\ writes'[held[v]] = writes[held[v]]
    <3>1. pc[v] = "rows" /\ held[v] \in open /\ held[v] # d
      BY <1>1, <2>1
    <3>2. writes'[held[v]] = writes[held[v]]
      BY <1>1, <3>1 DEF IInv, TypeInv, Isolated
    <3> QED
      BY <3>1, <3>2
  <2> QED
    BY <2>1, HalfDoneKept
<1> QED
  BY <1>2, <1>3

\* A commit puts the rows of one transaction into the table.
LEMMA CommitInv ==
    ASSUME IInv, NEW w \in Workers, pc[w] = "rows", i[w] > Len(cmd[w].rows),
           held[w] \in alive, tbl' = Overlay(tbl, writes[held[w]]), EndTrans(held[w]),
           log' = Append(log, [by |-> w, batch |-> cmd[w]]),
           alive' \in {alive, alive \ {held[w]}},
           NEW label \in {"free", "catch"}, pc' = [pc EXCEPT ![w] = label],
           UNCHANGED <<pool, i, cmd, held>>
    PROVE  Isolated' /\ HalfDone' /\ Serial'
<1> DEFINE d == held[w]
           n == Len(cmd[w].rows)
           entry == [by |-> w, batch |-> cmd[w]]
<1>1. /\ d \in Conns /\ d \in open /\ cmd[w] \in Batch /\ i[w] \in Nat
      /\ \A v \in Workers : v # w /\ held[v] = d => FALSE
  BY DEF IInv, TypeInv, Exclusive, Isolated, Holding
<1>2. n \in Nat /\ DOMAIN cmd[w].rows = 1 .. n /\ i[w] - 1 = n
  <2>1. cmd[w].rows \in Seq(Cards)
    BY <1>1 DEF Batch
  <2>2. n \in Nat /\ DOMAIN cmd[w].rows = 1 .. n
    BY <2>1, LenProperties
  <2>3. i[w] \in 1 .. n + 1 /\ i[w] > n
    BY DEF IInv, Isolated
  <2> HIDE DEF n
  <2>4. i[w] - 1 = n
    BY <1>1, <2>2, <2>3
  <2> QED
    BY <2>2, <2>4
<1>3. PICK g : Written(w, g)
  BY <1>1 DEF IInv, HalfDone
<1>4. /\ open' = open \ {d} /\ writes' = [writes EXCEPT ![d] = NoWrites]
      /\ DOMAIN NoWrites = {}
  BY DEF EndTrans, NoWrites
<1>5. tbl' = g[n]
  BY <1>2, <1>3 DEF Written
<1>6. tbl' = [k \in Cards |-> IF k \in DOMAIN writes[d] THEN writes[d][k] ELSE tbl[k]]
  BY DEF Overlay
<1>7. Isolated'
  <2>1. tbl' = [k \in Cards |-> tbl'[k]]
    BY <1>6
  <2>2. writes' = [e \in Conns |-> writes'[e]]
    BY <1>4 DEF IInv, Isolated
  <2>3. writes'[d] = NoWrites /\ \A e \in Conns : e # d => writes'[e] = writes[e]
    BY <1>1, <1>4 DEF IInv, Isolated
  <2>4. /\ \A e \in Conns : DOMAIN writes'[e] \subseteq Cards
        /\ \A e \in Conns : e \notin open' => DOMAIN writes'[e] = {}
        /\ \A e, f \in Conns : e # f => DOMAIN writes'[e] \cap DOMAIN writes'[f] = {}
    BY <1>4, <2>3 DEF IInv, Isolated
  <2>5. pc'[w] = label /\ \A v \in Workers : v # w => pc'[v] = pc[v] /\ held[v] # d
    BY <1>1 DEF IInv, TypeInv
  <2>6. \A v \in Workers : pc'[v] \in {"begin", "free"} => held[v] \notin open'
    BY <1>4, <2>5 DEF IInv, Isolated
  <2>7. \A v \in Workers : pc'[v] = "rows" /\ held[v] \in alive' => held[v] \in open'
    BY <1>4, <2>5 DEF IInv, Isolated
  <2>8. /\ \A v \in Workers : pc'[v] \in {"alloc", "begin"} => i[v] = 1
        /\ \A v \in Workers : pc'[v] = "rows" => i[v] \in 1 .. Len(cmd[v].rows) + 1
    BY <2>5 DEF IInv, Isolated
  <2> QED
    BY <1>4, <2>1, <2>2, <2>4, <2>6, <2>7, <2>8 DEF IInv, Isolated
<1>8. HalfDone'
  <2> SUFFICES ASSUME NEW v \in Workers, pc'[v] = "rows", held'[v] \in open'
               PROVE  \E f : Written(v, f)'
    BY DEF HalfDone
  <2>1. v # w /\ pc[v] = "rows" /\ held[v] \in open /\ held[v] # d /\ held[v] \in Conns
    BY <1>1, <1>4 DEF IInv, TypeInv
  <2>2. PICK f : Written(v, f)
    BY <2>1 DEF IInv, HalfDone
  <2> DEFINE m == i[v] - 1
             r == cmd[v].rows
             wv == writes[held[v]]
             C == DOMAIN writes[d]
  <2>3. writes'[held[v]] = wv /\ C \cap DOMAIN wv = {} /\ DOMAIN wv \subseteq Cards
    BY <1>1, <1>4, <2>1 DEF IInv, Isolated
  <2>4. m \in Nat
    <3>1. i[v] \in 1 .. Len(r) + 1
      BY <2>1 DEF IInv, Isolated
    <3> QED
      BY <3>1
  <2>5. /\ f[0] = tbl /\ f[m] = Overlay(tbl, wv)
        /\ \A j \in 0 .. m : f[j] = [k \in Cards |-> f[j][k]]
        /\ \A j \in 1 .. m : r[j] \in DOMAIN wv
        /\ \A j \in 1 .. m : f[j] = [f[j - 1] EXCEPT ![r[j]] = Statement(cmd[v].sub, @, v)]
    BY <2>2 DEF Written
  <2> DEFINE s == [j \in 0 .. m |-> [k \in Cards |-> IF k \in C THEN tbl'[k] ELSE f[j][k]]]
  <2>6. s[0] = tbl'
    <3>1. 0 \in 0 .. m
      BY <2>4
    <3>2. s[0] = [k \in Cards |-> IF k \in C THEN tbl'[k] ELSE tbl[k]]
      BY <2>5, <3>1
    <3> QED
      BY <1>6, <3>2
  <2>7. s[m] = Overlay(tbl', wv)
    <3>1. m \in 0 .. m
      BY <2>4
    <3>2. s[m] = [k \in Cards |-> IF k \in C THEN tbl'[k] ELSE f[m][k]]
      BY <3>1
    <3>3. \A k \in Cards : f[m][k] = IF k \in DOMAIN wv THEN wv[k] ELSE tbl[k]
      BY <2>5 DEF Overlay
    <3>4. \A k \in Cards : k \notin C => tbl'[k] = tbl[k]
      BY <1>6
    <3>5. Overlay(tbl', wv) = [k \in Cards |-> IF k \in DOMAIN wv THEN wv[k] ELSE tbl'[k]]
      BY DEF Overlay
    <3>6. \A k \in Cards : s[m][k] = IF k \in DOMAIN wv THEN wv[k] ELSE tbl'[k]
      BY <2>3, <3>2, <3>3, <3>4
    <3> HIDE DEF s, m, wv, C
    <3> QED
      BY <3>2, <3>5, <3>6
  <2>8. \A j \in 0 .. m : s[j] = [k \in Cards |-> s[j][k]]
    OBVIOUS
  <2>9. ASSUME NEW j \in 1 .. m
        PROVE  s[j] = [s[j - 1] EXCEPT ![r[j]] = Statement(cmd[v].sub, @, v)]
    <3>1. j \in 0 .. m /\ j - 1 \in 0 .. m
      BY <2>4
    <3>2. s[j] = [k \in Cards |-> IF k \in C THEN tbl'[k] ELSE f[j][k]]
      BY <3>1
    <3>3. s[j - 1] = [k \in Cards |-> IF k \in C THEN tbl'[k] ELSE f[j - 1][k]]
      BY <3>1
    <3>4. r[j] \in Cards /\ r[j] \notin C
      BY <2>3, <2>5
    <3>5. /\ f[j] = [f[j - 1] EXCEPT ![r[j]] = Statement(cmd[v].sub, @, v)]
          /\ f[j] = [k \in Cards |-> f[j][k]]
          /\ f[j - 1] = [k \in Cards |-> f[j - 1][k]]
      BY <2>5, <3>1
    <3> HIDE DEF s, m, wv, C, r
    <3>6. PICK a, b, x, k0, st : a = f[j - 1] /\ b = f[j] /\ x = s[j - 1] /\ k0 = r[j]
                                 /\ st = Statement(cmd[v].sub, a[k0], v)
      OBVIOUS
    <3>7. /\ b = [a EXCEPT ![k0] = st] /\ a = [k \in Cards |-> a[k]]
          /\ x = [k \in Cards |-> IF k \in C THEN tbl'[k] ELSE a[k]]
          /\ s[j] = [k \in Cards |-> IF k \in C THEN tbl'[k] ELSE b[k]]
          /\ k0 \in Cards /\ k0 \notin C
      BY <3>2, <3>3, <3>4, <3>5, <3>6
    <3>8. s[j] = [x EXCEPT ![k0] = st] /\ x[k0] = a[k0]
      BY <3>7
    <3> QED
      BY <3>6, <3>8
  <2>10. /\ i'[v] - 1 = m /\ cmd'[v].rows = r /\ cmd'[v].sub = cmd[v].sub
         /\ writes'[held'[v]] = wv
    BY <2>3
  <2>11. \A j \in 1 .. m : /\ r[j] \in DOMAIN wv
                           /\ s[j] = [s[j - 1] EXCEPT ![r[j]] = Statement(cmd[v].sub, @, v)]
    BY <2>5, <2>9
  <2> HIDE DEF s, m, r, wv
  <2>12. PICK c : c = s
    OBVIOUS
  <2>13. c[0] = tbl' /\ c[i'[v] - 1] = Overlay(tbl', writes'[held'[v]])
    BY <2>6, <2>7, <2>10, <2>12
  <2>14. \A j \in 0 .. i'[v] - 1 : c[j] = [k \in Cards |-> c[j][k]]
    BY <2>8, <2>10, <2>12
  <2>15. \A j \in 1 .. i'[v] - 1 :
           /\ cmd'[v].rows[j] \in DOMAIN writes'[held'[v]]
           /\ c[j] = [c[j - 1] EXCEPT ![cmd'[v].rows[j]] = Statement(cmd'[v].sub, @, v)]
    BY <2>10, <2>11, <2>12
  <2>16. Overlay(tbl, writes[held[v]])' = Overlay(tbl', writes'[held'[v]])
    BY DEF Overlay
  <2>17. Written(v, c)'
    BY <2>13, <2>14, <2>15, <2>16 DEF Written
  <2> QED
    BY <2>17
<1>9. Serial'
  <2>1. PICK h : /\ h[0] = OldTbl
                 /\ \A j \in 1 .. Len(log) : h[j] = Imported(h[j - 1], log[j])
                 /\ h[Len(log)] = tbl
    BY DEF IInv, Serial
  <2>2. log \in Seq([by : Workers, batch : Batch]) /\ entry \in [by : Workers, batch : Batch]
    BY <1>1 DEF IInv, Serial
  <2> DEFINE p == Len(log)
             h1 == [j \in 0 .. p + 1 |-> IF j = p + 1 THEN tbl' ELSE h[j]]
  <2>3. /\ p \in Nat /\ log' \in Seq([by : Workers, batch : Batch]) /\ Len(log') = p + 1
        /\ \A j \in 1 .. p : log'[j] = log[j]
        /\ log'[p + 1] = entry
    BY <2>2, LenProperties, AppendProperties
  <2>4. tbl' = Imported(tbl, entry)
    <3>1. PICK e : e = entry
      OBVIOUS
    <3>2. e.batch = cmd[w] /\ e.by = w
      BY <3>1
    <3>3. \A j \in 1 .. n : g[j] = Apply("import", e, g[j - 1], e.batch.rows[j])
      BY <1>2, <1>3, <3>2 DEF Written, Apply
    <3>4. g[0] = tbl /\ DOMAIN e.batch.rows = 1 .. n
      BY <1>2, <1>3, <3>2 DEF Written
    <3>5. PICK num \in Nat, t \in {tbl} : num = n
      BY <1>2
    <3> HIDE DEF n
    <3>6. /\ \A j \in 1 .. num : g[j] = Apply("import", e, g[j - 1], e.batch.rows[j])
          /\ g[0] = t /\ DOMAIN e.batch.rows = 1 .. num
      BY <3>3, <3>4, <3>5
    <3>7. Imported(t, e) = g[num]
      BY <3>6, RowsFold
    <3> QED
      BY <1>5, <3>1, <3>5, <3>7
  <2> HIDE DEF p
  <2>5. h1[0] = OldTbl /\ h1[p + 1] = tbl'
    BY <2>1, <2>3
  <2>6. \A j \in 1 .. p : h1[j] = h[j] /\ h1[j - 1] = h[j - 1]
    BY <2>3
  <2>7. h1[p + 1 - 1] = tbl
    <3>1. p + 1 - 1 = p /\ p \in 0 .. p + 1 /\ p # p + 1
      BY <2>3
    <3>2. h1[p] = h[p]
      BY <3>1
    <3> QED
      BY <2>1, <3>1, <3>2 DEF p
  <2> HIDE DEF h1, entry
  <2>8. ASSUME NEW j \in 1 .. p + 1 PROVE h1[j] = Imported(h1[j - 1], log'[j])
    <3>1. CASE j \in 1 .. p
      <4>1. h[j] = Imported(h[j - 1], log[j])
        BY <2>1, <3>1 DEF p
      <4> QED
        BY <2>3, <2>6, <3>1, <4>1
    <3>2. CASE j = p + 1
      BY <2>3, <2>4, <2>5, <2>7, <3>2
    <3> QED
      BY <2>3, <2>8, <3>1, <3>2
  <2> QED
    BY <2>3, <2>5, <2>8 DEF Serial
<1> QED
  BY <1>7, <1>8, <1>9

\* A row is written, in the worker's own transaction.
LEMMA ExecuteInv ==
    ASSUME IInv, NEW w \in Workers, Execute(w)
    PROVE  Isolated' /\ HalfDone' /\ Serial'
<1> DEFINE d == held[w]
           r == cmd[w].rows
           k == r[i[w]]
           new == Statement(cmd[w].sub, Overlay(tbl, writes[d])[k], w)
<1>1. /\ d \in Conns /\ d \in open /\ cmd[w] \in Batch /\ i[w] \in Nat
      /\ \A v \in Workers : v # w => held[v] # d
  BY DEF IInv, TypeInv, Exclusive, Isolated, Holding, Execute
<1>2. /\ pc[w] = "rows" /\ i[w] <= Len(r)
      /\ \A e \in Conns \ {d} : k \notin DOMAIN writes[e]
      /\ writes' = [writes EXCEPT ![d] =
             [l \in DOMAIN @ \cup {k} |-> IF l = k THEN new ELSE @[l]]]
      /\ i' = [i EXCEPT ![w] = @ + 1]
      /\ UNCHANGED <<tbl, open, alive, log, pool, pc, cmd, held>>
  BY <1>1 DEF Execute
<1>3. i[w] \in 1 .. Len(r) /\ Len(r) \in Nat /\ k \in Cards
  <2>1. r \in Seq(Cards)
    BY <1>1 DEF Batch
  <2>2. i[w] \in 1 .. Len(r) + 1
    BY <1>2 DEF IInv, Isolated
  <2>3. Len(r) \in Nat
    BY <2>1, LenProperties
  <2>4. i[w] \in 1 .. Len(r)
    BY <1>2, <2>2, <2>3
  <2> QED
    BY <2>1, <2>3, <2>4
<1> HIDE DEF k, new, r
<1>4. /\ i'[w] = i[w] + 1 /\ \A v \in Workers : v # w => i'[v] = i[v]
  BY <1>2 DEF IInv, TypeInv
<1>5. /\ \A e \in Conns : e # d => writes'[e] = writes[e]
      /\ writes'[d] = [l \in DOMAIN writes[d] \cup {k} |-> IF l = k THEN new ELSE writes[d][l]]
      /\ writes' = [e \in Conns |-> writes'[e]]
  BY <1>1, <1>2 DEF IInv, Isolated
<1>6. DOMAIN writes'[d] = DOMAIN writes[d] \cup {k}
  BY <1>5
<1>7. Isolated'
  <2>1. \A e \in Conns : DOMAIN writes'[e] \subseteq Cards
    <3>1. \A e \in Conns : DOMAIN writes[e] \subseteq Cards
      BY DEF IInv, Isolated
    <3>2. DOMAIN writes'[d] \subseteq Cards
      BY <1>1, <1>3, <1>6, <3>1
    <3> QED
      BY <1>5, <3>1, <3>2
  <2>2. \A e \in Conns : e \notin open' => DOMAIN writes'[e] = {}
    BY <1>1, <1>2, <1>5 DEF IInv, Isolated
  <2>3. \A e, f \in Conns : e # f => DOMAIN writes'[e] \cap DOMAIN writes'[f] = {}
    BY <1>2, <1>5, <1>6 DEF IInv, Isolated
  <2>4. /\ \A v \in Workers : pc'[v] \in {"alloc", "begin"} => i'[v] = 1
        /\ \A v \in Workers : pc'[v] = "rows" => i'[v] \in 1 .. Len(cmd'[v].rows) + 1
    <3>1. i'[w] \in 1 .. Len(cmd[w].rows) + 1
      BY <1>3, <1>4 DEF r
    <3> QED
      BY <1>2, <1>4, <3>1 DEF IInv, Isolated
  <2> QED
    BY <1>2, <1>5, <2>1, <2>2, <2>3, <2>4 DEF IInv, Isolated
<1>8. HalfDone'
  <2> SUFFICES ASSUME NEW v \in Workers, pc'[v] = "rows", held'[v] \in open'
               PROVE  \E f : Written(v, f)'
    BY DEF HalfDone
  <2>1. pc[v] = "rows" /\ held[v] \in open /\ held[v] \in Conns
    BY <1>2 DEF IInv, TypeInv
  <2>2. PICK f : Written(v, f)
    BY <2>1 DEF IInv, HalfDone
  <2>3. CASE v # w
    <3>1. writes'[held[v]] = writes[held[v]] /\ i'[v] = i[v]
      BY <1>1, <1>4, <1>5, <2>1, <2>3
    <3>2. Written(v, f)'
      BY <1>2, <2>2, <3>1, WrittenKept
    <3> QED
      BY <3>2
  <2>4. CASE v = w
    <3> DEFINE m == i[w] - 1
    <3>1. m \in Nat /\ m + 1 = i[w] /\ i'[w] - 1 = m + 1
      BY <1>3, <1>4
    <3>2. /\ f[0] = tbl /\ f[m] = Overlay(tbl, writes[d])
          /\ \A j \in 0 .. m : f[j] = [c \in Cards |-> f[j][c]]
          /\ \A j \in 1 .. m : r[j] \in DOMAIN writes[d]
          /\ \A j \in 1 .. m : f[j] = [f[j - 1] EXCEPT ![r[j]] = Statement(cmd[w].sub, @, w)]
      BY <2>2, <2>4 DEF Written, r
    <3>3. k = r[m + 1] /\ new = Statement(cmd[w].sub, f[m][k], w)
      BY <3>1, <3>2 DEF k, new
    <3> DEFINE s == [j \in 0 .. m + 1 |-> IF j = m + 1 THEN [f[m] EXCEPT ![k] = new] ELSE f[j]]
    <3> HIDE DEF m
    <3>4. /\ s[m + 1] = [f[m] EXCEPT ![k] = new]
          /\ \A j \in 0 .. m : s[j] = f[j]
          /\ s[0] = tbl
      <4>1. m + 1 \in 0 .. m + 1 /\ \A j \in 0 .. m : j \in 0 .. m + 1 /\ j # m + 1
        BY <3>1
      <4>2. 0 \in 0 .. m
        BY <3>1
      <4> QED
        BY <3>2, <4>1, <4>2
    <3>5. m \in 0 .. m /\ f[m] = [c \in Cards |-> f[m][c]]
      BY <3>1, <3>2
    <3> HIDE DEF s
    <3>6. s[m + 1] = Overlay(tbl, writes'[d])
      <4>1. \A c \in Cards : f[m][c] = IF c \in DOMAIN writes[d] THEN writes[d][c] ELSE tbl[c]
        BY <3>2 DEF Overlay
      <4>2. s[m + 1] = [c \in Cards |-> IF c = k THEN new ELSE f[m][c]]
        BY <3>4, <3>5
      <4>3. Overlay(tbl, writes'[d]) =
              [c \in Cards |-> IF c \in DOMAIN writes'[d] THEN writes'[d][c] ELSE tbl[c]]
        BY DEF Overlay
      <4>4. \A c \in Cards : (IF c \in DOMAIN writes'[d] THEN writes'[d][c] ELSE tbl[c])
                             = IF c = k THEN new ELSE f[m][c]
        BY <1>5, <1>6, <4>1
      <4> QED
        BY <4>2, <4>3, <4>4
    <3>7. \A j \in 0 .. m + 1 : s[j] = [c \in Cards |-> s[j][c]]
      <4>1. s[m + 1] = [c \in Cards |-> s[m + 1][c]]
        BY <3>4, <3>5
      <4>2. \A j \in 0 .. m + 1 : j \in 0 .. m \/ j = m + 1
        BY <3>1
      <4> QED
        BY <3>2, <3>4, <4>1, <4>2
    <3>8. ASSUME NEW j \in 1 .. m + 1
          PROVE  /\ r[j] \in DOMAIN writes'[d]
                 /\ s[j] = [s[j - 1] EXCEPT ![r[j]] = Statement(cmd[w].sub, @, w)]
      <4>1. CASE j \in 1 .. m
        <5>1. j \in 0 .. m /\ j - 1 \in 0 .. m
          BY <3>1, <4>1
        <5> QED
          BY <1>6, <3>2, <3>4, <4>1, <5>1
      <4>2. CASE j = m + 1
        <5>1. s[j - 1] = f[m]
          <6>1. j - 1 = m
            BY <3>1, <4>2
          <6> QED
            BY <3>4, <3>5, <6>1
        <5> QED
          BY <1>6, <3>3, <3>4, <4>2, <5>1
      <4>3. j \in 1 .. m \/ j = m + 1
        BY <3>1
      <4> QED
        BY <4>1, <4>2, <4>3
    <3>9. PICK c : c = s
      OBVIOUS
    <3>10. /\ i'[v] - 1 = m + 1 /\ cmd'[v].rows = r /\ cmd'[v].sub = cmd[w].sub
           /\ held'[v] = d /\ tbl' = tbl
      BY <1>2, <2>4, <3>1 DEF r
    <3> HIDE DEF d
    <3>11. c[0] = tbl' /\ c[i'[v] - 1] = Overlay(tbl', writes'[held'[v]])
      BY <3>4, <3>6, <3>9, <3>10
    <3>12. \A j \in 0 .. i'[v] - 1 : c[j] = [z \in Cards |-> c[j][z]]
      BY <3>7, <3>9, <3>10
    <3>13. \A j \in 1 .. i'[v] - 1 :
             /\ cmd'[v].rows[j] \in DOMAIN writes'[held'[v]]
             /\ c[j] = [c[j - 1] EXCEPT ![cmd'[v].rows[j]] = Statement(cmd'[v].sub, @, v)]
      BY <2>4, <3>8, <3>9, <3>10
    <3>14. Overlay(tbl, writes[held[v]])' = Overlay(tbl', writes'[held'[v]])
      BY DEF Overlay
    <3>15. Written(v, c)'
      BY <3>11, <3>12, <3>13, <3>14 DEF Written
    <3> QED
      BY <3>15
  <2> QED
    BY <2>3, <2>4
<1>9. Serial'
  BY <1>2, SerialKept
<1> QED
  BY <1>7, <1>8, <1>9

\* BeginTrans: nothing is written in the new transaction.
LEMMA BeginInv ==
    ASSUME IInv, NEW w \in Workers, BeginTrans(w)
    PROVE  Isolated' /\ HalfDone' /\ Serial'
<1> DEFINE d == held[w]
<1>1. /\ pc[w] = "begin" /\ d \in alive /\ open' = open \cup {d}
      /\ UNCHANGED <<tbl, pool, writes, alive, log, cmd, i>>
      /\ \A v \in Workers : v # w => pc'[v] = pc[v] /\ held'[v] = held[v]
      /\ \/ pc'[w] = "idle" /\ held'[w] = NoConn
         \/ pc'[w] = "rows" /\ held'[w] = d
  BY DEF BeginTrans, Escape, GoTo, IInv, TypeInv
<1>2. /\ d \in Conns /\ DOMAIN writes[d] = {} /\ i[w] = 1 /\ cmd[w] \in Batch
      /\ \A v \in Workers : v # w => held[v] # d
      /\ d \notin pool
  BY <1>1 DEF IInv, TypeInv, Exclusive, Isolated, Holding
<1>3. Len(cmd[w].rows) \in Nat
  <2>1. cmd[w].rows \in Seq(Cards)
    BY <1>2 DEF Batch
  <2> QED
    BY <2>1, LenProperties
<1>4. Isolated'
  <2>1. \A v \in Workers : pc'[v] \in {"begin", "free"} => held'[v] \notin open'
    BY <1>1, <1>2 DEF IInv, Isolated
  <2>2. \A v \in Workers : pc'[v] = "rows" /\ held'[v] \in alive' => held'[v] \in open'
    BY <1>1, <1>2 DEF IInv, Isolated
  <2>3. /\ \A v \in Workers : pc'[v] \in {"alloc", "begin"} => i'[v] = 1
        /\ \A v \in Workers : pc'[v] = "rows" => i'[v] \in 1 .. Len(cmd'[v].rows) + 1
    BY <1>1, <1>2, <1>3 DEF IInv, Isolated
  <2> QED
    BY <1>1, <1>2, <2>1, <2>2, <2>3 DEF IInv, Isolated
<1>5. HalfDone'
  <2> SUFFICES ASSUME NEW v \in Workers, pc'[v] = "rows", held'[v] \in open'
               PROVE  \E f : Written(v, f)'
    BY DEF HalfDone
  <2>1. CASE v # w
    <3>1. pc[v] = "rows" /\ held'[v] = held[v] /\ held[v] \in open
      BY <1>1, <1>2, <2>1
    <3>2. PICK f : Written(v, f)
      BY <3>1 DEF IInv, HalfDone
    <3>3. Written(v, f)'
      BY <1>1, <3>1, <3>2, WrittenKept
    <3> QED
      BY <3>3
  <2>2. CASE v = w
    <3>1. held'[w] = d /\ i'[w] = 1 /\ tbl' = tbl /\ writes'[d] = writes[d]
      BY <1>1, <1>2, <2>2
    <3>2. Overlay(tbl, writes[d]) = tbl
      BY <1>2 DEF Overlay, IInv, Isolated
    <3>3. PICK c : c = [j \in {0} |-> tbl]
      OBVIOUS
    <3>4. c[0] = tbl /\ tbl = [k \in Cards |-> tbl[k]]
      BY <3>3 DEF IInv, Isolated
    <3>5. i'[v] - 1 = 0 /\ 0 .. 0 = {0} /\ 1 .. 0 = {}
      BY <2>2, <3>1
    <3>6. Overlay(tbl, writes[held[v]])' = tbl
      BY <2>2, <3>1, <3>2 DEF Overlay
    <3>7. \A j \in 0 .. i'[v] - 1 : c[j] = [k \in Cards |-> c[j][k]]
      BY <3>4, <3>5
    <3>8. c[0] = tbl' /\ c[i'[v] - 1] = Overlay(tbl, writes[held[v]])'
      BY <3>1, <3>4, <3>5, <3>6
    <3>9. \A j \in 1 .. i'[v] - 1 : FALSE
      BY <3>5
    <3>10. Written(v, c)'
      BY <3>7, <3>8, <3>9 DEF Written
    <3> QED
      BY <3>10
  <2> QED
    BY <2>1, <2>2
<1>6. Serial'
  BY <1>1, SerialKept
<1> QED
  BY <1>4, <1>5, <1>6

(***************************************************************************)
(* A worker moves between labels that do not write: it takes a connection, *)
(* which is not open, gives one back, or gives it up for ever.             *)
(***************************************************************************)
LEMMA MoveInv ==
    ASSUME IInv, NEW w \in Workers, UNCHANGED <<tbl, open, writes, log>>,
           \A v \in Workers : v # w =>
               pc'[v] = pc[v] /\ i'[v] = i[v] /\ cmd'[v] = cmd[v] /\ held'[v] = held[v],
           pc'[w] # "rows",
           pc'[w] \in {"begin", "free"} => held'[w] \notin open,
           pc'[w] \in {"alloc", "begin"} => i'[w] = 1,
           \A d \in pool' : d \notin open,
           \A v \in Workers : v # w /\ held[v] \in alive' => held[v] \in alive
    PROVE  Isolated' /\ HalfDone' /\ Serial'
<1>1. Isolated'
  <2>1. /\ tbl' = [k \in Cards |-> tbl'[k]]
        /\ writes' = [d \in Conns |-> writes'[d]]
        /\ \A d \in Conns : DOMAIN writes'[d] \subseteq Cards
        /\ \A d \in Conns : d \notin open' => DOMAIN writes'[d] = {}
        /\ \A d, e \in Conns : d # e => DOMAIN writes'[d] \cap DOMAIN writes'[e] = {}
        /\ \A d \in pool' : d \notin open'
    BY DEF IInv, Isolated
  <2>2. \A v \in Workers : pc'[v] \in {"begin", "free"} => held'[v] \notin open'
    BY DEF IInv, Isolated
  <2>3. \A v \in Workers : pc'[v] = "rows" /\ held'[v] \in alive' => held'[v] \in open'
    BY DEF IInv, Isolated
  <2>4. /\ \A v \in Workers : pc'[v] \in {"alloc", "begin"} => i'[v] = 1
        /\ \A v \in Workers : pc'[v] = "rows" => i'[v] \in 1 .. Len(cmd'[v].rows) + 1
    BY DEF IInv, Isolated
  <2> QED
    BY <2>1, <2>2, <2>3, <2>4 DEF Isolated
<1>2. HalfDone'
  <2>1. ASSUME NEW v \in Workers, pc'[v] = "rows", held'[v] \in open'
        PROVE  /\ pc[v] = "rows" /\ held[v] \in open
               /\ i'[v] = i[v] /\ cmd'[v] = cmd[v] /\ held'[v] = held[v]
               /\ writes'[held[v]] = writes[held[v]]
    BY <2>1
  <2> QED
    BY <2>1, HalfDoneKept
<1>3. Serial'
  BY SerialKept
<1> QED
  BY <1>1, <1>2, <1>3

\* The transactions and the table after a step of a worker.
LEMMA StepWrites ==
    ASSUME IInv, NEW w \in Workers, doExcelLoad(w) \/ Step(w)
    PROVE  Isolated' /\ HalfDone' /\ Serial'
<1> USE ExcelAssumption DEF GoTo, Answer, Escape, db
<1>0. /\ held[w] \in Conns \cup {NoConn} /\ NoConn \notin open
      /\ pc[w] \in Holding => held[w] \in Conns
  BY DEF IInv, TypeInv
<1>1. CASE doExcelLoad(w)
  <2>1. /\ UNCHANGED <<tbl, open, writes, log, alive, pool, held>>
        /\ pc'[w] = "alloc" /\ i'[w] = 1
        /\ \A v \in Workers : v # w =>
             pc'[v] = pc[v] /\ i'[v] = i[v] /\ cmd'[v] = cmd[v]
    BY <1>1 DEF doExcelLoad, IInv, TypeInv
  <2>2. \A d \in pool' : d \notin open
    BY <2>1 DEF IInv, Isolated
  <2> QED
    BY <2>1, <2>2, MoveInv
<1>2. CASE AllocTransConner(w)
  <2>1. PICK d \in pool : /\ pool' = pool \ {d}
                          /\ held' = [held EXCEPT ![w] = d]
                          /\ alive' \in {alive, alive \cup {d}}
    BY <1>2 DEF AllocTransConner
  <2>2. /\ UNCHANGED <<tbl, open, writes, log, i, cmd>>
        /\ pc[w] = "alloc" /\ pc'[w] = "begin" /\ held'[w] = d
        /\ \A v \in Workers : v # w => pc'[v] = pc[v] /\ held'[v] = held[v]
    BY <1>2, <2>1 DEF AllocTransConner, IInv, TypeInv
  <2>3. /\ \A e \in pool : e \notin open
        /\ i'[w] = 1
        /\ \A v \in Workers : held[v] # d
    BY <2>1, <2>2 DEF IInv, Isolated, Exclusive
  <2> QED
    BY <2>1, <2>2, <2>3, MoveInv
<1>3. CASE \/ AllocFails(w) \/ BeginTransFails(w) \/ RowTypeError(w)
           \/ ExecuteFails(w) \/ RollbackTransFails(w)
  <2>1. /\ UNCHANGED <<tbl, open, writes, log, alive, pool, i, cmd>>
        /\ pc'[w] \in {"idle", "catch"}
        /\ \A v \in Workers : v # w => pc'[v] = pc[v] /\ held'[v] = held[v]
    BY <1>3 DEF AllocFails, BeginTransFails, RowTypeError, ExecuteFails, RollbackTransFails,
                IInv, TypeInv
  <2>2. \A d \in pool' : d \notin open
    BY <2>1 DEF IInv, Isolated
  <2> QED
    BY <2>1, <2>2, MoveInv
<1>4. CASE BeginTrans(w)
  BY <1>4, BeginInv
<1>5. CASE Execute(w)
  BY <1>5, ExecuteInv
<1>6. CASE CommitTrans(w)
  BY <1>6, CommitInv DEF CommitTrans
<1>7. CASE CommitTransFails(w)
  <2>1. CASE held[w] \notin alive
    <3>1. /\ UNCHANGED <<tbl, open, writes, log, alive, pool, i, cmd, held>>
          /\ pc'[w] = "catch"
          /\ \A v \in Workers : v # w => pc'[v] = pc[v]
      BY <1>7, <2>1 DEF CommitTransFails, IInv, TypeInv
    <3>2. \A d \in pool' : d \notin open
      BY <3>1 DEF IInv, Isolated
    <3> QED
      BY <3>1, <3>2, MoveInv
  <2>2. CASE held[w] \in alive
    BY <1>7, <2>2, CommitInv DEF CommitTransFails
  <2> QED
    BY <2>1, <2>2
<1>8. CASE RollbackTrans(w)
  <2>1. /\ pc[w] = "catch" /\ EndTrans(held[w])
        /\ UNCHANGED <<tbl, alive, log, pool, i, cmd, held>>
        /\ pc'[w] = "free" /\ \A v \in Workers : v # w => pc'[v] = pc[v]
    BY <1>8 DEF RollbackTrans, IInv, TypeInv
  <2>2. held[w] \in Conns /\ \A v \in Workers : held[v] = held[w] => v = w
    BY <1>0, <2>1 DEF IInv, TypeInv, Exclusive, Holding
  <2>3. Isolated' /\ HalfDone'
    BY <2>1, <2>2, EndInv
  <2> QED
    BY <2>1, <2>3, SerialKept
<1>9. CASE FreeConner(w)
  <2>1. /\ UNCHANGED <<tbl, open, writes, log, alive, i, cmd>>
        /\ pool' = pool \cup {held[w]} /\ pc[w] = "free" /\ pc'[w] = "idle"
        /\ \A v \in Workers : v # w => pc'[v] = pc[v] /\ held'[v] = held[v]
    BY <1>9 DEF FreeConner, IInv, TypeInv
  <2>2. \A d \in pool' : d \notin open
    BY <2>1 DEF IInv, Isolated
  <2> QED
    BY <2>1, <2>2, MoveInv
<1> QED
  BY <1>1, <1>2, <1>3, <1>4, <1>5, <1>6, <1>7, <1>8, <1>9 DEF Step

\* The server drops a connection: its transaction is gone, and no worker knows.
LEMMA DropInv ==
    ASSUME IInv, NEW d \in Conns, ServerDrops(d)
    PROVE  IInv'
<1>1. /\ d \in alive /\ alive' = alive \ {d} /\ EndTrans(d) /\ open' = open \ {d}
      /\ UNCHANGED <<tbl, log, pool, pc, cmd, i, held, reply, outcome>>
  BY DEF ServerDrops, EndTrans
<1>2. TypeInv' /\ Exclusive' /\ Settled'
  BY <1>1 DEF IInv, TypeInv, Exclusive, Settled
<1>3. Isolated' /\ HalfDone'
  BY <1>1, EndInv
<1>4. Serial'
  BY <1>1, SerialKept
<1> QED
  BY <1>2, <1>3, <1>4 DEF IInv

\* Every step preserves the invariant.
LEMMA NextInv == IInv /\ [Next]_vars => IInv'
<1> SUFFICES ASSUME IInv, [Next]_vars PROVE IInv'
  OBVIOUS
<1>1. ASSUME NEW w \in Workers, doExcelLoad(w) \/ Step(w) PROVE IInv'
  BY <1>1, StepHolds, StepWrites DEF IInv
<1>2. ASSUME NEW d \in Conns, ServerDrops(d) PROVE IInv'
  BY <1>2, DropInv
<1>3. CASE UNCHANGED vars
  <2>1. UNCHANGED <<tbl, open, writes, alive, log, pool, pc, cmd, i, held, reply, outcome>>
    BY <1>3 DEF vars, db
  <2>2. TypeInv' /\ Exclusive' /\ Settled' /\ Isolated'
    BY <2>1 DEF IInv, TypeInv, Exclusive, Settled, Isolated
  <2>3. HalfDone' /\ Serial'
    BY <2>1, HalfDoneKept, SerialKept
  <2> QED
    BY <2>2, <2>3 DEF IInv
<1> QED
  BY <1>1, <1>2, <1>3 DEF Next

-----------------------------------------------------------------------------
(***************************************************************************)
(* The inductive invariant: only open transactions have rows, no card is   *)
(* locked by two of them, and what an import has written so far is what    *)
(* its rows make of the committed table.                                   *)
(***************************************************************************)
THEOREM Invariance == Spec => []IInv
BY InitInv, NextInv, PTL DEF Spec

(***************************************************************************)
(* Imports are all or nothing: sim_tbl is what the committed imports, run  *)
(* whole and one after the other in the order of their commits, make of    *)
(* the table at the start.                                                 *)
(***************************************************************************)
THEOREM ImportsSerializable == Spec => []AllOrNothing
<1>1. ASSUME IInv PROVE AllOrNothing
  <2>1. PICK h : /\ h[0] = OldTbl
                 /\ \A j \in 1 .. Len(log) : h[j] = Imported(h[j - 1], log[j])
                 /\ h[Len(log)] = tbl
    BY <1>1 DEF IInv, Serial
  <2>2. Len(log) \in Nat /\ DOMAIN log = 1 .. Len(log)
    BY <1>1, LenProperties DEF IInv, Serial
  <2>3. PICK n, q, t : n \in Nat /\ n = Len(log) /\ q = log /\ t = OldTbl
    BY <2>2
  <2>4. /\ n \in Nat /\ DOMAIN q = 1 .. n /\ h[0] = t
        /\ \A j \in 1 .. n : h[j] = Imported(h[j - 1], q[j])
    BY <2>1, <2>2, <2>3
  <2>5. Replay(t, q) = h[n]
    BY <2>4, LogFold
  <2>6. AllOrNothing <=> tbl = Replay(OldTbl, log)
    BY DEF AllOrNothing, Replay, FoldLeft, MapThenFoldSet
  <2> QED
    BY <2>1, <2>3, <2>5, <2>6
<1> QED
  BY <1>1, Invariance, PTL

(***************************************************************************)
(* A client that is told 0 has its import in the table, and one that is    *)
(* told anything else has not, unless the connection broke in CommitTrans. *)
(***************************************************************************)
THEOREM AnswersTrue == Spec => []RepliesTrue
<1>1. IInv => RepliesTrue
  BY DEF IInv, Settled, RepliesTrue
<1> QED
  BY <1>1, Invariance, PTL

-----------------------------------------------------------------------------
(***************************************************************************)
(* The pool.  A connection is where Place puts it.                         *)
(***************************************************************************)
PlaceSound ==
    /\ Place = [d \in Conns |-> Place[d]]
    /\ \A d \in Conns : \A w \in Workers : held[w] = d => Place[d] = w
    /\ \A d \in Conns : (\A w \in Workers : held[w] # d) =>
           Place[d] = IF d \in pool THEN "shelf" ELSE "lost"

\* The holder is the only one, so that Place names it.
LEMMA PlaceIsSound == IInv => PlaceSound
<1> SUFFICES ASSUME IInv PROVE PlaceSound
  OBVIOUS
<1>1. Place = [d \in Conns |-> Place[d]]
  BY DEF Place
<1>2. ASSUME NEW d \in Conns, NEW w \in Workers, held[w] = d PROVE Place[d] = w
  <2>1. Place[d] = CHOOSE v \in Workers : held[v] = d
    BY <1>2 DEF Place
  <2>2. \A v \in Workers : held[v] = d => v = w
    BY <1>2, ExcelAssumption DEF IInv, Exclusive
  <2>3. (CHOOSE v \in Workers : held[v] = d) \in Workers
        /\ held[CHOOSE v \in Workers : held[v] = d] = d
    BY <1>2, Zenon
  <2> QED
    BY <2>1, <2>2, <2>3
<1>3. ASSUME NEW d \in Conns, \A w \in Workers : held[w] # d
      PROVE  Place[d] = IF d \in pool THEN "shelf" ELSE "lost"
  BY <1>3 DEF Place
<1> QED
  BY <1>1, <1>2, <1>3 DEF PlaceSound

\* The same for the state after a step.
LEMMA PlaceIsSoundNext == IInv' => PlaceSound'
BY PlaceIsSound, PTL

\* The other connections stay where they are.
LEMMA OtherPlaces ==
    ASSUME PlaceSound, PlaceSound', NEW c \in Conns, NEW p, Place'[c] = p,
           \A d \in Conns : d # c =>
               /\ d \in pool' <=> d \in pool
               /\ \A w \in Workers : held'[w] = d <=> held[w] = d
    PROVE  Place' = [Place EXCEPT ![c] = p]
<1>1. ASSUME NEW d \in Conns, d # c PROVE Place'[d] = Place[d]
  <2>1. CASE \E w \in Workers : held[w] = d
    BY <1>1, <2>1 DEF PlaceSound
  <2>2. CASE \A w \in Workers : held[w] # d
    BY <1>1, <2>2 DEF PlaceSound
  <2> QED
    BY <2>1, <2>2
<1> QED
  BY <1>1 DEF PlaceSound

\* BoundedPool counts with the same operator.
LEMMA SameCardinality == \A S : UsedPool!Cardinality(S) = Cardinality(S)
BY DEF UsedPool!Cardinality, Cardinality

\* At the start every connection is on the shelf.
LEMMA PoolStarts == Init => UsedPool!PoolInit
<1> SUFFICES ASSUME Init PROVE UsedPool!PoolInit
  OBVIOUS
<1>1. PlaceSound
  BY InitInv, PlaceIsSound
<1>2. \A d \in Conns : d \in pool /\ \A w \in Workers : held[w] # d
  BY ExcelAssumption DEF Init
<1>3. \A d \in Conns : Place[d] = "shelf"
  BY <1>1, <1>2 DEF PlaceSound
<1>4. Place \in [Conns -> {"none", "shelf"}]
  BY <1>1, <1>3 DEF PlaceSound
<1>5. {d \in Conns : Place[d] # "none"} = Conns
  BY <1>3
<1>6. Cardinality(Conns) \in Nat
  BY ExcelAssumption, FS_CardinalityType
<1>7. Cardinality(Conns) <= Cardinality(Conns)
  BY <1>6
<1>8. UsedPool!Existing = Conns
  BY <1>5 DEF UsedPool!Existing
<1> QED
  BY <1>4, <1>7, <1>8, SameCardinality DEF UsedPool!PoolInit

\* A worker that gives its connection up for ever.
LEMMA PoolForgets ==
    ASSUME IInv, IInv', NEW w \in Workers, pc[w] \in Holding,
           held' = [held EXCEPT ![w] = NoConn], pool' = pool
    PROVE  UsedPool!PoolNext
<1> DEFINE c == held[w]
<1>1. PlaceSound /\ PlaceSound'
  BY PlaceIsSound, PlaceIsSoundNext
<1>2. /\ c \in Conns /\ c \notin pool /\ NoConn \notin Conns
      /\ \A v \in Workers : v # w => held[v] # c
  BY ExcelAssumption DEF IInv, TypeInv, Exclusive
<1>3. held'[w] = NoConn /\ \A v \in Workers : v # w => held'[v] = held[v]
  BY DEF IInv, TypeInv
<1>4. Place[c] = w
  BY <1>1, <1>2 DEF PlaceSound
<1>5. Place'[c] = "lost"
  <2>1. \A v \in Workers : held'[v] # c
    BY <1>2, <1>3
  <2> QED
    BY <1>1, <1>2, <2>1 DEF PlaceSound
<1>6. \A d \in Conns : d # c => \A v \in Workers : held'[v] = d <=> held[v] = d
  BY <1>2, <1>3
<1>7. Place' = [Place EXCEPT ![c] = "lost"]
  <2>1. PICK e \in Conns : e = c
    BY <1>2
  <2> HIDE DEF c
  <2> QED
    BY <1>1, <1>5, <1>6, <2>1, OtherPlaces
<1>8. UsedPool!Forget(w, c)
  BY <1>4, <1>7 DEF UsedPool!Forget
<1> QED
  BY <1>2, <1>8 DEF UsedPool!PoolNext

\* A step that concerns no connection.
LEMMA PoolStutters ==
    ASSUME UNCHANGED <<pool, held>>
    PROVE  UNCHANGED Place
BY DEF Place

\* Every step takes, gives back or loses one connection, or none.
LEMMA PoolSteps ==
    ASSUME IInv, IInv', [Next]_vars
    PROVE  UsedPool!PoolNext \/ UNCHANGED Place
<1> USE DEF GoTo, Answer, db
<1>1. ASSUME NEW w \in Workers, AllocTransConner(w) PROVE UsedPool!PoolNext
  <2>0. PlaceSound /\ PlaceSound'
    BY PlaceIsSound, PlaceIsSoundNext
  <2>1. PICK d \in pool : pool' = pool \ {d} /\ held' = [held EXCEPT ![w] = d]
    BY <1>1 DEF AllocTransConner
  <2>2. /\ d \in Conns /\ held[w] = NoConn /\ NoConn \notin Conns
        /\ \A v \in Workers : held[v] # d
        /\ held'[w] = d /\ \A v \in Workers : v # w => held'[v] = held[v]
    BY <1>1, <2>1, ExcelAssumption DEF AllocTransConner, IInv, TypeInv, Exclusive, Holding
  <2>3. Place[d] = "shelf" /\ Place'[d] = w
    BY <2>0, <2>1, <2>2 DEF PlaceSound
  <2>4. \A e \in Conns : e # d => /\ e \in pool' <=> e \in pool
                                  /\ \A v \in Workers : held'[v] = e <=> held[v] = e
    BY <2>1, <2>2
  <2>5. Place' = [Place EXCEPT ![d] = w]
    BY <2>0, <2>2, <2>3, <2>4, OtherPlaces
  <2>6. UsedPool!Take(w, d)
    BY <2>3, <2>5 DEF UsedPool!Take
  <2> QED
    BY <2>2, <2>6 DEF UsedPool!PoolNext
<1>2. ASSUME NEW w \in Workers, FreeConner(w) PROVE UsedPool!PoolNext
  <2>0. PlaceSound /\ PlaceSound'
    BY PlaceIsSound, PlaceIsSoundNext
  <2>1. PICK d \in Conns : d = held[w]
    BY <1>2 DEF FreeConner, IInv, TypeInv, Holding
  <2>2. /\ NoConn \notin Conns /\ pool' = pool \cup {d}
        /\ \A v \in Workers : v # w => held[v] # d
        /\ held'[w] = NoConn /\ \A v \in Workers : v # w => held'[v] = held[v]
    BY <1>2, <2>1, ExcelAssumption DEF FreeConner, IInv, TypeInv, Exclusive, Holding
  <2>3. Place[d] = w
    BY <2>0, <2>1 DEF PlaceSound
  <2>4. \A v \in Workers : held'[v] # d
    BY <2>2
  <2>5. Place'[d] = "shelf"
    BY <2>0, <2>2, <2>4 DEF PlaceSound
  <2>6. \A e \in Conns : e # d => /\ e \in pool' <=> e \in pool
                                  /\ \A v \in Workers : held'[v] = e <=> held[v] = e
    BY <2>1, <2>2
  <2>7. Place' = [Place EXCEPT ![d] = "shelf"]
    BY <2>0, <2>5, <2>6, OtherPlaces
  <2>8. UsedPool!GiveBack(w, d)
    BY <2>3, <2>7 DEF UsedPool!GiveBack
  <2> QED
    BY <2>8 DEF UsedPool!PoolNext
<1>3. ASSUME NEW w \in Workers,
             BeginTransFails(w) \/ RowTypeError(w) \/ RollbackTransFails(w)
      PROVE  UsedPool!PoolNext
  <2>1. pc[w] \in Holding /\ held' = [held EXCEPT ![w] = NoConn] /\ pool' = pool
    BY <1>3 DEF BeginTransFails, RowTypeError, RollbackTransFails, Escape, Holding
  <2> QED
    BY <2>1, PoolForgets
<1>4. ASSUME NEW w \in Workers, BeginTrans(w) PROVE UsedPool!PoolNext \/ UNCHANGED Place
  <2>1. /\ pc[w] \in Holding /\ pool' = pool
        /\ held' = [held EXCEPT ![w] = NoConn] \/ held' = held
    BY <1>4 DEF BeginTrans, Escape, Holding
  <2> QED
    BY <2>1, PoolForgets, PoolStutters
<1>5. ASSUME NEW w \in Workers,
             \/ doExcelLoad(w) \/ AllocFails(w) \/ Execute(w) \/ ExecuteFails(w)
             \/ CommitTrans(w) \/ CommitTransFails(w) \/ RollbackTrans(w)
      PROVE  UNCHANGED Place
  <2>1. UNCHANGED <<pool, held>>
    BY <1>5 DEF doExcelLoad, AllocFails, Execute, ExecuteFails, CommitTrans,
                CommitTransFails, RollbackTrans
  <2> QED
    BY <2>1, PoolStutters
<1>6. ASSUME NEW d \in Conns, ServerDrops(d) PROVE UNCHANGED Place
  BY <1>6, PoolStutters DEF ServerDrops
<1>7. CASE UNCHANGED vars
  BY <1>7, PoolStutters DEF vars
<1> QED
  BY <1>1, <1>2, <1>3, <1>4, <1>5, <1>6, <1>7 DEF Next, Step

(***************************************************************************)
(* Imports use the pool as BoundedPool allows: each takes its connection   *)
(* from the shelf and puts it back or loses it, and never hands one on.    *)
(***************************************************************************)
THEOREM PoolRefined == Spec => UsesBoundedPool
<1>1. Init => UsedPool!PoolInit
  BY PoolStarts
<1>2. IInv /\ IInv' /\ [Next]_vars => [UsedPool!PoolNext]_Place
  BY PoolSteps
<1> QED
  BY <1>1, <1>2, Invariance, PTL DEF Spec, UsesBoundedPool, UsedPool!PoolSpec
=============================================================================
