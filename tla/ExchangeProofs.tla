--------------------------- MODULE ExchangeProofs ---------------------------
(***************************************************************************)
(* Proofs about Exchange: requests cut out of the stream and replies put   *)
(* into it, for buffers, requests, replies and API calls of any length and *)
(* however the transfers are cut up.                                       *)
(***************************************************************************)
EXTENDS Exchange, SequenceTheorems, TLAPS

Receiving == {"accept", "zero", "recv"}
Calling == {"api_connect", "api_send", "api_zero", "api_recv"}
Serving == {"process", "respond"} \cup Calling

\* A byte of a request that the client has sent.
RequestByte == [of : {"request"}, id : 1 .. Len(reqs), pos : Nat]
ReplyRec == [from : Nat, len : ReplyLens]

(***************************************************************************)
(* What holds of the other variables while the server is in phase ph, in   *)
(* parts.  It is stated for a phase so that a step whose next post fails   *)
(* needs no argument of its own: what holds in any phase holds at the end. *)
(***************************************************************************)
Types ==
    /\ buf \in Seq(Bytes)
    /\ sent \in Nat /\ (sent <= BufLen \/ sent < Len(buf))
    /\ c2s \in Seq(Bytes)
    /\ reqs \in Seq([len : FrameLens, cmd : Kinds])
    /\ gone \in BOOLEAN
    /\ got \in Seq(Bytes)
    /\ handled \in Seq(1 .. MaxRequests)
    /\ replies \in Seq(ReplyRec)
    /\ apiGot \in 0 .. ApiAnsLen
    /\ eager \in BOOLEAN /\ broke \in BOOLEAN
    /\ sweep \in {"none", "looked", "closed"}

Fits(ph) ==
    \/ Len(buf) <= BufLen
    \/ ph \in {"send", "closed"} /\ replies # <<>> /\ Last(replies).len = Len(buf)

(***************************************************************************)
(* The counters serve four transfers in turn.  dwSendedCount is 0 between  *)
(* them, but a half sent API request leaves it at what was sent.           *)
(***************************************************************************)
Counters(ph) ==
    /\ Len(reqs) <= MaxRequests
    /\ c2s \in Seq(RequestByte)
    /\ ph \in Receiving => buf \in Seq(RequestByte)
    /\ ph = "accept" => buf = <<>>
    /\ ph \in (Receiving \cup Serving) \ {"api_send"} => sent = 0
    /\ ph = "api_send" => sent < Len(buf)
    /\ ph \in Serving \cup {"send"} => handled # <<>>
    /\ ph = "send" =>
         /\ replies # <<>> /\ Len(buf) = replies[Len(replies)].len
         /\ Len(buf) <= BufLen => \A p \in 1 .. Len(buf) :
              buf[p] = [of |-> "reply", id |-> handled[Len(handled)], pos |-> p]
         /\ ~broke => sent < Len(buf)

(***************************************************************************)
(* The replies follow each other in the stream.  The client has no more of *)
(* it than was packed, and exactly that much while no API request was cut  *)
(* off half sent.                                                          *)
(***************************************************************************)
Told(ph) ==
    /\ Len(replies) <= Len(handled)
    /\ ph \in Receiving \cup {"send"} => Len(replies) = Len(handled)
    /\ ph \in Serving => Len(replies) = Len(handled) - 1
    /\ \A j \in 1 .. Len(replies) : j < Len(replies) =>
          replies[j].from + replies[j].len <= replies[Len(replies)].from
    /\ Len(got) <= EndOf(replies)
    /\ ph \in Receiving \cup Serving /\ ~broke => Len(got) = EndOf(replies)
    /\ ph = "send" =>
         /\ Len(got) <= replies[Len(replies)].from + (IF sent < Len(buf) THEN sent ELSE 0)
         /\ ~broke => Len(got) = replies[Len(replies)].from + sent
    /\ ~broke => \A j \in 1 .. Len(replies) :
          replies[j].len <= BufLen => \A p \in 1 .. replies[j].len : Arrived(j, p)

\* The last request is under way: part of it in the buffer, the rest behind.
Partly ==
    LET R == Len(reqs) IN
    /\ Len(buf) < reqs[R].len + Overhead
    /\ Len(buf) + Len(c2s) = reqs[R].len + Overhead
    /\ \A i \in 1 .. Len(buf) : buf[i] = [of |-> "request", id |-> R, pos |-> i]
    /\ \A i \in 1 .. Len(c2s) : c2s[i] = [of |-> "request", id |-> R, pos |-> Len(buf) + i]

(***************************************************************************)
(* A client that waits for its replies has one request under way at most.  *)
(* An empty one is dropped and never answered.                             *)
(***************************************************************************)
OneAtATime(ph) ==
    LET R == Len(reqs)
        H == Len(handled)
    IN /\ H <= R
       /\ ph \in Serving \cup {"send"} => H = R /\ c2s = <<>>
       /\ ph \in Receiving =>
            \/ H = R /\ buf = <<>> /\ c2s = <<>>
            \/ H = R - 1 /\ reqs[R].len = 0 /\ buf = <<>> /\ c2s = <<>>
            \/ H = R - 1 /\ Partly

Core(ph) ==
    /\ Types
    /\ Fits(ph)
    /\ Counters(ph)
    /\ Told(ph)
    /\ ~eager => OneAtATime(ph)
    /\ HandledInOrder

IInv ==
    /\ phase \in Phases /\ why \in Reasons
    /\ \A ph \in Phases : phase = ph => Core(ph)
    /\ HangsUpForCause
-----------------------------------------------------------------------------
(* Sequences and numbers *)

\* k bytes move from the front of the sequence r to the back of q.
LEMMA Spliced ==
    ASSUME NEW S, NEW q \in Seq(S), NEW r \in Seq(S), NEW k \in 0 .. Len(r)
    PROVE  /\ q \o SubSeq(r, 1, k) \in Seq(S)
           /\ Len(q \o SubSeq(r, 1, k)) = Len(q) + k
           /\ \A i \in 1 .. Len(q) : (q \o SubSeq(r, 1, k))[i] = q[i]
           /\ \A i \in 1 .. k : (q \o SubSeq(r, 1, k))[Len(q) + i] = r[i]
           /\ SubSeq(r, k + 1, Len(r)) \in Seq(S)
           /\ Len(SubSeq(r, k + 1, Len(r))) = Len(r) - k
           /\ \A i \in 1 .. Len(r) - k : SubSeq(r, k + 1, Len(r))[i] = r[k + i]
<1>1. Len(q) \in Nat /\ Len(r) \in Nat /\ \A i \in 1 .. Len(r) : r[i] \in S
  BY LenProperties, ElementOfSeq
<1>2. /\ SubSeq(r, 1, k) \in Seq(S) /\ Len(SubSeq(r, 1, k)) = k
      /\ \A i \in 1 .. k : SubSeq(r, 1, k)[i] = r[i]
  BY <1>1, SubSeqProperties
<1>3. PICK h \in Seq(S) : h = SubSeq(r, 1, k)
  BY <1>2
<1>4. /\ q \o h \in Seq(S) /\ Len(q \o h) = Len(q) + Len(h)
      /\ \A i \in 1 .. Len(q) + Len(h) : (q \o h)[i] = IF i <= Len(q) THEN q[i] ELSE h[i - Len(q)]
  BY ConcatProperties
<1>5. /\ \A i \in 1 .. Len(q) : (q \o h)[i] = q[i]
      /\ \A i \in 1 .. k : (q \o h)[Len(q) + i] = r[i]
  BY <1>1, <1>2, <1>3, <1>4
<1>6. /\ SubSeq(r, k + 1, Len(r)) \in Seq(S)
      /\ Len(SubSeq(r, k + 1, Len(r))) = Len(r) - k
      /\ \A i \in 1 .. Len(r) - k : SubSeq(r, k + 1, Len(r))[i] = r[k + i]
  BY <1>1, SubSeqProperties
<1> QED
  BY <1>2, <1>3, <1>4, <1>5, <1>6

\* The first n elements of a sequence.
LEMMA Beginning ==
    ASSUME NEW S, NEW q \in Seq(S), NEW n \in 0 .. Len(q)
    PROVE  /\ SubSeq(q, 1, n) \in Seq(S) /\ Len(SubSeq(q, 1, n)) = n
           /\ \A i \in 1 .. n : SubSeq(q, 1, n)[i] = q[i]
<1>1. Len(q) \in Nat /\ \A i \in 1 .. Len(q) : q[i] \in S
  BY LenProperties, ElementOfSeq
<1> QED
  BY <1>1, SubSeqProperties

\* A sequence stays one when more elements are allowed.
LEMMA Wider ==
    ASSUME NEW S, NEW T, S \subseteq T, NEW q \in Seq(S)
    PROVE  q \in Seq(T)
OBVIOUS

\* Messages are sequences of bytes.
LEMMA Messages ==
    /\ \A id \in Nat, n \in Nat :
          /\ ReplyBytes(id, n) \in Seq(Bytes) /\ Len(ReplyBytes(id, n)) = n
          /\ DOMAIN ReplyBytes(id, n) = 1 .. n
          /\ \A p \in 1 .. n : ReplyBytes(id, n)[p] = [of |-> "reply", id |-> id, pos |-> p]
    /\ ApiBytes(ApiReqLen) \in Seq(Bytes) /\ Len(ApiBytes(ApiReqLen)) = ApiReqLen
<1>1. ApiReqLen \in Nat
  BY ExchangeAssumption
<1>2. ASSUME NEW id \in Nat, NEW n \in Nat
      PROVE  /\ ReplyBytes(id, n) \in Seq(Bytes) /\ Len(ReplyBytes(id, n)) = n
             /\ DOMAIN ReplyBytes(id, n) = 1 .. n
             /\ \A p \in 1 .. n : ReplyBytes(id, n)[p] =
                            [of |-> "reply", id |-> id, pos |-> p]
  BY DEF ReplyBytes, Bytes
<1>3. ApiBytes(ApiReqLen) \in Seq(Bytes) /\ Len(ApiBytes(ApiReqLen)) = ApiReqLen
  BY <1>1 DEF ApiBytes, Bytes
<1> QED
  BY <1>2, <1>3

\* What is sent of a reply has its length, and all of it when it fits.
LEMMA Copies ==
    ASSUME NEW id \in Nat, NEW n \in Nat, NEW q \in Copied(ReplyBytes(id, n))
    PROVE  /\ q \in Seq(Bytes) /\ Len(q) = n
           /\ n <= BufLen => \A p \in 1 .. n : q[p] = [of |-> "reply", id |-> id, pos |-> p]
<1>1. PICK r \in Seq(Bytes) : /\ r = ReplyBytes(id, n) /\ Len(r) = n /\ DOMAIN r = 1 .. n
                              /\ \A p \in 1 .. n : r[p] = [of |-> "reply", id |-> id, pos |-> p]
  BY Messages
<1>2. BufLen \in Nat /\ Junk \in Bytes
  BY ExchangeAssumption DEF Junk, Bytes
<1>3. CASE q = r
  BY <1>1, <1>3
<1>4. CASE q = [i \in 1 .. n |-> IF i <= BufLen THEN r[i] ELSE Junk]
  <2>1. \A i \in 1 .. n : r[i] \in Bytes
    BY <1>1, ElementOfSeq
  <2>2. q \in [1 .. n -> Bytes]
    BY <1>2, <1>4, <2>1
  <2>3. \A p \in 1 .. n : p <= BufLen => q[p] = r[p]
    BY <1>4
  <2>4. n <= BufLen => \A p \in 1 .. n : p <= BufLen
    BY <1>2
  <2>5. q \in Seq(Bytes) /\ Len(q) = n
    BY <2>2
  <2> QED
    BY <1>1, <2>3, <2>4, <2>5
<1> QED
  BY <1>1, <1>3, <1>4 DEF Copied

\* The bytes of a new request.
LEMMA NewRequest ==
    ASSUME NEW id \in Nat, NEW n \in Nat
    PROVE  /\ RequestBytes(id, n) \in Seq([of : {"request"}, id : {id}, pos : Nat])
           /\ Len(RequestBytes(id, n)) = n + Overhead
           /\ \A i \in 1 .. n + Overhead : RequestBytes(id, n)[i] =
                 [of |-> "request", id |-> id, pos |-> i]
BY DEF RequestBytes, Overhead

\* Where the replies end, and where they end with one more.
LEMMA Ends ==
    ASSUME NEW s \in Seq(ReplyRec)
    PROVE  /\ Len(s) \in Nat /\ DOMAIN s = 1 .. Len(s) /\ EndOf(s) \in Nat
           /\ \A j \in 1 .. Len(s) : s[j].from \in Nat /\ s[j].len \in Nat \ {0}
           /\ s # <<>> <=> Len(s) # 0
           /\ s # <<>> => Last(s) = s[Len(s)] /\ EndOf(s) = s[Len(s)].from + s[Len(s)].len
           /\ \A n \in ReplyLens :
                LET t == Append(s, [from |-> EndOf(s), len |-> n]) IN
                /\ t \in Seq(ReplyRec) /\ Len(t) = Len(s) + 1 /\ t # <<>>
                /\ Last(t).len = n /\ EndOf(t) = EndOf(s) + n
                /\ t[Len(t)].from = EndOf(s) /\ t[Len(t)].len = n
                /\ \A j \in 1 .. Len(s) : t[j] = s[j]
<1>0. ReplyLens \subseteq Nat \ {0}
  BY ExchangeAssumption
<1>1. Len(s) \in Nat /\ DOMAIN s = 1 .. Len(s) /\ (s # <<>> <=> Len(s) # 0)
  BY LenProperties, EmptySeq
<1>2. ASSUME NEW j \in 1 .. Len(s) PROVE s[j].from \in Nat /\ s[j].len \in Nat \ {0}
  <2>1. s[j] \in ReplyRec
    BY ElementOfSeq
  <2> QED
    BY <1>0, <2>1 DEF ReplyRec
<1>3. ASSUME s # <<>>
      PROVE  Last(s) = s[Len(s)] /\ EndOf(s) = s[Len(s)].from + s[Len(s)].len
  BY <1>3 DEF Last, EndOf
<1>4. EndOf(s) \in Nat
  <2>1. CASE s = <<>>
    BY <2>1 DEF EndOf
  <2>2. CASE s # <<>>
    <3>1. Len(s) \in 1 .. Len(s)
      BY <1>1, <2>2
    <3> QED
      BY <1>2, <1>3, <2>2, <3>1
  <2> QED
    BY <2>1, <2>2
<1>5. ASSUME NEW n \in ReplyLens
      PROVE  LET t == Append(s, [from |-> EndOf(s), len |-> n]) IN
                /\ t \in Seq(ReplyRec) /\ Len(t) = Len(s) + 1 /\ t # <<>>
                /\ Last(t).len = n /\ EndOf(t) = EndOf(s) + n
                /\ t[Len(t)].from = EndOf(s) /\ t[Len(t)].len = n
                /\ \A j \in 1 .. Len(s) : t[j] = s[j]
  <2>1. PICK x \in ReplyRec : x = [from |-> EndOf(s), len |-> n]
    BY <1>4 DEF ReplyRec
  <2>0. /\ Append(s, x) \in Seq(ReplyRec) /\ Len(Append(s, x)) = Len(s) + 1
        /\ Append(s, x)[Len(s) + 1] = x
        /\ \A j \in 1 .. Len(s) : Append(s, x)[j] = s[j]
    BY <2>1, AppendProperties
  <2>2. PICK t \in Seq(ReplyRec) :
          /\ t = Append(s, x) /\ Len(t) = Len(s) + 1 /\ t[Len(s) + 1] = x
          /\ \A j \in 1 .. Len(s) : t[j] = s[j]
    BY <2>0
  <2>3. t # <<>> /\ t[Len(t)] = x
    BY <1>1, <2>2, EmptySeq
  <2>4. Last(t) = x
    BY <2>3 DEF Last
  <2>5. x.from = EndOf(s) /\ x.len = n
    BY <2>1
  <2>6. EndOf(t) = x.from + x.len
    BY <2>3, <2>4 DEF EndOf
  <2> QED
    BY <2>1, <2>2, <2>3, <2>4, <2>5, <2>6
<1> QED
  BY <1>1, <1>2, <1>3, <1>4, <1>5

\* Types of the numbers that the proofs below calculate with.
LEMMA Numbers ==
    ASSUME IInv
    PROVE  /\ Types
           /\ Len(buf) \in Nat /\ Len(c2s) \in Nat /\ Len(reqs) \in Nat
           /\ Len(got) \in Nat /\ Len(handled) \in Nat /\ Len(replies) \in Nat
           /\ BufLen \in Nat \ {0} /\ EndOf(replies) \in Nat /\ MaxRequests \in Nat
<1>1. Types
  BY DEF IInv, Core
<1>2. /\ Len(buf) \in Nat /\ Len(c2s) \in Nat /\ Len(reqs) \in Nat
      /\ Len(got) \in Nat /\ Len(handled) \in Nat
  BY <1>1, LenProperties DEF Types
<1> QED
  BY <1>1, <1>2, Ends, ExchangeAssumption DEF Types

-----------------------------------------------------------------------------
(* Phases and causes *)

\* The cause a hang-up must have.
Cause(r) ==
    /\ r = "bad frame" => eager \/ \E i \in DOMAIN reqs : ~Good(reqs[i])
    /\ r = "full" => eager \/ \E i \in DOMAIN reqs : reqs[i].len + Overhead > BufLen
    /\ r = "peer" => gone
    /\ r = "miscount" => broke
    /\ r = "swept" => sweep = "closed"
    /\ r = "crash" => Overrun

\* What holds in some phase after a step holds if that is the end.
LEMMA Ended ==
    ASSUME NEW ph \in Phases, Core(ph)'
    PROVE  Core("closed")'
<1>1. Fits("closed")' /\ Counters("closed")'
  BY DEF Core, Fits, Counters, Receiving, Serving, Calling
<1>2. Told("closed")'
  BY DEF Core, Told, Receiving, Serving, Calling
<1>3. ~eager' => OneAtATime("closed")'
  BY DEF Core, OneAtATime, Receiving, Serving, Calling
<1> QED
  BY <1>1, <1>2, <1>3 DEF Core

\* The invariant gives what holds in the phase the server is in.
LEMMA Here ==
    ASSUME IInv, NEW ph \in Phases, phase = ph
    PROVE  Core(ph)
BY DEF IInv

\* The server goes on in another phase.
LEMMA StepInv ==
    ASSUME IInv, phase # "closed", NEW ph \in Phases \ {"closed"}, phase' = ph, why' = why,
           Core(ph)'
    PROVE  IInv'
<1>1. why = "open"
  BY DEF IInv, HangsUpForCause
<1>2. HangsUpForCause'
  BY <1>1 DEF HangsUpForCause
<1>3. why' \in Reasons /\ phase' \in Phases
  BY DEF IInv
<1>4. \A q \in Phases : phase' = q => Core(q)'
  OBVIOUS
<1> QED
  BY <1>2, <1>3, <1>4 DEF IInv

\* The server hangs up, for a cause.
LEMMA CloseInv ==
    ASSUME NEW ph \in Phases, Core(ph)', NEW r \in Reasons \ {"open"}, phase' = "closed",
           why' = r, Cause(r)'
    PROVE  IInv'
<1>1. Core("closed")'
  BY Ended
<1>2. HangsUpForCause'
  BY DEF HangsUpForCause, Cause
<1>3. why' \in Reasons /\ phase' \in Phases
  BY DEF Phases
<1>4. \A q \in Phases : phase' = q => Core(q)'
  BY <1>1
<1> QED
  BY <1>2, <1>3, <1>4 DEF IInv

\* A call on the socket fails.
LEMMA FailInv ==
    ASSUME NEW ph \in Phases, Core(ph)', CallFails, sweep' = sweep
    PROVE  IInv'
<1>1. phase' = "closed" /\ why' = IF sweep = "closed" THEN "swept" ELSE "local"
  BY DEF CallFails, Close
<1>2. CASE sweep = "closed"
  <2>1. Cause("swept")' /\ "swept" \in Reasons \ {"open"}
    BY <1>2 DEF Cause, Reasons
  <2> QED
    BY <1>1, <1>2, <2>1, CloseInv
<1>3. CASE sweep # "closed"
  <2>1. Cause("local")' /\ "local" \in Reasons \ {"open"}
    BY DEF Cause, Reasons
  <2> QED
    BY <1>1, <1>3, <2>1, CloseInv
<1> QED
  BY <1>2, <1>3

\* The next request is posted, or that fails.
LEMMA PostInv ==
    ASSUME IInv, phase # "closed", NEW ph \in Phases \ {"closed"}, Core(ph)', Posted(ph),
           sweep' = sweep
    PROVE  IInv'
<1>1. CASE phase' = ph /\ why' = why
  BY <1>1, StepInv
<1>2. CASE CallFails
  BY <1>2, FailInv
<1> QED
  BY <1>1, <1>2 DEF Posted

\* The phase may change while nothing else does; gone and sweep only have types.
LEMMA Same ==
    ASSUME NEW ph, Core(ph), gone' \in BOOLEAN, sweep' \in {"none", "looked", "closed"},
           UNCHANGED <<buf, sent, c2s, reqs, got, handled, replies, apiGot, eager, broke>>
    PROVE  Core(ph)'
<1>1. Types' /\ Fits(ph)'
  BY DEF Core, Types, Fits
<1>2. Counters(ph)'
  BY DEF Core, Counters, RequestByte
<1>3. Told(ph)'
  BY DEF Core, Told, Arrived
<1>4. ~eager' => OneAtATime(ph)'
  BY DEF Core, OneAtATime, Partly
<1>5. HandledInOrder'
  BY DEF Core, HandledInOrder
<1> QED
  BY <1>1, <1>2, <1>3, <1>4, <1>5 DEF Core

\* A new connection.
LEMMA InitInv == Init => IInv
<1> SUFFICES ASSUME Init PROVE IInv
  OBVIOUS
<1> USE DEF Init
<1>0. \A S : <<>> \in Seq(S) /\ Len(<<>>) = 0
  BY EmptySeq
<1>1. {BufLen, MaxRequests, ApiAnsLen} \subseteq Nat /\ EndOf(replies) = 0
  BY ExchangeAssumption DEF EndOf
<1>2. Types /\ Fits("accept")
  <2>1. 0 \in 0 .. ApiAnsLen /\ 0 <= BufLen
    BY <1>1
  <2> QED
    BY <1>0, <2>1 DEF Types, Fits
<1>3. Counters("accept")
  BY <1>0, <1>1 DEF Counters, Receiving, Serving, Calling
<1>4. Told("accept")
  BY <1>0, <1>1 DEF Told, Receiving, Serving, Calling
<1>5. OneAtATime("accept")
  BY <1>0 DEF OneAtATime, Receiving, Serving, Calling
<1>6. HandledInOrder /\ HangsUpForCause
  BY DEF HandledInOrder, HangsUpForCause
<1>7. Core("accept")
  BY <1>2, <1>3, <1>4, <1>5, <1>6 DEF Core
<1> QED
  BY <1>6, <1>7 DEF IInv, Phases, Reasons

-----------------------------------------------------------------------------
(* The actions *)

\* The client closes its end, or the sweep comes by.
LEMMA ClosesInv == IInv /\ (ClientCloses \/ SweepLooks \/ SweepCloses) => IInv'
<1> SUFFICES ASSUME IInv, ClientCloses \/ SweepLooks \/ SweepCloses PROVE IInv'
  OBVIOUS
<1>1. /\ phase # "closed" /\ phase' = phase /\ why' = why
      /\ gone' \in BOOLEAN /\ sweep' \in {"none", "looked", "closed"}
      /\ UNCHANGED <<buf, sent, c2s, reqs, got, handled, replies, apiGot, eager, broke>>
  BY Numbers DEF ClientCloses, SweepLooks, SweepCloses, Types
<1>2. PICK ph \in Phases \ {"closed"} : ph = phase
  BY <1>1 DEF IInv
<1>3. Core(ph)'
  BY <1>1, <1>2, Here, Same
<1> QED
  BY <1>1, <1>2, <1>3, StepInv

\* The steps of a command and of its API call before there is a reply.
LEMMA ServingInv ==
    ASSUME IInv, phase \in Serving, NEW ph \in Serving, phase' = ph,
           buf' \in Seq(Bytes), Len(buf') <= BufLen, sent' \in 0 .. BufLen,
           apiGot' \in 0 .. ApiAnsLen,
           IF ph = "api_send" THEN sent' < Len(buf') ELSE sent' = 0,
           UNCHANGED <<others, got, handled, replies, why, broke>>
    PROVE  IInv'
<1> USE DEF others
<1>0. PICK q \in Serving : phase = q
  OBVIOUS
<1>1. Core(q) /\ BufLen \in Nat /\ ph \in Phases \ {"closed"} /\ phase # "closed"
  BY <1>0, Here, ExchangeAssumption DEF Phases, Serving, Calling
<1>2. Types' /\ Fits(ph)'
  BY <1>1 DEF Core, Types, Fits
<1>3. Counters(ph)'
  BY <1>0, <1>1 DEF Core, Counters, RequestByte, Receiving, Serving, Calling
<1>4. Told(ph)'
  BY <1>0, <1>1 DEF Core, Told, Arrived, Receiving, Serving, Calling
<1>5. ~eager' => OneAtATime(ph)'
  BY <1>0, <1>1 DEF Core, OneAtATime, Receiving, Serving, Calling
<1>6. HandledInOrder'
  BY <1>1 DEF Core, HandledInOrder
<1>7. Core(ph)'
  BY <1>2, <1>3, <1>4, <1>5, <1>6 DEF Core
<1> QED
  BY <1>1, <1>7, StepInv

\* DealTail, after the command, after the API call or in the middle of it.
LEMMA ReplyInv ==
    ASSUME IInv, phase \in Serving, DealTail, broke' = (broke \/ sent > 0),
           UNCHANGED <<sent, others, got, handled, apiGot>>
    PROVE  IInv'
<1> USE DEF others
<1>0. PICK q \in Serving : phase = q
  OBVIOUS
<1>1. /\ Core(q) /\ Types /\ Told(q) /\ Counters(q) /\ BufLen \in Nat /\ phase # "closed"
      /\ Len(buf) <= BufLen
  <2>1. Core(q) /\ BufLen \in Nat
    BY <1>0, Here, ExchangeAssumption DEF Phases, Serving, Calling
  <2> QED
    BY <2>1 DEF Core, Fits, Serving, Calling
<1>2. PICK n \in ReplyLens :
        /\ replies' = Append(replies, [from |-> EndOf(replies), len |-> n])
        /\ \/ buf' \in Copied(ReplyBytes(Last(handled), n)) /\ Posted("send")
           \/ n > BufLen /\ Close("crash") /\ buf' = buf
  BY DEF DealTail
<1>3. n \in Nat \ {0}
  BY ExchangeAssumption
<1>4. /\ handled \in Seq(1 .. MaxRequests) /\ handled # <<>>
      /\ Len(handled) \in Nat \ {0} /\ MaxRequests \in Nat
  BY <1>0, <1>1, EmptySeq, ExchangeAssumption DEF Types, Counters
<1>5. Last(handled) = handled[Len(handled)] /\ handled[Len(handled)] \in Nat
  BY <1>4, ElementOfSeq DEF Last
<1>6. /\ Len(replies) \in Nat /\ EndOf(replies) \in Nat /\ replies' \in Seq(ReplyRec)
      /\ Len(replies') = Len(replies) + 1 /\ replies' # <<>> /\ Last(replies').len = n
      /\ EndOf(replies') = EndOf(replies) + n
      /\ replies'[Len(replies')].from = EndOf(replies) /\ replies'[Len(replies')].len = n
      /\ \A j \in 1 .. Len(replies) : replies'[j] = replies[j]
      /\ \A j \in 1 .. Len(replies) : replies[j].from \in Nat /\ replies[j].len \in Nat
      /\ replies # <<>> =>
            EndOf(replies) = replies[Len(replies)].from + replies[Len(replies)].len
      /\ Len(replies) # 0 => replies # <<>>
  <2>1. replies \in Seq(ReplyRec)
    BY <1>1 DEF Types
  <2> QED
    BY <1>2, <2>1, Ends
<1>7. /\ sent \in Nat /\ sent <= BufLen
      /\ ~broke' => ~broke /\ sent = 0
  <2>1. sent \in Nat /\ sent <= BufLen
    BY <1>1 DEF Types
  <2>2. ~broke' => ~broke /\ ~(sent > 0)
    BY Zenon
  <2> QED
    BY <2>1, <2>2
\* The new reply comes behind all others and nothing of it has been sent.
<1>8. /\ Len(replies') = Len(handled)
      /\ \A j \in 1 .. Len(replies') : j < Len(replies') =>
            replies'[j].from + replies'[j].len <= replies'[Len(replies')].from
      /\ Len(got) \in Nat /\ Len(got) <= EndOf(replies)
      /\ ~broke => Len(got) = EndOf(replies)
      /\ ~broke' => \A j \in 1 .. Len(replies') :
           replies'[j].len <= BufLen => \A p \in 1 .. replies'[j].len : Arrived(j, p)'
  <2>1. Len(replies') = Len(handled)
    BY <1>0, <1>1, <1>4, <1>6 DEF Told, Serving
  <2>2. /\ Len(got) \in Nat /\ Len(got) <= EndOf(replies)
        /\ ~broke => Len(got) = EndOf(replies)
    BY <1>0, <1>1, Numbers DEF Told, Serving
  <2>3. ASSUME NEW j \in 1 .. Len(replies)
        PROVE  replies[j].from + replies[j].len <= EndOf(replies)
    <3>1. CASE j = Len(replies)
      BY <1>6, <3>1
    <3>2. CASE j < Len(replies)
      <4>1. replies[j].from + replies[j].len <= replies[Len(replies)].from
        BY <1>1, <3>2 DEF Told
      <4>2. Len(replies) \in 1 .. Len(replies) /\ replies # <<>>
        BY <1>6, <3>2
      <4>3. PICK a \in Nat, b \in Nat, c \in Nat, d \in Nat :
              /\ a = replies[j].from /\ b = replies[j].len
              /\ c = replies[Len(replies)].from /\ d = replies[Len(replies)].len
        BY <1>6, <4>2
      <4>4. a + b <= c /\ EndOf(replies) = c + d
        BY <1>6, <4>1, <4>2, <4>3
      <4>5. a + b <= c + d
        BY <4>4
      <4> QED
        BY <4>3, <4>4, <4>5
    <3> QED
      BY <1>6, <3>1, <3>2
  <2>4. ASSUME NEW j \in 1 .. Len(replies'), j < Len(replies')
        PROVE  j \in 1 .. Len(replies) /\ replies'[j] = replies[j]
    BY <1>6, <2>4
  <2>5. ASSUME NEW j \in 1 .. Len(replies'), ~broke', replies'[j].len <= BufLen,
               NEW p \in 1 .. replies'[j].len
        PROVE  Arrived(j, p)'
    <3>1. CASE j < Len(replies')
      <4>1. j \in 1 .. Len(replies) /\ replies'[j] = replies[j]
        BY <2>4, <3>1
      <4>2. Arrived(j, p)
        BY <1>1, <1>7, <2>5, <4>1 DEF Told
      <4> QED
        BY <4>1, <4>2 DEF Arrived
    <3>2. CASE j = Len(replies')
      <4>1. p \in Nat \ {0} /\ replies'[j].from = EndOf(replies)
        BY <1>3, <1>6, <3>2
      <4>2. ~(EndOf(replies) + p <= Len(got))
        BY <1>6, <2>2, <4>1
      <4> QED
        BY <4>1, <4>2 DEF Arrived
    <3> QED
      BY <1>6, <3>1, <3>2
  <2> QED
    BY <1>6, <2>1, <2>2, <2>3, <2>4, <2>5
<1>9. /\ c2s' \in Seq(RequestByte') /\ Len(reqs') <= MaxRequests
      /\ ~eager' => OneAtATime("send")' /\ OneAtATime("closed")'
      /\ HandledInOrder'
  <2>1. c2s' \in Seq(RequestByte') /\ Len(reqs') <= MaxRequests
    BY <1>1 DEF Counters, RequestByte
  <2>2. ~eager' => OneAtATime("send")' /\ OneAtATime("closed")'
    BY <1>0, <1>1 DEF Core, OneAtATime, Receiving, Serving, Calling
  <2> QED
    BY <1>1, <2>1, <2>2 DEF Core, HandledInOrder
<1>10. CASE buf' \in Copied(ReplyBytes(Last(handled), n)) /\ Posted("send")
  <2>1. /\ buf' \in Seq(Bytes) /\ Len(buf') = n
        /\ n <= BufLen => \A p \in 1 .. n :
             buf'[p] = [of |-> "reply", id |-> handled[Len(handled)], pos |-> p]
    <3>0. PICK id \in Nat : id = handled[Len(handled)]
      BY <1>5
    <3>1. PICK b \in Copied(ReplyBytes(id, n)) : b = buf'
      BY <1>5, <1>10, <3>0
    <3> QED
      BY <1>3, <3>0, <3>1, Copies
  <2>2. Types' /\ Fits("send")'
    BY <1>1, <1>6, <1>7, <2>1 DEF Types, Fits
  <2>3. Counters("send")'
    BY <1>3, <1>4, <1>6, <1>7, <1>9, <2>1 DEF Counters, Receiving, Serving, Calling
  <2>4. Told("send")'
    <3>1. Len(got) <= EndOf(replies) + (IF sent < n THEN sent ELSE 0)
      BY <1>3, <1>6, <1>7, <1>8
    <3>2. ~broke' => Len(got) = EndOf(replies) + sent
      BY <1>6, <1>7, <1>8
    <3>3. Len(got) <= EndOf(replies')
      BY <1>3, <1>6, <1>8
    <3>4. Len(replies') <= Len(handled)
      BY <1>4, <1>8
    <3> QED
      BY <1>6, <1>8, <2>1, <3>1, <3>2, <3>3, <3>4 DEF Told, Receiving, Serving, Calling
  <2>5. Core("send")'
    BY <1>9, <2>2, <2>3, <2>4 DEF Core
  <2> QED
    BY <1>1, <1>10, <2>5, PostInv DEF Phases
<1>11. CASE n > BufLen /\ Close("crash") /\ buf' = buf
  <2>1. Types' /\ Fits("closed")'
    BY <1>1, <1>6, <1>11 DEF Types, Fits
  <2>2. Counters("closed")'
    BY <1>9 DEF Counters, Receiving, Serving, Calling
  <2>3. Told("closed")'
    <3>1. Len(got) <= EndOf(replies')
      BY <1>3, <1>6, <1>8
    <3>2. Len(replies') <= Len(handled)
      BY <1>4, <1>8
    <3> QED
      BY <1>8, <3>1, <3>2 DEF Told, Receiving, Serving, Calling
  <2>4. Core("closed")'
    BY <1>9, <2>1, <2>2, <2>3 DEF Core
  <2>5. Overrun'
    <3>1. Len(replies') \in DOMAIN replies'
      BY <1>6, LenProperties
    <3> QED
      BY <1>6, <1>11, <3>1 DEF Overrun
  <2>6. Cause("crash")'
    BY <2>5 DEF Cause
  <2>7. phase' = "closed" /\ why' = "crash"
    BY <1>11 DEF Close
  <2> QED
    BY <2>4, <2>6, <2>7, CloseInv DEF Phases, Reasons
<1> QED
  BY <1>2, <1>10, <1>11

\* The zero-byte receive completes: a real one is posted.
LEMMA ZeroInv == IInv /\ RecvZeroCompSuccess => IInv'
<1> SUFFICES ASSUME IInv, RecvZeroCompSuccess PROVE IInv'
  OBVIOUS
<1> USE DEF others
<1>1. /\ phase = "zero" /\ Posted("recv")
      /\ UNCHANGED <<buf, sent, others, got, handled, replies, apiGot, broke>>
  BY DEF RecvZeroCompSuccess
<1>2. Core("zero") /\ gone \in BOOLEAN /\ sweep \in {"none", "looked", "closed"}
  BY <1>1, Here, Numbers DEF Phases, Types
<1>3. Core("zero")'
  BY <1>1, <1>2, Same
<1>4. Fits("recv")' /\ Counters("recv")' /\ Told("recv")' /\ (~eager' => OneAtATime("recv")')
  BY <1>3 DEF Core, Fits, Counters, Told, OneAtATime, Receiving, Serving, Calling
<1>5. Core("recv")'
  BY <1>3, <1>4 DEF Core
<1> QED
  BY <1>1, <1>5, PostInv DEF Phases

\* What the server knows while it sends a reply.
LEMMA Sending ==
    ASSUME IInv, phase = "send"
    PROVE  /\ Core("send") /\ Types /\ Counters("send") /\ Told("send")
           /\ Len(replies) \in Nat \ {0} /\ Len(replies) = Len(handled)
           /\ \A j \in 1 .. Len(replies) : replies[j].from \in Nat /\ replies[j].len \in Nat \ {0}
           /\ Len(buf) = replies[Len(replies)].len
           /\ EndOf(replies) = replies[Len(replies)].from + Len(buf)
<1>1. Core("send")
  BY Here DEF Phases
<1>2. Types /\ Counters("send") /\ Told("send")
  BY <1>1 DEF Core
<1>3. replies \in Seq(ReplyRec) /\ replies # <<>> /\ Len(buf) = replies[Len(replies)].len
  BY <1>2 DEF Types, Counters
<1>4. Len(replies) = Len(handled)
  BY <1>2 DEF Told
<1> QED
  BY <1>1, <1>2, <1>3, <1>4, Ends

\* Part of a reply is sent, or the rest of it.
LEMMA SendInv == IInv /\ SendCompSuccess => IInv'
<1> SUFFICES ASSUME IInv, SendCompSuccess PROVE IInv'
  OBVIOUS
<1> USE DEF others
<1>1. PICK k \in 1 .. Len(buf) - sent :
        /\ got' = got \o SubSeq(buf, sent + 1, sent + k)
        /\ IF sent + k < Len(buf)
           THEN sent' = sent + k /\ buf' = buf /\ Posted("send")
           ELSE sent' = 0 /\ buf' = <<>> /\ Posted("zero")
  BY DEF SendCompSuccess, Recved
<1>2. /\ phase = "send" /\ sent < Len(buf)
      /\ UNCHANGED <<others, handled, replies, apiGot, broke>>
  BY DEF SendCompSuccess, Recved
<1>30. PICK N \in Nat \ {0} : /\ N = Len(replies) /\ N = Len(handled)
                              /\ \A j \in 1 .. N : replies[j].from \in Nat /\ replies[j].len \in Nat \ {0}
                              /\ Len(buf) = replies[N].len
                              /\ EndOf(replies) = replies[N].from + Len(buf)
  BY <1>2, Sending
<1>31. PICK F \in Nat, L \in Nat \ {0} : F = replies[N].from /\ L = Len(buf)
  BY <1>30
<1>3. /\ Core("send") /\ Types /\ Counters("send") /\ Told("send")
  BY <1>2, Sending
<1>4. /\ buf \in Seq(Bytes) /\ got \in Seq(Bytes) /\ Len(got) \in Nat /\ sent \in Nat
      /\ BufLen \in Nat /\ sent < L /\ EndOf(replies) = F + L
  BY <1>2, <1>3, <1>30, <1>31, Numbers DEF Types
<1>32. /\ Len(got) <= F + sent
       /\ ~broke => Len(got) = F + sent
       /\ L <= BufLen => \A p \in 1 .. L :
            buf[p] = [of |-> "reply", id |-> handled[N], pos |-> p]
       /\ \A j \in 1 .. N : j < N => replies[j].from + replies[j].len <= F
       /\ ~broke => \A j \in 1 .. N :
            replies[j].len <= BufLen => \A p \in 1 .. replies[j].len : Arrived(j, p)
  <2>1. /\ Len(got) <= F + sent
        /\ ~broke => Len(got) = F + sent
        /\ \A j \in 1 .. N : j < N => replies[j].from + replies[j].len <= F
        /\ ~broke => \A j \in 1 .. N :
            replies[j].len <= BufLen => \A p \in 1 .. replies[j].len : Arrived(j, p)
    BY <1>3, <1>4, <1>30, <1>31 DEF Told
  <2>2. L <= BufLen => \A p \in 1 .. L :
            buf[p] = [of |-> "reply", id |-> handled[N], pos |-> p]
    BY <1>3, <1>30, <1>31 DEF Counters
  <2> QED
    BY <2>1, <2>2
<1>5. k \in Nat \ {0} /\ sent + k <= L
  BY <1>1, <1>4, <1>31
<1>6. PICK seg \in Seq(Bytes) : /\ seg = SubSeq(buf, sent + 1, sent + k) /\ Len(seg) = k
                                /\ \A j \in 1 .. k : seg[j] = buf[sent + j]
  <2>1. \A i \in sent + 1 .. sent + k : buf[i] \in Bytes
    BY <1>4, <1>5, <1>31, ElementOfSeq
  <2>2. PICK m \in Int, e \in Int : m = sent + 1 /\ e = sent + k
    BY <1>4, <1>5
  <2>3. /\ m <= e /\ e - m + 1 = k
        /\ \A j \in 1 .. k : m + j - 1 = sent + j
    BY <1>4, <1>5, <2>2
  <2>4. /\ SubSeq(buf, m, e) \in Seq(Bytes)
        /\ Len(SubSeq(buf, m, e)) = IF m <= e THEN e - m + 1 ELSE 0
        /\ \A j \in 1 .. e - m + 1 : SubSeq(buf, m, e)[j] = buf[m + j - 1]
    BY <2>1, <2>2, SubSeqProperties
  <2>5. /\ Len(SubSeq(buf, m, e)) = k
        /\ \A j \in 1 .. k : SubSeq(buf, m, e)[j] = buf[sent + j]
    BY <2>3, <2>4
  <2> QED
    BY <2>2, <2>4, <2>5
<1>7. /\ got' \in Seq(Bytes) /\ Len(got') = Len(got) + k
      /\ \A i \in 1 .. Len(got) : got'[i] = got[i]
      /\ \A j \in 1 .. k : got'[Len(got) + j] = seg[j]
  <2>1. /\ got \o seg \in Seq(Bytes) /\ Len(got \o seg) = Len(got) + Len(seg)
        /\ \A i \in 1 .. Len(got) + Len(seg) :
              (got \o seg)[i] = IF i <= Len(got) THEN got[i] ELSE seg[i - Len(got)]
    BY <1>4, ConcatProperties
  <2>2. got' = got \o seg
    BY <1>1, <1>6, Zenon
  <2>3. /\ \A i \in 1 .. Len(got) : (got \o seg)[i] = got[i]
        /\ \A j \in 1 .. k : (got \o seg)[Len(got) + j] = seg[j]
    BY <1>4, <1>5, <1>6, <2>1
  <2> QED
    BY <1>6, <2>1, <2>2, <2>3
<1>70. PICK G \in Nat, G2 \in Nat : G = Len(got) /\ G2 = Len(got') /\ G2 = G + k
  BY <1>4, <1>5, <1>7
<1>71. /\ G <= F + sent
       /\ ~broke => G = F + sent
  BY <1>32, <1>70
\* A byte that is new to the client belongs to the last reply.
<1>8. ASSUME ~broke, NEW j \in 1 .. N, replies[j].len <= BufLen,
             NEW p \in 1 .. replies[j].len
      PROVE  Arrived(j, p)'
  <2>0. PICK f \in Nat, l \in Nat : f = replies[j].from /\ l = replies[j].len
    BY <1>30
  <2>1. p \in Nat \ {0} /\ p <= l /\ f + p \in Nat
    BY <2>0
  <2>2. Arrived(j, p)
    BY <1>8, <1>32
  <2>3. SUFFICES ASSUME f + p <= Len(got')
                 PROVE  got'[f + p] = [of |-> "reply", id |-> handled[j], pos |-> p]
    BY <1>2, <2>0 DEF Arrived
  <2>4. CASE f + p <= Len(got)
    <3>1. f + p \in 1 .. Len(got)
      BY <1>4, <2>1, <2>4
    <3>2. got[f + p] = [of |-> "reply", id |-> handled[j], pos |-> p]
      BY <2>0, <2>2, <2>4 DEF Arrived
    <3> QED
      BY <1>7, <3>1, <3>2
  <2>5. CASE ~(f + p <= Len(got))
    <3>1. j = N
      <4>1. SUFFICES ASSUME j < N PROVE FALSE
        BY <1>30
      <4>2. f + l <= F /\ Len(got) = F + sent
        BY <1>8, <1>32, <2>0, <4>1
      <4> QED
        BY <1>4, <1>31, <2>1, <2>5, <4>2
    <3>2. f = F /\ l = L /\ G = F + sent
      BY <1>8, <1>30, <1>31, <1>71, <2>0, <3>1
    <3>3. PICK m \in 1 .. k : f + p = Len(got) + m /\ p = sent + m
      <4>0. sent \in Nat /\ k \in Nat /\ F + p <= G2 /\ ~(F + p <= G)
        BY <1>4, <1>5, <1>70, <2>3, <2>5, <3>2
      <4>1. p - sent \in 1 .. k /\ F + p = G + (p - sent) /\ p = sent + (p - sent)
        BY <1>70, <2>1, <3>2, <4>0
      <4> QED
        BY <1>70, <3>2, <4>1
    <3>4. got'[f + p] = buf[p]
      BY <1>6, <1>7, <3>3
    <3>5. p \in 1 .. L /\ L <= BufLen
      BY <1>8, <2>0, <2>1, <3>2
    <3> QED
      BY <1>32, <3>1, <3>4, <3>5
  <2> QED
    BY <2>4, <2>5
<1>9. Len(got') <= F + (sent + k) /\ Len(got') <= EndOf(replies)
  <2>1. EndOf(replies) = F + L /\ sent \in Nat /\ k \in Nat /\ sent + k <= L
    BY <1>4, <1>5
  <2>2. G2 <= F + (sent + k) /\ G2 <= F + L
    BY <1>70, <1>71, <2>1
  <2> QED
    BY <1>70, <2>1, <2>2
<1>10. ASSUME ~broke PROVE Len(got') = F + (sent + k)
  <2>1. sent \in Nat /\ k \in Nat /\ G = F + sent
    BY <1>4, <1>5, <1>10, <1>71
  <2>2. G2 = F + (sent + k)
    BY <1>70, <2>1
  <2> QED
    BY <1>70, <2>2
<1>11. HandledInOrder'
  BY <1>2, <1>3 DEF Core, HandledInOrder
<1>12. c2s' \in Seq(RequestByte') /\ Len(reqs') <= MaxRequests /\ (~eager' => ~eager)
  BY <1>2, <1>3 DEF Counters, RequestByte
<1>13. CASE sent + k < Len(buf)
  <2>1. sent' = sent + k /\ sent' < L /\ buf' = buf /\ Posted("send") /\ sent' \in Nat
    BY <1>1, <1>4, <1>5, <1>13, <1>31
  <2>2. Types' /\ Fits("send")'
    BY <1>2, <1>3, <1>7, <1>31, <2>1 DEF Core, Types, Fits
  <2>3. Counters("send")'
    BY <1>2, <1>3, <1>12, <1>31, <2>1 DEF Counters, Receiving, Serving, Calling
  <2>4. Told("send")'
    BY <1>2, <1>3, <1>8, <1>9, <1>10, <1>30, <1>31, <2>1 DEF Told, Receiving, Serving, Calling
  <2>5. ~eager' => OneAtATime("send")'
    BY <1>2, <1>3, <2>1 DEF Core, OneAtATime, Receiving, Serving, Calling
  <2>6. Core("send")'
    BY <1>11, <2>2, <2>3, <2>4, <2>5 DEF Core
  <2> QED
    BY <1>2, <2>1, <2>6, PostInv DEF Phases
<1>14. CASE ~(sent + k < Len(buf))
  <2>1. sent' = 0 /\ buf' = <<>> /\ Posted("zero") /\ sent + k = L
    BY <1>1, <1>4, <1>5, <1>14, <1>31
  <2>2. \A S : <<>> \in Seq(S) /\ Len(<<>>) = 0
    BY EmptySeq
  <2>3. Types' /\ Fits("zero")'
    BY <1>2, <1>3, <1>4, <1>7, <2>1, <2>2 DEF Types, Fits
  <2>4. Counters("zero")'
    BY <1>12, <2>1, <2>2 DEF Counters, Receiving, Serving, Calling
  <2>5. ~broke' => Len(got') = EndOf(replies')
    BY <1>2, <1>4, <1>10, <2>1
  <2>6. Told("zero")'
    BY <1>2, <1>3, <1>8, <1>9, <1>30, <2>5 DEF Told, Receiving, Serving, Calling
  <2>7. ~eager' => OneAtATime("zero")'
    BY <1>2, <1>3, <2>1 DEF Core, OneAtATime, Receiving, Serving, Calling
  <2>8. Core("zero")'
    BY <1>11, <2>3, <2>4, <2>6, <2>7 DEF Core
  <2> QED
    BY <1>2, <2>1, <2>8, PostInv DEF Phases
<1> QED
  BY <1>13, <1>14

\* A count that is out of step shows that an API request was cut off.
LEMMA Miscounted ==
    ASSUME IInv, phase = "send", sent >= Len(buf)
    PROVE  broke
<1>1. ~broke => sent < Len(buf)
  BY Sending DEF Counters
<1>2. sent \in Nat /\ Len(buf) \in Nat
  BY Numbers DEF Types
<1>3. ~(sent < Len(buf))
  BY <1>2
<1> QED
  BY <1>1, <1>3

\* A stale dwSendedCount beyond the reply: junk goes out and the connection ends.
LEMMA BeyondInv == IInv /\ SendBeyond => IInv'
<1> SUFFICES ASSUME IInv, SendBeyond PROVE IInv'
  OBVIOUS
<1> USE DEF others
<1>1. /\ phase = "send" /\ sent > Len(buf) /\ got' = Append(got, Junk)
      /\ phase' = "closed" /\ why' = "miscount"
      /\ UNCHANGED <<buf, sent, others, handled, replies, apiGot, broke>>
  BY DEF SendBeyond, Close, Recved
<1>2. /\ Core("send") /\ Types /\ Counters("send") /\ Told("send")
      /\ Len(replies) \in Nat \ {0} /\ Len(buf) \in Nat \ {0}
      /\ replies[Len(replies)].from \in Nat
      /\ EndOf(replies) = replies[Len(replies)].from + Len(buf)
  BY <1>1, Sending
<1>3. Len(got) \in Nat /\ got \in Seq(Bytes) /\ sent \in Nat
  BY Numbers DEF Types
<1>4. broke /\ Len(got) <= replies[Len(replies)].from
  <2>1. sent >= Len(buf) /\ ~(sent < Len(buf))
    BY <1>1, <1>2, <1>3
  <2>2. Len(got) <= replies[Len(replies)].from + 0
    BY <1>2, <2>1 DEF Told
  <2> QED
    BY <1>1, <1>2, <1>3, <2>1, <2>2, Miscounted
<1>5. got' \in Seq(Bytes) /\ Len(got') = Len(got) + 1
  <2>1. Junk \in Bytes
    BY DEF Junk, Bytes
  <2> QED
    BY <1>1, <1>3, <2>1, AppendProperties
<1>6. Len(got') <= EndOf(replies)
  BY <1>2, <1>3, <1>4, <1>5
<1>7. Types' /\ Fits("closed")'
  BY <1>1, <1>2, <1>5 DEF Core, Types, Fits
<1>8. Counters("closed")'
  BY <1>1, <1>2 DEF Counters, RequestByte, Receiving, Serving, Calling
<1>9. Told("closed")'
  BY <1>1, <1>2, <1>4, <1>6 DEF Told, Receiving, Serving, Calling
<1>10. (~eager' => OneAtATime("closed")') /\ HandledInOrder'
  BY <1>1, <1>2 DEF Core, OneAtATime, HandledInOrder, Receiving, Serving, Calling
<1>11. Core("closed")'
  BY <1>7, <1>8, <1>9, <1>10 DEF Core
<1>12. Cause("miscount")' /\ "miscount" \in Reasons \ {"open"}
  BY <1>1, <1>4 DEF Cause, Reasons
<1> QED
  BY <1>1, <1>11, <1>12, CloseInv DEF Phases

\* The client sends a request: with all replies there, it is the only one.
LEMMA ClientInv ==
    ASSUME IInv, NEW n \in FrameLens, NEW cmd \in Kinds, ClientSends(n, cmd)
    PROVE  IInv'
<1> DEFINE R == Len(reqs)
           H == Len(handled)
<1>1. /\ R < MaxRequests /\ reqs' = Append(reqs, [len |-> n, cmd |-> cmd])
      /\ c2s' = c2s \o RequestBytes(R + 1, n)
      /\ UNCHANGED <<phase, buf, sent, gone, got, handled, replies, apiGot, why, broke, sweep>>
      /\ eager' = (eager \/ Len(replies) # Len(reqs) \/ Len(got) < EndOf(replies))
  BY DEF ClientSends
<1>2. /\ R \in Nat /\ H \in Nat /\ Len(got) \in Nat /\ Len(c2s) \in Nat /\ n \in Nat
      /\ MaxRequests \in Nat /\ EndOf(replies) \in Nat /\ Len(replies) \in Nat /\ Types
  BY Numbers, ExchangeAssumption
<1>31. PICK ph \in Phases \ {"closed"} : phase = ph /\ Core(ph) /\ phase' = ph
  <2>1. phase # "closed" /\ phase' = phase
    BY DEF ClientSends
  <2> QED
    BY <2>1 DEF IInv
<1>3. /\ reqs' \in Seq([len : FrameLens, cmd : Kinds]) /\ Len(reqs') = R + 1
      /\ \A i \in 1 .. R : reqs'[i] = reqs[i]
      /\ reqs'[R + 1] = [len |-> n, cmd |-> cmd]
  <2>1. [len |-> n, cmd |-> cmd] \in [len : FrameLens, cmd : Kinds]
    OBVIOUS
  <2> QED
    BY <1>1, <1>2, <2>1, AppendProperties DEF Types
<1>30. PICK id \in Nat : id = R + 1 /\ id = Len(reqs')
  BY <1>2, <1>3
<1>4. PICK msg : /\ msg = RequestBytes(id, n)
                 /\ msg \in Seq([of : {"request"}, id : {id}, pos : Nat])
                 /\ Len(msg) = n + Overhead
                 /\ \A i \in 1 .. n + Overhead : msg[i] =
                       [of |-> "request", id |-> id, pos |-> i]
  <2>1. n \in Nat
    BY <1>2
  <2>2. /\ RequestBytes(id, n) \in Seq([of : {"request"}, id : {id}, pos : Nat])
        /\ Len(RequestBytes(id, n)) = n + Overhead
        /\ \A i \in 1 .. n + Overhead : RequestBytes(id, n)[i] =
              [of |-> "request", id |-> id, pos |-> i]
    BY <2>1, NewRequest
  <2> QED
    BY <2>2
<1>5. /\ RequestByte \subseteq RequestByte'
      /\ [of : {"request"}, id : {id}, pos : Nat] \subseteq RequestByte'
  <2>1. 1 .. R \subseteq 1 .. R + 1 /\ id \in 1 .. R + 1
    BY <1>2, <1>30
  <2> QED
    BY <1>3, <2>1 DEF RequestByte
<1>6. /\ c2s \in Seq(RequestByte') /\ msg \in Seq(RequestByte')
      /\ ph \in Receiving => buf \in Seq(RequestByte')
  <2>1. /\ c2s \in Seq(RequestByte)
        /\ ph \in Receiving => buf \in Seq(RequestByte)
    BY <1>31 DEF Core, Counters
  <2> QED
    BY <1>4, <1>5, <2>1, Wider
<1>7. /\ c2s' \in Seq(RequestByte')
      /\ Len(c2s') = Len(c2s) + Len(msg)
      /\ \A i \in 1 .. Len(c2s) + Len(msg) :
            c2s'[i] = IF i <= Len(c2s) THEN c2s[i] ELSE msg[i - Len(c2s)]
  BY <1>1, <1>30, <1>4, <1>6, ConcatProperties
<1>8. RequestByte' \subseteq Bytes
  BY <1>2, <1>3 DEF RequestByte, Bytes
<1>9. Types' /\ Fits(ph)'
  <2>1. c2s' \in Seq(Bytes)
    BY <1>7, <1>8, Wider
  <2>2. eager' \in BOOLEAN
    BY <1>1
  <2> QED
    BY <1>1, <1>3, <1>31, <2>1, <2>2 DEF Core, Types, Fits
<1>10. Counters(ph)'
  <2>1. Len(reqs') <= MaxRequests
    BY <1>1, <1>2, <1>3
  <2> QED
    BY <1>1, <1>6, <1>7, <1>31, <2>1 DEF Core, Counters
<1>11. Told(ph)'
  BY <1>1, <1>31 DEF Core, Told, Arrived
<1>12. ASSUME ~eager'
       PROVE  /\ ~eager /\ Len(replies) = R /\ EndOf(replies) <= Len(got) /\ OneAtATime(ph)
              /\ HandledInOrder
  <2>1. ~eager /\ Len(replies) = Len(reqs) /\ ~(Len(got) < EndOf(replies))
    BY <1>1, <1>12, Zenon
  <2> QED
    BY <1>2, <1>31, <2>1 DEF Core
<1>13. HandledInOrder'
  <2> SUFFICES ASSUME ~eager' PROVE HandledInOrder'
    BY DEF HandledInOrder
  <2>1. DOMAIN handled = 1 .. H
    BY <1>2, LenProperties DEF Types
  <2>2. \A i \in 1 .. H : handled[i] = i /\ Good(reqs[i])
    BY <1>12, <2>1 DEF HandledInOrder
  <2>3. H <= R
    BY <1>12 DEF OneAtATime
  <2> QED
    BY <1>1, <1>2, <1>3, <2>1, <2>2, <2>3 DEF HandledInOrder
\* With the last reply received the server has nothing of the client's in hand.
<1>14. ASSUME ~eager' PROVE OneAtATime(ph)'
  <2>1. H <= R
    BY <1>12, <1>14 DEF OneAtATime
  <2>3. ph \notin Serving \cup {"send"}
    <3>1. CASE ph \in Serving
      <4>1. H = R /\ Len(replies) = H - 1
        BY <1>12, <1>14, <1>31, <3>1 DEF OneAtATime, Core, Told
      <4> QED
        BY <1>2, <1>12, <1>14, <4>1
    <3>2. CASE ph = "send"
      <4>1. PICK F \in Nat, L \in Nat \ {0} : /\ F = replies[Len(replies)].from /\ L = Len(buf)
                                              /\ EndOf(replies) = F + L
        <5>0. /\ Len(replies) \in Nat \ {0}
              /\ \A j \in 1 .. Len(replies) :
                    replies[j].from \in Nat /\ replies[j].len \in Nat \ {0}
              /\ Len(buf) = replies[Len(replies)].len
              /\ EndOf(replies) = replies[Len(replies)].from + Len(buf)
          BY <1>31, <3>2, Sending
        <5>1. Len(replies) \in 1 .. Len(replies)
          BY <5>0
        <5>2. replies[Len(replies)].from \in Nat /\ Len(buf) \in Nat \ {0}
          BY <5>0, <5>1
        <5> QED
          BY <5>0, <5>2
      <4>2. sent \in Nat /\ Len(got) <= F + (IF sent < L THEN sent ELSE 0)
        <5>1. Told("send")
          BY <1>31, <3>2, Sending
        <5>2. Len(got) <= replies[Len(replies)].from + (IF sent < Len(buf) THEN sent ELSE 0)
          BY <5>1 DEF Told
        <5>3. sent \in Nat
          BY <1>2 DEF Types
        <5> QED
          BY <4>1, <5>2, <5>3
      <4>3. Len(got) < F + L
        <5>1. PICK G \in Nat, m \in Nat : G = Len(got) /\ m = sent
          BY <1>2, <4>2
        <5>2. G <= F + (IF m < L THEN m ELSE 0)
          BY <4>2, <5>1
        <5>3. G < F + L
          BY <5>2
        <5> QED
          BY <5>1, <5>3
      <4>4. F + L <= Len(got)
        BY <1>12, <1>14, <4>1
      <4> QED
        BY <1>2, <4>1, <4>3, <4>4
    <3> QED
      BY <3>1, <3>2
  <2>4. ASSUME ph \in Receiving PROVE H = R /\ buf = <<>> /\ c2s = <<>>
    <3>1. Len(replies) = H
      BY <1>31, <2>4 DEF Core, Told
    <3>2. H = R /\ ~(H = R - 1)
      BY <1>2, <1>12, <1>14, <3>1
    <3> QED
      BY <1>12, <1>14, <2>4, <3>2 DEF OneAtATime
  <2>5. ASSUME ph \in Receiving PROVE Len(handled') = Len(reqs') - 1 /\ Partly'
    <3>1. H = R /\ Len(buf) = 0 /\ Len(c2s) = 0
      BY <2>4, <2>5, EmptySeq
    <3>2. buf' = buf /\ Len(c2s') = n + Overhead /\ reqs'[Len(reqs')].len = n
      BY <1>1, <1>2, <1>3, <1>4, <1>7, <3>1 DEF Overhead
    <3>3. \A i \in 1 .. n + Overhead : c2s'[i] = [of |-> "request", id |-> id, pos |-> i]
      <4> SUFFICES ASSUME NEW i \in 1 .. n + Overhead
                   PROVE  c2s'[i] = [of |-> "request", id |-> id, pos |-> i]
        OBVIOUS
      <4>1. n + Overhead \in Nat /\ i \in Nat /\ ~(i <= 0) /\ i - 0 = i
        BY <1>2 DEF Overhead
      <4>2. i \in 1 .. Len(c2s) + Len(msg)
        BY <1>4, <3>1, <4>1
      <4>3. c2s'[i] = msg[i]
        BY <1>7, <3>1, <4>1, <4>2
      <4> QED
        BY <1>4, <4>3
    <3>4. \A i \in 1 .. n + Overhead : 0 + i = i
      BY <1>2 DEF Overhead
    <3>5. 0 < n + Overhead /\ 0 + (n + Overhead) = n + Overhead
      BY <1>2 DEF Overhead
    <3>6. Partly'
      BY <1>30, <3>1, <3>2, <3>3, <3>4, <3>5 DEF Partly
    <3> QED
      BY <1>1, <1>2, <1>3, <3>1, <3>6
  <2>6. H <= Len(reqs')
    BY <1>2, <1>3, <2>1
  <2> QED
    BY <1>1, <2>3, <2>5, <2>6 DEF OneAtATime
<1>15. Core(ph)'
  BY <1>9, <1>10, <1>11, <1>13, <1>14 DEF Core
<1> QED
  BY <1>1, <1>15, <1>31, StepInv

\* What CheckRecvdata finds out.
LEMMA Checked ==
    ASSUME NEW b, Len(b) \in Nat, reqs[b[1].id].len \in Nat
    PROVE  /\ CheckRecvdata(b) \in {"more", "bad", "whole"}
           /\ CheckRecvdata(b) = "more" => Len(b) < reqs[b[1].id].len + Overhead
           /\ CheckRecvdata(b) = "whole" =>
                /\ Good(reqs[b[1].id])
                /\ reqs[b[1].id].len + Overhead <= Len(b)
           /\ CheckRecvdata(b) = "bad" =>
                /\ 2 <= Len(b)
                /\ b[1].pos = 1 /\ b[2].pos = 2 => ~Good(reqs[b[1].id])
<1>1. CheckRecvdata(b) \in {"more", "bad", "whole"}
  BY DEF CheckRecvdata
<1>2. CheckRecvdata(b) = "more" => Len(b) < reqs[b[1].id].len + Overhead
  BY DEF CheckRecvdata, HeadLen, Overhead
<1>3. CheckRecvdata(b) = "whole" =>
         /\ Good(reqs[b[1].id])
         /\ reqs[b[1].id].len + Overhead <= Len(b)
  BY DEF CheckRecvdata, Overhead
<1>4. CheckRecvdata(b) = "bad" =>
         /\ 2 <= Len(b)
         /\ b[1].pos = 1 /\ b[2].pos = 2 => ~Good(reqs[b[1].id])
  BY DEF CheckRecvdata, HeadLen
<1> QED
  BY <1>1, <1>2, <1>3, <1>4

\* Bytes of the client arrive, at the accept or later.
LEMMA ReceivedInv ==
    ASSUME IInv, phase \in Receiving, NEW space \in Nat, Len(buf) + space <= BufLen,
           Received(space)
    PROVE  IInv'
<1> DEFINE R == Len(reqs)
           H == Len(handled)
<1>1. PICK k, b, check, n :
        /\ k \in Upto(Len(c2s), space)
        /\ b = buf \o SubSeq(c2s, 1, k)
        /\ check = CheckRecvdata(b)
        /\ n = IF check = "whole" THEN reqs[b[1].id].len ELSE Len(b)
        /\ c2s' = SubSeq(c2s, k + 1, Len(c2s))
        /\ buf' = SubSeq(b, 1, n)
        /\ \/ /\ check = "more" \/ n = 0
              /\ Posted("zero")
              /\ UNCHANGED handled
           \/ /\ check = "bad"
              /\ Close("bad frame")
              /\ UNCHANGED handled
           \/ /\ check = "whole" /\ n > 0
              /\ phase' = "process"
              /\ handled' = Append(handled, b[1].id)
              /\ UNCHANGED why
        /\ UNCHANGED <<sent, reqs, gone, got, replies, apiGot, eager, broke, sweep>>
  BY DEF Received
<1>2. /\ Len(buf) \in Nat /\ Len(c2s) \in Nat /\ R \in Nat /\ H \in Nat
      /\ BufLen \in Nat /\ MaxRequests \in Nat /\ R <= MaxRequests
      /\ Types /\ phase # "closed"
  <2>1. Core(phase)
    BY DEF IInv
  <2> QED
    BY <2>1, Numbers, ExchangeAssumption DEF Core, Counters, Receiving
<1>20. PICK now \in Receiving : phase = now /\ Core(now)
  BY Here DEF Receiving, Phases
<1>3. k \in 0 .. Len(c2s) /\ k >= 1 /\ k <= space
  <2>1. k \in Upto(Len(c2s), space)
    BY <1>1
  <2> QED
    BY <1>2, <2>1 DEF Upto
<1>4. c2s \in Seq(RequestByte) /\ buf \in Seq(RequestByte) /\ sent = 0
  BY <1>20 DEF Core, Counters, Receiving
<1>5. /\ b \in Seq(RequestByte) /\ Len(b) = Len(buf) + k
      /\ \A i \in 1 .. Len(buf) : b[i] = buf[i]
      /\ \A i \in 1 .. k : b[Len(buf) + i] = c2s[i]
      /\ c2s' \in Seq(RequestByte) /\ Len(c2s') = Len(c2s) - k
      /\ \A i \in 1 .. Len(c2s) - k : c2s'[i] = c2s[k + i]
  <2>1. b = buf \o SubSeq(c2s, 1, k) /\ c2s' = SubSeq(c2s, k + 1, Len(c2s))
    BY <1>1
  <2>2. /\ buf \o SubSeq(c2s, 1, k) \in Seq(RequestByte)
        /\ Len(buf \o SubSeq(c2s, 1, k)) = Len(buf) + k
        /\ \A i \in 1 .. Len(buf) : (buf \o SubSeq(c2s, 1, k))[i] = buf[i]
        /\ \A i \in 1 .. k : (buf \o SubSeq(c2s, 1, k))[Len(buf) + i] = c2s[i]
        /\ SubSeq(c2s, k + 1, Len(c2s)) \in Seq(RequestByte)
        /\ Len(SubSeq(c2s, k + 1, Len(c2s))) = Len(c2s) - k
        /\ \A i \in 1 .. Len(c2s) - k : SubSeq(c2s, k + 1, Len(c2s))[i] = c2s[k + i]
    <3>1. PICK S : S = RequestByte
      OBVIOUS
    <3>2. PICK q \in Seq(S), r \in Seq(S) : q = buf /\ r = c2s
      BY <1>4, <3>1
    <3>3. k \in 0 .. Len(r)
      BY <1>3, <3>2
    <3>4. /\ q \o SubSeq(r, 1, k) \in Seq(S)
          /\ Len(q \o SubSeq(r, 1, k)) = Len(q) + k
          /\ \A i \in 1 .. Len(q) : (q \o SubSeq(r, 1, k))[i] = q[i]
          /\ \A i \in 1 .. k : (q \o SubSeq(r, 1, k))[Len(q) + i] = r[i]
          /\ SubSeq(r, k + 1, Len(r)) \in Seq(S)
          /\ Len(SubSeq(r, k + 1, Len(r))) = Len(r) - k
          /\ \A i \in 1 .. Len(r) - k : SubSeq(r, k + 1, Len(r))[i] = r[k + i]
      BY <3>3, Spliced
    <3> QED
      BY <3>1, <3>2, <3>4, Zenon
  <2> QED
    BY <2>1, <2>2, Zenon
<1>6. Len(b) \in Nat /\ 1 <= Len(b) /\ Len(b) <= BufLen
  BY <1>2, <1>3, <1>5
<1>7. PICK id \in 1 .. R : id = b[1].id /\ b[1] \in RequestByte
  <2>1. b[1] \in RequestByte
    BY <1>5, <1>6, ElementOfSeq
  <2> QED
    BY <2>1 DEF RequestByte
<1>8. PICK len \in Nat : len = reqs[id].len
  <2>1. reqs \in Seq([len : FrameLens, cmd : Kinds])
    BY <1>2 DEF Types
  <2>2. reqs[id] \in [len : FrameLens, cmd : Kinds]
    BY <1>2, <2>1, ElementOfSeq
  <2>3. reqs[id].len \in Nat
    BY <2>2, ExchangeAssumption
  <2> QED
    BY <2>3
<1>9. /\ check \in {"more", "bad", "whole"}
      /\ check = "more" => Len(b) < len + Overhead
      /\ check = "whole" => Good(reqs[id]) /\ len + Overhead <= Len(b)
      /\ check = "bad" => 2 <= Len(b)
      /\ check = "bad" => (b[1].pos = 1 /\ b[2].pos = 2 => ~Good(reqs[id]))
  BY <1>1, <1>6, <1>7, <1>8, Checked
<1>10. /\ n \in 0 .. Len(b)
       /\ check = "whole" => n = len
       /\ check # "whole" => n = Len(b)
  <2>1. /\ check = "whole" => n = len
        /\ check # "whole" => n = Len(b)
    <3>1. n = IF check = "whole" THEN reqs[b[1].id].len ELSE Len(b)
      BY <1>1
    <3>2. reqs[b[1].id].len = len
      BY <1>7, <1>8
    <3> QED
      BY <3>1, <3>2
  <2>2. check = "whole" => len \in 0 .. Len(b)
    <3>1. check = "whole" => len + Overhead <= Len(b)
      BY <1>9
    <3> QED
      BY <1>6, <3>1 DEF Overhead
  <2> QED
    BY <1>6, <2>1, <2>2
<1>11. /\ buf' \in Seq(RequestByte) /\ Len(buf') = n
       /\ \A i \in 1 .. n : buf'[i] = b[i]
  <2>1. b \in Seq(RequestByte) /\ n \in 0 .. Len(b)
    BY <1>5, <1>10
  <2>2. /\ SubSeq(b, 1, n) \in Seq(RequestByte) /\ Len(SubSeq(b, 1, n)) = n
        /\ \A i \in 1 .. n : SubSeq(b, 1, n)[i] = b[i]
    BY <2>1, Beginning
  <2>3. buf' = SubSeq(b, 1, n)
    BY <1>1
  <2> QED
    BY <2>2, <2>3, Zenon
<1>12. /\ buf' \in Seq(Bytes) /\ c2s' \in Seq(Bytes) /\ Len(buf') <= BufLen
       /\ RequestByte' = RequestByte
  <2>1. RequestByte \subseteq Bytes
    BY <1>2 DEF RequestByte, Bytes
  <2>2. Len(buf') <= BufLen
    BY <1>2, <1>6, <1>10, <1>11
  <2>3. RequestByte' = RequestByte
    BY <1>1 DEF RequestByte
  <2>4. buf' \in Seq(RequestByte) /\ c2s' \in Seq(RequestByte)
    BY <1>5, <1>11
  <2>5. \A q \in Seq(RequestByte) : q \in Seq(Bytes)
    BY <2>1, Wider
  <2> QED
    BY <2>2, <2>3, <2>4, <2>5
\* Of a client that waits, these are the next bytes of its last request.
<1>13. ASSUME ~eager
       PROVE  /\ R \in Nat \ {0} /\ H = R - 1 /\ id = R
              /\ Len(b) + Len(c2s') = len + Overhead
              /\ \A i \in 1 .. Len(b) : b[i] = [of |-> "request", id |-> R, pos |-> i]
              /\ \A i \in 1 .. Len(c2s') : c2s'[i] =
                    [of |-> "request", id |-> R, pos |-> Len(b) + i]
  <2>1. H = R - 1 /\ Partly
    <3>1. c2s # <<>>
      BY <1>2, <1>3, EmptySeq
    <3> QED
      BY <1>13, <1>20, <3>1 DEF Core, OneAtATime
  <2>2. R \in Nat \ {0}
    BY <1>2, <2>1
  <2>3. /\ Len(buf) + Len(c2s) = reqs[R].len + Overhead
        /\ \A i \in 1 .. Len(buf) : buf[i] = [of |-> "request", id |-> R, pos |-> i]
        /\ \A i \in 1 .. Len(c2s) : c2s[i] =
              [of |-> "request", id |-> R, pos |-> Len(buf) + i]
    BY <2>1 DEF Partly
  <2>4. ASSUME NEW i \in 1 .. Len(b)
        PROVE  b[i] = [of |-> "request", id |-> R, pos |-> i]
    <3>1. CASE i \in 1 .. Len(buf)
      BY <1>5, <2>3, <3>1
    <3>2. CASE i \notin 1 .. Len(buf)
      <4>1. PICK j \in 1 .. k : i = Len(buf) + j
        <5>1. i - Len(buf) \in 1 .. k /\ i = Len(buf) + (i - Len(buf))
          BY <1>2, <1>3, <1>5, <3>2
        <5> QED
          BY <5>1
      <4>2. j \in 1 .. Len(c2s)
        BY <1>2, <1>3
      <4> QED
        BY <1>5, <2>3, <4>1, <4>2
    <3> QED
      BY <3>1, <3>2
  <2>5. ASSUME NEW i \in 1 .. Len(c2s')
        PROVE  c2s'[i] = [of |-> "request", id |-> R, pos |-> Len(b) + i]
    <3>1. i \in 1 .. Len(c2s) - k
      BY <1>5
    <3>2. PICK j \in 1 .. Len(c2s) : j = k + i /\ Len(buf) + j = Len(b) + i
      <4>1. Len(b) = Len(buf) + k
        BY <1>5
      <4> QED
        BY <1>2, <1>3, <3>1, <4>1
    <3>3. c2s'[i] = c2s[j]
      BY <1>5, <3>1, <3>2
    <3>4. c2s[j] = [of |-> "request", id |-> R, pos |-> Len(buf) + j]
      BY <2>3
    <3> QED
      BY <3>2, <3>3, <3>4
  <2>6. id = R
    <3>1. b[1] = [of |-> "request", id |-> R, pos |-> 1]
      BY <1>6, <2>4
    <3> QED
      BY <1>7, <3>1
  <2>7. Len(b) + Len(c2s') = len + Overhead
    BY <1>2, <1>3, <1>5, <1>8, <2>3, <2>6 DEF Overhead
  <2> QED
    BY <2>1, <2>2, <2>4, <2>5, <2>6, <2>7
<1>14. Len(c2s') \in Nat /\ Len(buf') \in Nat
  BY <1>2, <1>3, <1>5, <1>6, <1>10, <1>11
<1>15. HandledInOrder /\ Told(now) /\ (~eager => OneAtATime(now))
  BY <1>20 DEF Core
<1>19. /\ UNCHANGED <<sent, reqs, gone, got, replies, apiGot, eager, broke, sweep>>
       /\ sent' \in Nat /\ sent' <= BufLen
  <2>1. UNCHANGED <<sent, reqs, gone, got, replies, apiGot, eager, broke, sweep>>
    BY <1>1
  <2> QED
    BY <1>2, <1>4, <2>1
\* The frame is incomplete, or complete and empty.
<1>16. CASE /\ check = "more" \/ n = 0
            /\ Posted("zero")
            /\ UNCHANGED handled
  <2>1. Types' /\ Fits("zero")'
    BY <1>2, <1>12, <1>16, <1>19 DEF Types, Fits
  <2>2. Counters("zero")'
    BY <1>1, <1>2, <1>4, <1>5, <1>11, <1>12 DEF Counters, Receiving, Serving, Calling
  <2>3. Told("zero")'
    BY <1>1, <1>15, <1>16, <1>20 DEF Told, Arrived, Receiving, Serving, Calling
  <2>4. ASSUME ~eager' PROVE OneAtATime("zero")'
    <3>0. ~eager /\ reqs' = reqs /\ handled' = handled
      BY <1>1, <1>16, <2>4
    <3>1. H <= R /\ H = R - 1 /\ id = R /\ reqs[R].len = len
      BY <1>2, <1>8, <1>13, <3>0
    <3>2. CASE check = "more"
      <4>1. Len(buf') = Len(b) /\ Len(b) < len + Overhead
        BY <1>9, <1>10, <1>11, <3>2
      <4>2. \A i \in 1 .. Len(b) : buf'[i] = [of |-> "request", id |-> R, pos |-> i]
        BY <1>11, <1>13, <3>0, <4>1
      <4>3. /\ Len(b) + Len(c2s') = len + Overhead
            /\ \A i \in 1 .. Len(c2s') : c2s'[i] =
                  [of |-> "request", id |-> R, pos |-> Len(b) + i]
        BY <1>13, <3>0
      <4>4. Partly'
        BY <3>0, <3>1, <4>1, <4>2, <4>3 DEF Partly
      <4> QED
        BY <3>0, <3>1, <4>4 DEF OneAtATime, Receiving, Serving, Calling
    <3>3. CASE check = "whole" /\ n = 0
      <4>1. len = 0 /\ Len(b) >= len + Overhead
        BY <1>6, <1>9, <1>10, <3>3 DEF Overhead
      <4>2. Len(buf') = 0 /\ Len(c2s') = 0
        BY <1>6, <1>11, <1>13, <1>14, <3>0, <3>3, <4>1 DEF Overhead
      <4>3. buf' = <<>> /\ c2s' = <<>>
        BY <1>5, <1>11, <4>2, EmptySeq
      <4> QED
        BY <3>0, <3>1, <4>1, <4>3 DEF OneAtATime, Receiving, Serving, Calling
    <3>4. ~(check = "bad" /\ n = 0)
      BY <1>6, <1>10
    <3> QED
      BY <1>9, <1>16, <3>2, <3>3, <3>4
  <2>5. HandledInOrder'
    BY <1>1, <1>15, <1>16 DEF HandledInOrder
  <2>6. Core("zero")'
    BY <2>1, <2>2, <2>3, <2>4, <2>5 DEF Core
  <2> QED
    BY <1>2, <1>16, <1>19, <2>6, PostInv DEF Phases
\* The frame is refused.
<1>17. CASE check = "bad" /\ Close("bad frame") /\ UNCHANGED handled
  <2>0. phase' = "closed" /\ why' = "bad frame" /\ handled' = handled
    BY <1>17 DEF Close
  <2>1. Types' /\ Fits("closed")'
    BY <1>2, <1>12, <1>19, <2>0 DEF Types, Fits
  <2>2. Counters("closed")'
    BY <1>1, <1>2, <1>5, <1>12 DEF Counters, Receiving, Serving, Calling
  <2>3. Told("closed")'
    BY <1>1, <1>15, <2>0 DEF Told, Arrived, Receiving, Serving, Calling
  <2>4. ASSUME ~eager' PROVE OneAtATime("closed")'
    <3>1. H <= R
      BY <1>1, <1>15, <2>4 DEF OneAtATime
    <3> QED
      BY <1>1, <2>0, <3>1 DEF OneAtATime, Receiving, Serving, Calling
  <2>5. ASSUME ~eager' PROVE \E i \in DOMAIN reqs : ~Good(reqs[i])
    <3>1. ~eager /\ 2 <= Len(b)
      BY <1>1, <1>9, <1>17, <2>5
    <3>2. 1 \in 1 .. Len(b) /\ 2 \in 1 .. Len(b)
      BY <1>6, <3>1
    <3>3. b[1].pos = 1 /\ b[2].pos = 2
      <4>1. /\ b[1] = [of |-> "request", id |-> R, pos |-> 1]
            /\ b[2] = [of |-> "request", id |-> R, pos |-> 2]
        BY <1>13, <3>1, <3>2
      <4> QED
        BY <4>1
    <3>4. ~Good(reqs[id])
      BY <1>9, <1>17, <3>3
    <3>5. id \in DOMAIN reqs
      BY <1>2, LenProperties DEF Types
    <3> QED
      BY <3>4, <3>5
  <2>6. HandledInOrder'
    BY <1>1, <1>15, <2>0 DEF HandledInOrder
  <2>7. Core("closed")'
    BY <2>1, <2>2, <2>3, <2>4, <2>6 DEF Core
  <2>8. Cause("bad frame")' /\ "bad frame" \in Reasons \ {"open"}
    BY <1>1, <2>5 DEF Cause, Reasons
  <2> QED
    BY <2>0, <2>7, <2>8, CloseInv DEF Phases
\* The request is whole.
<1>18. CASE /\ check = "whole" /\ n > 0
            /\ phase' = "process"
            /\ handled' = Append(handled, b[1].id)
            /\ UNCHANGED why
  <2>1. /\ phase' = "process" /\ handled' = Append(handled, id) /\ why' = why
        /\ id \in 1 .. MaxRequests
    BY <1>2, <1>7, <1>18
  <2>2. /\ handled \in Seq(1 .. MaxRequests) /\ handled' \in Seq(1 .. MaxRequests)
        /\ Len(handled') = H + 1 /\ handled'[H + 1] = id
        /\ \A i \in 1 .. H : handled'[i] = handled[i]
    BY <1>2, <2>1, AppendProperties DEF Types
  <2>3. Len(handled') - 1 = H /\ Len(handled') # 0 /\ handled' # <<>>
    BY <1>2, <2>2, EmptySeq
  <2>4. Types' /\ Fits("process")'
    BY <1>2, <1>12, <1>19, <2>2 DEF Types, Fits
  <2>5. Counters("process")'
    BY <1>1, <1>2, <1>4, <1>5, <1>12, <2>3 DEF Counters, Receiving, Serving, Calling
  <2>6. Told("process")'
    <3>1. /\ Len(replies) = H /\ Len(replies) <= H + 1
          /\ Len(got) <= EndOf(replies)
          /\ ~broke => Len(got) = EndOf(replies)
      BY <1>2, <1>15, <1>20 DEF Told
    <3>2. ASSUME ~broke, NEW j \in 1 .. Len(replies), replies[j].len <= BufLen,
                 NEW p \in 1 .. replies[j].len
          PROVE  Arrived(j, p)'
      <4>1. Arrived(j, p)
        BY <1>15, <3>2 DEF Told
      <4>2. handled'[j] = handled[j]
        BY <2>2, <3>1
      <4> QED
        BY <1>1, <4>1, <4>2 DEF Arrived
    <3> QED
      BY <1>1, <1>15, <2>2, <2>3, <3>1, <3>2 DEF Told, Receiving, Serving, Calling
  <2>7. ASSUME ~eager' PROVE OneAtATime("process")' /\ HandledInOrder'
    <3>1. ~eager /\ reqs' = reqs
      BY <1>1, <2>7
    <3>2. id = R /\ H + 1 = R /\ H = R - 1 /\ R \in Nat
      BY <1>2, <1>13, <3>1
    <3>3. Len(c2s') = 0
      <4>1. len + Overhead <= Len(b) /\ Len(b) + Len(c2s') = len + Overhead
        BY <1>9, <1>13, <1>18, <3>1
      <4> QED
        BY <1>6, <1>14, <4>1 DEF Overhead
    <3>4. c2s' = <<>>
      BY <1>5, <3>3, EmptySeq
    <3>5. OneAtATime("process")'
      BY <2>2, <3>1, <3>2, <3>4 DEF OneAtATime, Receiving, Serving, Calling
    <3>6. DOMAIN handled = 1 .. H /\ DOMAIN handled' = 1 .. H + 1
      BY <2>2, LenProperties
    <3>7. \A i \in 1 .. H : handled[i] = i /\ Good(reqs[i])
      BY <1>15, <3>1, <3>6 DEF HandledInOrder
    <3>8. handled'[H + 1] = H + 1 /\ Good(reqs[H + 1])
      BY <1>9, <1>18, <2>2, <3>2
    <3>9. ASSUME NEW i \in 1 .. H + 1 PROVE handled'[i] = i /\ Good(reqs[i])
      <4>1. CASE i = H + 1
        BY <3>8, <4>1
      <4>2. CASE i # H + 1
        <5>1. i \in 1 .. H
          BY <1>2, <4>2
        <5> QED
          BY <2>2, <3>7, <5>1
      <4> QED
        BY <4>1, <4>2
    <3>10. HandledInOrder'
      BY <3>1, <3>6, <3>9 DEF HandledInOrder
    <3> QED
      BY <3>5, <3>10
  <2>8. HandledInOrder'
    BY <2>7 DEF HandledInOrder
  <2>9. Core("process")'
    BY <2>4, <2>5, <2>6, <2>7, <2>8 DEF Core
  <2> QED
    BY <1>2, <2>1, <2>9, StepInv DEF Phases
<1> QED
  BY <1>1, <1>16, <1>17, <1>18

\* The first bytes arrive with the accept, later ones where the buffer has space.
LEMMA ReceiveInv == IInv /\ (AcceptCompSuccess \/ RecvCompSuccess) => IInv'
<1> SUFFICES ASSUME IInv, AcceptCompSuccess \/ RecvCompSuccess PROVE IInv'
  OBVIOUS
<1>1. BufLen \in Nat /\ AcceptLen \in Nat /\ AcceptLen <= BufLen /\ Len(buf) \in Nat
  BY Numbers, ExchangeAssumption
<1>2. CASE AcceptCompSuccess
  <2>1. phase = "accept" /\ Core("accept")
    BY <1>2, Here DEF AcceptCompSuccess, Phases
  <2>2. buf = <<>>
    BY <2>1 DEF Core, Counters
  <2>3. Len(buf) + AcceptLen <= BufLen
    BY <1>1, <2>2, EmptySeq
  <2>4. CASE Received(AcceptLen)
    BY <1>1, <2>1, <2>3, <2>4, ReceivedInv DEF Receiving
  <2>5. CASE /\ CallFails
             /\ UNCHANGED <<buf, sent, others, got, handled, replies, apiGot, broke>>
    <3>1. Types
      BY Numbers
    <3>2. Core("accept")'
      BY <2>1, <2>5, <3>1, Same DEF others, Types
    <3> QED
      BY <2>5, <3>2, FailInv DEF others, Phases
  <2> QED
    BY <1>2, <2>4, <2>5 DEF AcceptCompSuccess
<1>3. CASE RecvCompSuccess
  <2>1. phase = "recv" /\ Len(buf) < BufLen /\ Received(BufLen - Len(buf))
    BY <1>3 DEF RecvCompSuccess, Recved
  <2>2. PICK space \in Nat : space = BufLen - Len(buf)
    BY <1>1, <2>1
  <2>3. Len(buf) + space <= BufLen
    BY <1>1, <2>2
  <2> QED
    BY <2>1, <2>2, <2>3, ReceivedInv DEF Receiving
<1> QED
  BY <1>2, <1>3

\* A step that leaves all but the phase alone hangs up for a cause, or because
\* the socket is cut off.
LEMMA EndInv ==
    ASSUME IInv, UNCHANGED <<buf, sent, others, got, handled, replies, apiGot, broke>>,
           \/ CutOff
           \/ \E r \in Reasons \ {"open"} : Close(r) /\ Cause(r)'
    PROVE  IInv'
<1> USE DEF others
<1>1. PICK ph \in Phases : phase = ph
  BY DEF IInv
<1>2. Core(ph) /\ Types
  BY <1>1, Here, Numbers
<1>3. Core(ph)'
  BY <1>2, Same DEF Types
<1>4. CASE \E r \in Reasons \ {"open"} : Close(r) /\ Cause(r)'
  BY <1>3, <1>4, CloseInv DEF Close
<1>5. CASE gone /\ Close("peer")
  <2>1. Cause("peer")' /\ "peer" \in Reasons \ {"open"}
    BY <1>5 DEF Cause, Reasons
  <2> QED
    BY <1>3, <1>5, <2>1, CloseInv DEF Close
<1>6. CASE CallFails
  BY <1>3, <1>6, FailInv
<1> QED
  BY <1>4, <1>5, <1>6 DEF CutOff

\* A command ends without a reply and without a request posted.
LEMMA StallInv ==
    ASSUME IInv, phase \in Serving, phase' = "stalled", why' = why,
           UNCHANGED <<buf, sent, others, got, handled, replies, apiGot, broke>>
    PROVE  IInv'
<1> USE DEF others
<1>1. PICK ph \in Serving : phase = ph /\ ph \in Phases
  BY DEF Serving, Calling, Phases
<1>2. Core(ph) /\ Types
  BY <1>1, Here, Numbers
<1>3. Core(ph)'
  BY <1>2, Same DEF Types
<1>4. Types' /\ HandledInOrder'
  BY <1>3 DEF Core
<1>5. Fits("stalled")' /\ Counters("stalled")'
  BY <1>3 DEF Core, Fits, Counters, Receiving, Serving, Calling
<1>6. Told("stalled")' /\ (~eager' => OneAtATime("stalled")')
  BY <1>3 DEF Core, Told, OneAtATime, Receiving, Serving, Calling
<1>7. Core("stalled")'
  BY <1>4, <1>5, <1>6 DEF Core
<1>8. phase # "closed" /\ "stalled" \in Phases \ {"closed"}
  BY DEF Serving, Calling, Phases
<1> QED
  BY <1>7, <1>8, StepInv

\* The server hangs up, or does nothing for an unknown command.
LEMMA HangUpInv ==
    ASSUME IInv, \/ AcceptCompFailed \/ RecvZeroCompFailed \/ RecvCompFailed
                 \/ SendCompFailed \/ CommandUnknown
    PROVE  IInv'
<1>1. CASE AcceptCompFailed \/ RecvZeroCompFailed
  BY <1>1, EndInv DEF AcceptCompFailed, RecvZeroCompFailed
<1>2. CASE RecvCompFailed
  <2>1. /\ phase = "recv"
        /\ UNCHANGED <<buf, sent, others, got, handled, replies, apiGot, broke>>
    BY <1>2 DEF RecvCompFailed
  <2>2. CASE CutOff
    BY <2>1, <2>2, EndInv
  <2>3. CASE Recved = BufLen /\ Close("full")
    <3>1. ASSUME ~eager PROVE \E i \in DOMAIN reqs : reqs[i].len + Overhead > BufLen
      <4>1. /\ BufLen \in Nat \ {0} /\ Len(reqs) \in Nat /\ Len(handled) \in Nat
            /\ reqs \in Seq([len : FrameLens, cmd : Kinds]) /\ DOMAIN reqs = 1 .. Len(reqs)
        BY Numbers, LenProperties DEF Types
      <4>2. Len(buf) = BufLen /\ buf # <<>>
        BY <2>3, <4>1, EmptySeq DEF Recved
      <4>3. Core("recv")
        BY <2>1, Here DEF Phases
      <4>4. Len(handled) = Len(reqs) - 1 /\ Partly
        BY <3>1, <4>2, <4>3 DEF Core, OneAtATime, Receiving
      <4>5. Len(reqs) \in DOMAIN reqs
        BY <4>1, <4>4
      <4>6. PICK x \in [len : FrameLens, cmd : Kinds] : x = reqs[Len(reqs)]
        BY <4>1, <4>5, ElementOfSeq
      <4>7. x.len \in Nat /\ Len(buf) < x.len + Overhead
        BY <4>4, <4>6, ExchangeAssumption DEF Partly
      <4>8. x.len + Overhead > BufLen
        BY <4>1, <4>2, <4>7 DEF Overhead
      <4> QED
        BY <4>5, <4>6, <4>8
    <3>2. Cause("full")' /\ "full" \in Reasons \ {"open"}
      BY <2>1, <3>1 DEF Cause, Reasons, others
    <3> QED
      BY <2>1, <2>3, <3>2, EndInv
  <2> QED
    BY <1>2, <2>2, <2>3 DEF RecvCompFailed
<1>3. CASE SendCompFailed
  <2>1. /\ phase = "send"
        /\ UNCHANGED <<buf, sent, others, got, handled, replies, apiGot, broke>>
    BY <1>3 DEF SendCompFailed
  <2>2. CASE CutOff
    BY <2>1, <2>2, EndInv
  <2>3. CASE sent >= Recved /\ Close("miscount")
    <3>1. broke
      BY <2>1, <2>3, Miscounted DEF Recved
    <3>2. Cause("miscount")' /\ "miscount" \in Reasons \ {"open"}
      BY <2>1, <3>1 DEF Cause, Reasons
    <3> QED
      BY <2>1, <2>3, <3>2, EndInv
  <2> QED
    BY <1>3, <2>2, <2>3 DEF SendCompFailed
<1>4. CASE CommandUnknown
  BY <1>4, StallInv DEF CommandUnknown, Serving
<1> QED
  BY <1>1, <1>2, <1>3, <1>4

\* Every way to a reply goes through DealTail; the members of a pool have none.
LEMMA AnswerInv == IInv /\ (CommandReplies \/ DoReturnData \/ ApiCallFails) => IInv'
<1> SUFFICES ASSUME IInv, CommandReplies \/ DoReturnData \/ ApiCallFails PROVE IInv'
  OBVIOUS
<1>1. CASE /\ CommandReplies \/ DoReturnData
           /\ DealTail
  <2>1. /\ phase \in {"process", "respond"}
        /\ UNCHANGED <<sent, others, got, handled, apiGot>> /\ broke' = broke
    BY <1>1 DEF CommandReplies, DoReturnData
  <2>2. Core(phase) /\ Types
    BY Numbers DEF IInv
  <2>3. sent = 0 /\ phase \in Serving /\ broke \in BOOLEAN
    BY <2>1, <2>2 DEF Core, Types, Counters, Serving, Calling
  <2>4. ~(sent > 0)
    BY <2>3
  <2>5. broke' = (broke \/ sent > 0)
    BY <2>1, <2>3, <2>4, Zenon
  <2> QED
    BY <1>1, <2>1, <2>3, <2>5, ReplyInv
<1>2. CASE DoReturnData /\ ~DealTail
  BY <1>2, StallInv DEF DoReturnData, Serving
<1>3. CASE ApiCallFails
  <2>1. /\ phase \in Serving /\ DealTail /\ broke' = (broke \/ sent > 0)
        /\ UNCHANGED <<sent, others, got, handled, apiGot>>
    BY <1>3 DEF ApiCallFails, API_Failed, Serving, Calling
  <2> QED
    BY <2>1, ReplyInv
<1>4. CommandReplies => DealTail
  BY DEF CommandReplies
<1> QED
  BY <1>1, <1>2, <1>3, <1>4

\* The API call: its request goes out, its answer comes in.
LEMMA ApiInv ==
    ASSUME IInv, \/ doApi \/ API_ConnectCompSuccess \/ API_SendCompSuccess
                 \/ API_RecvZeroCompSuccess \/ ApiAnswerArrives \/ ApiAnswerEnds
    PROVE  IInv'
<1>00. PICK now \in Serving : phase = now
  BY DEF doApi, API_ConnectCompSuccess, API_SendCompSuccess, API_RecvZeroCompSuccess,
         ApiAnswerArrives, ApiAnswerEnds, Serving, Calling
<1>01. Core(now)
  BY <1>00, Here DEF Serving, Calling, Phases
<1>0. /\ buf \in Seq(Bytes) /\ Len(buf) \in Nat /\ Len(buf) <= BufLen
      /\ sent \in 0 .. BufLen /\ apiGot \in 0 .. ApiAnsLen
      /\ BufLen \in Nat /\ ApiReqLen \in Nat /\ ApiAnsLen \in Nat /\ ApiReqLen <= BufLen
  <2>1. Len(buf) <= BufLen
    BY <1>01 DEF Core, Fits, Serving, Calling
  <2>2. /\ Types /\ Len(buf) \in Nat /\ BufLen \in Nat
        /\ ApiReqLen \in Nat /\ ApiAnsLen \in Nat /\ ApiReqLen <= BufLen
    BY Numbers, ExchangeAssumption
  <2> QED
    BY <2>1, <2>2 DEF Types
<1>9. phase # "api_send" => sent = 0
  BY <1>00, <1>01 DEF Core, Counters, Serving, Calling
<1>1. CASE doApi
  <2>1. /\ phase = "process" /\ phase' = "api_connect" /\ buf' = ApiBytes(ApiReqLen)
        /\ sent' = sent /\ apiGot' = 0 /\ UNCHANGED <<others, got, handled, replies, why, broke>>
    BY <1>1 DEF doApi
  <2>2. sent = 0
    BY <1>9, <2>1
  <2>3. buf' \in Seq(Bytes) /\ Len(buf') <= BufLen /\ 0 \in 0 .. ApiAnsLen
    BY <1>0, <2>1, Messages
  <2> QED
    BY <1>0, <2>1, <2>2, <2>3, ServingInv DEF Serving, Calling
<1>2. ASSUME phase \in Serving, NEW k \in Nat, sent + k <= Len(buf), ApiSent(k),
             UNCHANGED <<others, got, handled, replies, apiGot, why, broke>>
      PROVE  IInv'
  <2>1. CASE sent + k < Len(buf)
    <3>1. sent' = sent + k /\ phase' = "api_send" /\ buf' = buf
      BY <1>2, <2>1 DEF ApiSent, Recved
    <3>2. sent' \in 0 .. BufLen /\ sent' < Len(buf)
      BY <1>0, <2>1, <3>1
    <3> QED
      BY <1>0, <1>2, <3>1, <3>2, ServingInv DEF Serving, Calling
  <2>2. CASE ~(sent + k < Len(buf))
    <3>1. sent' = 0 /\ phase' = "api_zero" /\ buf' = <<>>
      BY <1>2, <2>2 DEF ApiSent, Recved
    <3>2. 0 \in 0 .. BufLen /\ <<>> \in Seq(Bytes) /\ Len(<<>>) <= BufLen
      BY <1>0, EmptySeq
    <3> QED
      BY <1>0, <1>2, <3>1, <3>2, ServingInv DEF Serving, Calling
  <2> QED
    BY <2>1, <2>2
<1>3. CASE API_ConnectCompSuccess
  <2>1. /\ phase = "api_connect"
        /\ UNCHANGED <<others, got, handled, replies, apiGot, why, broke>>
    BY <1>3 DEF API_ConnectCompSuccess
  <2>2. PICK k \in 1 .. Len(buf) : ApiSent(k)
    BY <1>3 DEF API_ConnectCompSuccess, Recved
  <2>3. sent = 0
    BY <1>9, <2>1
  <2>4. k \in Nat /\ sent + k <= Len(buf)
    BY <1>0, <2>3
  <2> QED
    BY <1>2, <2>1, <2>2, <2>4 DEF Serving, Calling
<1>4. CASE API_SendCompSuccess
  <2>1. /\ phase = "api_send"
        /\ UNCHANGED <<others, got, handled, replies, apiGot, why, broke>>
    BY <1>4 DEF API_SendCompSuccess
  <2>2. PICK k \in 1 .. Len(buf) - sent : ApiSent(k)
    BY <1>4 DEF API_SendCompSuccess, Recved
  <2>3. k \in Nat /\ sent + k <= Len(buf)
    BY <1>0
  <2> QED
    BY <1>2, <2>1, <2>2, <2>3 DEF Serving, Calling
<1>5. CASE API_RecvZeroCompSuccess \/ ApiAnswerEnds
  <2>1. /\ phase \in Calling \ {"api_send"} /\ phase' \in Serving \ {"api_send"}
        /\ UNCHANGED <<buf, sent, others, got, handled, replies, apiGot, why, broke>>
    BY <1>5 DEF API_RecvZeroCompSuccess, ApiAnswerEnds, Calling, Serving
  <2>2. sent = 0 /\ phase \in Serving
    BY <1>9, <2>1 DEF Serving
  <2> QED
    BY <1>0, <2>1, <2>2, ServingInv
<1>6. CASE ApiAnswerArrives
  <2>1. /\ phase = "api_recv" /\ phase' = "api_zero"
        /\ UNCHANGED <<sent, others, got, handled, replies, why, broke>>
    BY <1>6 DEF ApiAnswerArrives
  <2>2. PICK k \in Upto(ApiAnsLen - apiGot, BufLen - Len(buf)) :
          /\ buf' = buf \o [i \in 1 .. k |-> [of |-> "api", id |-> 1, pos |-> apiGot + i]]
          /\ apiGot' = apiGot + k
    BY <1>6 DEF ApiAnswerArrives, Recved
  <2>3. k \in Nat /\ apiGot + k <= ApiAnsLen /\ Len(buf) + k <= BufLen
    BY <1>0 DEF Upto
  <2>4. PICK part \in Seq(Bytes) :
          /\ part = [i \in 1 .. k |-> [of |-> "api", id |-> 1, pos |-> apiGot + i]]
          /\ Len(part) = k
    <3>1. ASSUME NEW i \in 1 .. k
          PROVE  [of |-> "api", id |-> 1, pos |-> apiGot + i] \in Bytes
      BY <1>0, <2>3 DEF Bytes
    <3> DEFINE p == [i \in 1 .. k |-> [of |-> "api", id |-> 1, pos |-> apiGot + i]]
    <3>2. p \in [1 .. k -> Bytes]
      BY <3>1
    <3> HIDE DEF p
    <3>3. p \in Seq(Bytes) /\ Len(p) = k
      BY <2>3, <3>2
    <3> QED
      BY <3>3 DEF p
  <2>5. buf' \in Seq(Bytes) /\ Len(buf') = Len(buf) + k
    <3>1. buf' = buf \o part
      BY <2>2, <2>4, Zenon
    <3>2. buf \o part \in Seq(Bytes) /\ Len(buf \o part) = Len(buf) + Len(part)
      BY <1>0, ConcatProperties
    <3> QED
      BY <2>4, <3>1, <3>2
  <2>6. Len(buf') <= BufLen /\ apiGot' \in 0 .. ApiAnsLen
    BY <1>0, <2>2, <2>3, <2>5
  <2>7. sent = 0
    BY <1>9, <2>1
  <2> QED
    BY <1>0, <2>1, <2>5, <2>6, <2>7, ServingInv DEF Serving, Calling
<1> QED
  BY <1>1, <1>3, <1>4, <1>5, <1>6

\* Every step of the connection keeps the invariant.
LEMMA NextInv == IInv /\ [Next]_vars => IInv'
<1> SUFFICES ASSUME IInv, [Next]_vars PROVE IInv'
  OBVIOUS
<1>1. CASE \E n \in FrameLens, cmd \in Kinds : ClientSends(n, cmd)
  BY <1>1, ClientInv
<1>2. CASE ClientCloses \/ SweepLooks \/ SweepCloses
  BY <1>2, ClosesInv
<1>3. CASE Server
  <2>1. CASE AcceptCompSuccess \/ RecvCompSuccess
    BY <2>1, ReceiveInv
  <2>2. CASE \/ AcceptCompFailed \/ RecvZeroCompFailed \/ RecvCompFailed
             \/ SendCompFailed \/ CommandUnknown
    BY <2>2, HangUpInv
  <2>3. CASE RecvZeroCompSuccess
    BY <2>3, ZeroInv
  <2>4. CASE CommandReplies \/ DoReturnData \/ ApiCallFails
    BY <2>4, AnswerInv
  <2>5. CASE SendCompSuccess
    BY <2>5, SendInv
  <2>6. CASE SendBeyond
    BY <2>6, BeyondInv
  <2>7. CASE \/ doApi \/ API_ConnectCompSuccess \/ API_SendCompSuccess
             \/ API_RecvZeroCompSuccess \/ ApiAnswerArrives \/ ApiAnswerEnds
    BY <2>7, ApiInv
  <2> QED
    BY <1>3, <2>1, <2>2, <2>3, <2>4, <2>5, <2>6, <2>7 DEF Server
<1>4. CASE UNCHANGED vars
  <2>0. UNCHANGED <<phase, buf, sent, c2s, reqs, gone, got, handled, replies, apiGot, why,
                    eager, broke, sweep>>
    BY <1>4 DEF vars
  <2>1. PICK ph \in Phases : phase = ph /\ Core(ph) /\ Types
    BY Numbers DEF IInv
  <2>2. Core(ph)'
    BY <2>0, <2>1, Same DEF Types
  <2>3. HangsUpForCause'
    BY <2>0 DEF IInv, HangsUpForCause, Overrun
  <2>4. phase' = ph /\ why' \in Reasons
    BY <2>0, <2>1 DEF IInv
  <2> QED
    BY <2>2, <2>3, <2>4 DEF IInv
<1> QED
  BY <1>1, <1>2, <1>3, <1>4 DEF Next
-----------------------------------------------------------------------------
(* The theorems *)

\* The counters, the buffer and the stream fit together in every state.
THEOREM Invariance == Spec => []IInv
BY InitInv, NextInv, PTL DEF Spec

(***************************************************************************)
(* Type correctness, for replies of any length: what the client and the    *)
(* API send never passes the end of the buffer, nor does the request to    *)
(* the API.  Only a reply that is itself longer than the buffer does,      *)
(* which DealTail does not look at.                                        *)
(***************************************************************************)
THEOREM TypeCorrect == Spec => []TypeOK
<1>1. ASSUME IInv PROVE TypeOK
  <2>1. PICK ph \in Phases : phase = ph /\ Core(ph)
    BY <1>1 DEF IInv
  <2>2. Types /\ Fits(ph) /\ why \in Reasons
    BY <1>1, <2>1 DEF Core, IInv
  <2> QED
    BY <2>1, <2>2 DEF TypeOK, Types, Fits, Recved, ReplyRec
<1> QED
  BY <1>1, Invariance, PTL

(***************************************************************************)
(* The client receives one reply for each request handled, in order, and   *)
(* every reply that fits in the buffer whole, unless an API request was    *)
(* cut off half sent.                                                      *)
(***************************************************************************)
THEOREM WholeRepliesOnly == Spec => []RepliesWhole
<1>1. ASSUME IInv PROVE RepliesWhole
  <2>1. PICK ph \in Phases : phase = ph /\ Core(ph) /\ Types
    BY <1>1, Numbers DEF IInv
  <2>2. DOMAIN replies = 1 .. Len(replies)
    BY <2>1, LenProperties DEF Types
  <2> QED
    BY <2>1, <2>2 DEF Core, Told, RepliesWhole
<1> QED
  BY <1>1, Invariance, PTL

(***************************************************************************)
(* A client that waits for each reply has its requests handled one by one, *)
(* in order, none twice and none skipped, and only well formed ones.       *)
(***************************************************************************)
THEOREM InOrder == Spec => []HandledInOrder
<1>1. IInv => HandledInOrder
  BY DEF IInv, Core
<1> QED
  BY <1>1, Invariance, PTL

(***************************************************************************)
(* Where a call on the socket may fail at any time and the sweep may close *)
(* the socket, these two, a client that is gone and a reply longer than    *)
(* the buffer are the only ways in which a connection ends that are not of *)
(* the making of a waiting client's request, unless an API request was cut *)
(* off half sent.                                                          *)
(***************************************************************************)
THEOREM ForCauseOnly == Spec => []HangsUpForCause
<1>1. IInv => HangsUpForCause
  BY DEF IInv
<1> QED
  BY <1>1, Invariance, PTL
=============================================================================
