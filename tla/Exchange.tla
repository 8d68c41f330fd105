------------------------------ MODULE Exchange ------------------------------
(***************************************************************************)
(* One client connection of the command port, byte by byte: how requests   *)
(* are cut out of the TCP stream (CheckRecvdata), how the one BUFFER_OBJ   *)
(* of the connection is filled, handed to ProcessCommand, used for the     *)
(* request and the answer of an outgoing API call, and sent as the reply.  *)
(* The buffer's two counters dwRecvedCount and dwSendedCount serve all of  *)
(* these, which is what can go wrong.                                      *)
(*                                                                         *)
(* A byte is known by the message it belongs to and its position in it; a  *)
(* command does no more here than choose its reply.  ConnIO models who     *)
(* runs these steps; on one connection they never overlap (BufferOwnership *)
(* there), so each handler is one step here.                               *)
(***************************************************************************)
EXTENDS Naturals, Sequences, SequencesExt

CONSTANTS
    BufLen,       \* datalen
    AcceptLen,    \* bytes AcceptEx may put in the buffer
    FrameLens,    \* payload lengths of the client's requests
    ReplyLens,    \* lengths of the replies, which nothing limits
    ApiReqLen,    \* length of a request to the API
    ApiAnsLen,    \* length of the API's answer
    MaxRequests   \* bound: requests the client sends on the connection

ASSUME ExchangeAssumption ==
    /\ {BufLen, AcceptLen, ApiReqLen, ApiAnsLen, MaxRequests} \subseteq Nat \ {0}
    /\ ReplyLens \subseteq Nat \ {0}
    /\ FrameLens \subseteq Nat
    /\ AcceptLen <= BufLen     \* PostAcceptEx asks for less than datalen
    /\ ApiReqLen <= BufLen     \* _stprintf_s writes no more than datalen

VARIABLES
    phase,    \* the request posted on the connection, or what the server does
    buf,      \* data[0 .. dwRecvedCount - 1]
    sent,     \* dwSendedCount
    c2s,      \* bytes of the client that the server has not received
    reqs,     \* the requests the client sent
    replies,  \* the replies packed: how long, and from where in the stream
    gone,     \* the client's end is closed or lost
    got,      \* bytes the client received
    handled,  \* the requests ProcessCommand was given
    apiGot,   \* bytes of its answer the API has sent in this call
    why,      \* why the server closed the connection
    eager,    \* the client sent a request before it had the last reply
    broke,    \* an API request was cut off half sent
    sweep     \* the main thread's sweep: it saw the connection, closed its socket

vars == <<phase, buf, sent, c2s, reqs, gone, got, handled, replies, apiGot, why,
          eager, broke, sweep>>
others == <<c2s, reqs, gone, eager, sweep>>

Phases == {"accept", "zero", "recv", "process", "send", "api_connect",
           "api_send", "api_zero", "api_recv", "respond", "closed", "stalled"}

Reasons == {"open", "bad frame", "full", "peer", "miscount", "local", "swept", "crash"}

\* What a request asks for, as far as it decides whether a reply is sent.
Kinds == {"malformed", "unknown", "members", "other"}
Good(r) == r.cmd # "malformed"

HeadLen == 6        \* 0xfb 0xfc and the 4 length bytes
Overhead == 8       \* the head, the checksum and 0x0d

Upto(n, m) == 1 .. (IF n < m THEN n ELSE m)

\* The bytes of a message.
RequestBytes(id, n) == [i \in 1 .. n + Overhead |-> [of |-> "request", id |-> id, pos |-> i]]
ReplyBytes(id, n) == [i \in 1 .. n |-> [of |-> "reply", id |-> id, pos |-> i]]
ApiBytes(n) == [i \in 1 .. n |-> [of |-> "api", id |-> 0, pos |-> i]]
Junk == [of |-> "junk", id |-> 0, pos |-> 0]

Recved == Len(buf)

\* Where the replies s end in the stream to the client.
EndOf(s) == IF s = <<>> THEN 0 ELSE Last(s).from + Last(s).len

Close(reason) == phase' = "closed" /\ why' = reason

\* A call on the socket fails: by itself, or because the sweep has closed it.
CallFails == Close(IF sweep = "closed" THEN "swept" ELSE "local")

\* The next request is posted on the client's socket, or that fails.
Posted(next) ==
    \/ sweep # "closed" /\ phase' = next /\ UNCHANGED why
    \/ CallFails

\* What makes a pending request on the client's socket fail.
CutOff ==
    \/ gone /\ Close("peer")
    \/ sweep = "closed" /\ CallFails

Init ==
    /\ phase = "accept"
    /\ buf = <<>> /\ sent = 0
    /\ c2s = <<>> /\ reqs = <<>> /\ gone = FALSE
    /\ got = <<>> /\ handled = <<>> /\ replies = <<>> /\ apiGot = 0
    /\ why = "open" /\ eager = FALSE /\ broke = FALSE /\ sweep = "none"

-----------------------------------------------------------------------------
(* The client, and the main thread *)

\* The client has its replies when one arrived whole for every request.  What it
\* does after the server has hung up is not received any more.
ClientSends(n, cmd) ==
    /\ ~gone /\ phase # "closed"
    /\ Len(reqs) < MaxRequests
    /\ reqs' = Append(reqs, [len |-> n, cmd |-> cmd])
    /\ c2s' = c2s \o RequestBytes(Len(reqs) + 1, n)
    /\ eager' = (eager \/ Len(replies) # Len(reqs) \/ Len(got) < EndOf(replies))
    /\ UNCHANGED <<phase, buf, sent, gone, got, handled, replies, apiGot, why, broke, sweep>>

ClientCloses ==
    /\ ~gone /\ phase # "closed"
    /\ gone' = TRUE
    /\ UNCHANGED <<phase, buf, sent, c2s, reqs, got, handled, replies, apiGot, why,
                   eager, broke, sweep>>

(***************************************************************************)
(* With many accepts pending, the main thread looks for clients that have  *)
(* been connected for a minute and sent nothing, and closes their sockets. *)
(* It holds nothing between the look and the close: the first bytes may    *)
(* arrive in between and the connection be well under way.                 *)
(***************************************************************************)
SweepLooks ==
    /\ phase = "accept"
    /\ sweep = "none"
    /\ sweep' = "looked"
    /\ UNCHANGED <<phase, buf, sent, c2s, reqs, gone, got, handled, replies, apiGot, why,
                   eager, broke>>

SweepCloses ==
    /\ sweep = "looked"
    /\ phase # "closed"
    /\ sweep' = "closed"
    /\ UNCHANGED <<phase, buf, sent, c2s, reqs, gone, got, handled, replies, apiGot, why,
                   eager, broke>>

-----------------------------------------------------------------------------
(* Receiving *)

\* Faulty variant: the frame counts as complete before its end mark arrived.
CheckRecvdataEarly(b) ==
    IF Len(b) < HeadLen THEN "more"
    ELSE IF b[1].pos # 1 \/ b[2].pos # 2 THEN "bad"
    ELSE LET frame == reqs[b[1].id]
         IN IF frame.len + Overhead > Len(b) + 1 THEN "more"
            ELSE IF Good(frame) /\ Len(b) >= frame.len + Overhead THEN "whole" ELSE "bad"

(***************************************************************************)
(* CheckRecvdata: the head, the length, the checksum and the end mark.     *)
(* The buffer starts with the start of a request or with the middle of one *)
(* whose start was thrown away.                                            *)
(***************************************************************************)
CheckRecvdata(b) ==
    IF Len(b) < HeadLen THEN "more"
    ELSE IF b[1].pos # 1 \/ b[2].pos # 2 THEN "bad"
    ELSE LET frame == reqs[b[1].id]
         IN IF frame.len + Overhead > Len(b) THEN "more"
            ELSE IF Good(frame) THEN "whole" ELSE "bad"

(***************************************************************************)
(* Bytes arrive in the space the request left for them.  A whole request   *)
(* goes to ProcessCommand, which copies its payload out; dwRecvedCount     *)
(* becomes the payload's length and whatever the buffer holds beyond is    *)
(* not looked at again.  A request without payload has the length 0, which *)
(* reads as "more to come".                                                *)
(***************************************************************************)
Received(space) ==
    \E k \in Upto(Len(c2s), space) :
        LET b == buf \o SubSeq(c2s, 1, k)
            check == CheckRecvdata(b)
            n == IF check = "whole" THEN reqs[b[1].id].len ELSE Len(b)
        IN /\ c2s' = SubSeq(c2s, k + 1, Len(c2s))
           /\ buf' = SubSeq(b, 1, n)
           /\ \/ /\ check = "more" \/ n = 0
                 /\ Posted("zero")
                 /\ UNCHANGED handled
              \/ /\ check = "bad"
                 /\ Close("bad frame")
                 /\ UNCHANGED handled
              \/ /\ check = "whole" /\ n > 0
                 /\ phase' = "process"
                 /\ handled' = Append(handled, b[1].id)
                 /\ UNCHANGED why
           /\ UNCHANGED <<sent, reqs, gone, got, replies, apiGot, eager, broke, sweep>>

\* AcceptEx completes with the first bytes; CreateIoCompletionPort may fail then.
AcceptCompSuccess ==
    /\ phase = "accept"
    /\ \/ sweep # "closed" /\ Received(AcceptLen)
       \/ /\ c2s # <<>>
          /\ CallFails
          /\ UNCHANGED <<buf, sent, others, got, handled, replies, apiGot, broke>>

\* The accept fails, or completes with no bytes.
AcceptCompFailed ==
    /\ phase = "accept"
    /\ CutOff
    /\ UNCHANGED <<buf, sent, others, got, handled, replies, apiGot, broke>>

\* The zero-byte receive completes: there is data, or the client has closed.
RecvZeroCompSuccess ==
    /\ phase = "zero"
    /\ c2s # <<>> \/ gone
    /\ Posted("recv")
    /\ UNCHANGED <<buf, sent, others, got, handled, replies, apiGot, broke>>

RecvZeroCompFailed ==
    /\ phase = "zero"
    /\ CutOff
    /\ UNCHANGED <<buf, sent, others, got, handled, replies, apiGot, broke>>

RecvCompSuccess == phase = "recv" /\ Recved < BufLen /\ Received(BufLen - Recved)

\* Faulty variant: a receive of no bytes into a full buffer is tried again.
RecvCompFailedRetries ==
    /\ phase = "recv"
    /\ \/ Recved = BufLen /\ phase' = "zero" /\ UNCHANGED why
       \/ Recved < BufLen /\ CutOff
    /\ UNCHANGED <<buf, sent, others, got, handled, replies, apiGot, broke>>

\* An error or no bytes: the socket is cut off, or there was no space left for any.
RecvCompFailed ==
    /\ phase = "recv"
    /\ \/ Recved = BufLen /\ Close("full")
       \/ Recved < BufLen /\ CutOff
    /\ UNCHANGED <<buf, sent, others, got, handled, replies, apiGot, broke>>

-----------------------------------------------------------------------------
(* Replying *)

\* Faulty variant: the reply is added behind the request instead of replacing it.
DealTailAppends ==
    \E n \in ReplyLens :
        /\ replies' = Append(replies, [from |-> EndOf(replies), len |-> n])
        /\ buf' = buf \o ReplyBytes(Last(handled), n)
        /\ Posted("send")

\* What is sent of a reply: beyond the buffer it lies in memory that others use.
Copied(reply) == {reply, [i \in DOMAIN reply |-> IF i <= BufLen THEN reply[i] ELSE Junk]}

(***************************************************************************)
(* DealTail copies the reply over the buffer, sets dwRecvedCount only and  *)
(* posts the send.  It does not compare the reply's length with datalen: a *)
(* longer one runs over the memory behind the buffer, and the process may  *)
(* end there.                                                              *)
(***************************************************************************)
DealTail ==
    \E n \in ReplyLens :
        /\ replies' = Append(replies, [from |-> EndOf(replies), len |-> n])
        /\ \/ /\ buf' \in Copied(ReplyBytes(Last(handled), n))
              /\ Posted("send")
           \/ /\ n > BufLen
              /\ Close("crash")
              /\ UNCHANGED buf

\* What the command under way asks for.
Command == reqs[Last(handled)].cmd

\* A command that replies at once, with data or with an error.
CommandReplies ==
    /\ phase = "process"
    /\ Command # "unknown"
    /\ DealTail
    /\ UNCHANGED <<sent, others, got, handled, apiGot, broke>>

\* A command that no case of the switch knows: nothing is posted.
CommandUnknown ==
    /\ phase = "process"
    /\ Command = "unknown"
    /\ phase' = "stalled"
    /\ UNCHANGED <<buf, sent, others, got, handled, replies, apiGot, why, broke>>

\* Faulty variant: dwRecvedCount is not cleared for the next request.
SendCompKeepsRecved ==
    /\ phase = "send"
    /\ sent < Recved
    /\ \E k \in 1 .. Recved - sent :
         /\ got' = got \o SubSeq(buf, sent + 1, sent + k)
         /\ IF sent + k < Recved
            THEN sent' = sent + k /\ Posted("send")
            ELSE sent' = 0 /\ Posted("zero")
    /\ UNCHANGED <<buf, others, handled, replies, apiGot, broke>>

(***************************************************************************)
(* PostSend asks for dwRecvedCount - dwSendedCount bytes from              *)
(* dwSendedCount on.  SendCompSuccess posts the rest, or clears both       *)
(* counters and waits for the next request.                                *)
(***************************************************************************)
SendCompSuccess ==
    /\ phase = "send"
    /\ sent < Recved
    /\ \E k \in 1 .. Recved - sent :
         /\ got' = got \o SubSeq(buf, sent + 1, sent + k)
         /\ IF sent + k < Recved
            THEN sent' = sent + k /\ UNCHANGED buf /\ Posted("send")
            ELSE sent' = 0 /\ buf' = <<>> /\ Posted("zero")
    /\ UNCHANGED <<others, handled, replies, apiGot, broke>>

\* The send fails, or asks for no bytes and completes with none.
SendCompFailed ==
    /\ phase = "send"
    /\ \/ CutOff
       \/ sent >= Recved /\ Close("miscount")
    /\ UNCHANGED <<buf, sent, others, got, handled, replies, apiGot, broke>>

\* dwRecvedCount - dwSendedCount wraps around: bytes beyond the reply go out.
SendBeyond ==
    /\ phase = "send"
    /\ sent > Recved
    /\ got' = Append(got, Junk)
    /\ Close("miscount")
    /\ UNCHANGED <<buf, sent, others, handled, replies, apiGot, broke>>

-----------------------------------------------------------------------------
(* A command that calls the API *)

\* The request to the API replaces the client's request in the buffer.
doApi ==
    /\ phase = "process"
    /\ Command # "unknown"
    /\ buf' = ApiBytes(ApiReqLen)
    /\ phase' = "api_connect"
    /\ apiGot' = 0
    /\ UNCHANGED <<sent, others, got, handled, replies, why, broke>>

\* API_Failed answers the client from wherever the call got stuck.
API_Failed ==
    /\ DealTail
    /\ broke' = (broke \/ sent > 0)
    /\ UNCHANGED <<sent, others, got, handled, apiGot>>

\* Faulty variant: the counters are not cleared before the answer is received.
ApiSentKeepsCounters(k) ==
    /\ sent' = sent + k
    /\ phase' = IF sent + k < Recved THEN "api_send" ELSE "api_zero"
    /\ UNCHANGED buf

\* k more bytes of the request went out: the rest is next, or the answer is.
ApiSent(k) ==
    IF sent + k < Recved
    THEN sent' = sent + k /\ phase' = "api_send" /\ UNCHANGED buf
    ELSE sent' = 0 /\ buf' = <<>> /\ phase' = "api_zero"

\* ConnectEx sends from the start of the buffer.
API_ConnectCompSuccess ==
    /\ phase = "api_connect"
    /\ \E k \in 1 .. Recved : ApiSent(k)
    /\ UNCHANGED <<others, got, handled, replies, apiGot, why, broke>>

API_SendCompSuccess ==
    /\ phase = "api_send"
    /\ \E k \in 1 .. Recved - sent : ApiSent(k)
    /\ UNCHANGED <<others, got, handled, replies, apiGot, why, broke>>

API_RecvZeroCompSuccess ==
    /\ phase = "api_zero"
    /\ phase' = "api_recv"
    /\ UNCHANGED <<buf, sent, others, got, handled, replies, apiGot, why, broke>>

\* Part of the answer.
ApiAnswerArrives ==
    /\ phase = "api_recv"
    /\ \E k \in Upto(ApiAnsLen - apiGot, BufLen - Recved) :
         /\ buf' = buf \o [i \in 1 .. k |-> [of |-> "api", id |-> 1, pos |-> apiGot + i]]
         /\ apiGot' = apiGot + k
    /\ phase' = "api_zero"
    /\ UNCHANGED <<sent, others, got, handled, replies, why, broke>>

(***************************************************************************)
(* No bytes: the API has closed, at the end of its answer or before, or    *)
(* there was no space left for any.                                        *)
(***************************************************************************)
ApiAnswerEnds ==
    /\ phase = "api_recv"
    /\ phase' = "respond"
    /\ UNCHANGED <<buf, sent, others, got, handled, replies, apiGot, why, broke>>

\* API_ConnectCompFailed, API_SendCompFailed, API_Recv...Failed, failed posts.
ApiCallFails ==
    /\ phase \in {"api_connect", "api_send", "api_zero", "api_recv"}
    /\ API_Failed

(***************************************************************************)
(* The response function answers the client, or fails and API_Failed does. *)
(* The one for a pool's members takes the answer apart and does neither.   *)
(***************************************************************************)
DoReturnData ==
    /\ phase = "respond"
    /\ \/ DealTail
       \/ /\ Command = "members"
          /\ phase' = "stalled"
          /\ UNCHANGED <<buf, replies, why>>
    /\ UNCHANGED <<sent, others, got, handled, apiGot, broke>>

-----------------------------------------------------------------------------
\* What the server does by itself once the network has done its part.
Server ==
    \/ AcceptCompSuccess \/ AcceptCompFailed
    \/ RecvZeroCompSuccess \/ RecvZeroCompFailed \/ RecvCompSuccess \/ RecvCompFailed
    \/ CommandReplies \/ CommandUnknown
    \/ SendCompSuccess \/ SendCompFailed \/ SendBeyond
    \/ doApi \/ API_ConnectCompSuccess \/ API_SendCompSuccess
    \/ API_RecvZeroCompSuccess \/ ApiAnswerArrives \/ ApiAnswerEnds
    \/ ApiCallFails \/ DoReturnData

Next ==
    \/ \E n \in FrameLens, cmd \in Kinds : ClientSends(n, cmd)
    \/ ClientCloses
    \/ SweepLooks \/ SweepCloses
    \/ Server

Spec == Init /\ [][Next]_vars

(***************************************************************************)
(* The kernel completes what it can, the workers take the completions, the *)
(* client reads its replies and the API answers or breaks the connection:  *)
(* the server has no timeout of its own for any of these.                  *)
(***************************************************************************)
FairSpec == Spec /\ WF_vars(Server)

-----------------------------------------------------------------------------
Bytes == [of : {"request", "reply", "api", "junk"}, id : Nat, pos : Nat]

(***************************************************************************)
(* The types.  What arrives from the client and from the API stays in the  *)
(* buffer, and so does the request to the API: dwRecvedCount passes its    *)
(* end only with a reply that is itself longer than the buffer.            *)
(***************************************************************************)
TypeOK ==
    /\ phase \in Phases
    /\ buf \in Seq(Bytes)
    /\ \/ Recved <= BufLen
       \/ /\ phase \in {"send", "closed"}
          /\ replies # <<>> /\ Last(replies).len = Recved
    /\ sent \in Nat /\ (sent <= BufLen \/ sent < Recved)
    /\ c2s \in Seq(Bytes)
    /\ reqs \in Seq([len : FrameLens, cmd : Kinds])
    /\ gone \in BOOLEAN
    /\ got \in Seq(Bytes)
    /\ handled \in Seq(1 .. MaxRequests)
    /\ replies \in Seq([from : Nat, len : ReplyLens])
    /\ apiGot \in 0 .. ApiAnsLen
    /\ why \in Reasons
    /\ eager \in BOOLEAN /\ broke \in BOOLEAN
    /\ sweep \in {"none", "looked", "closed"}

\* A reply that DealTail wrote past the end of the buffer.
Overrun == \E j \in DOMAIN replies : replies[j].len > BufLen

\* Byte p of the j-th reply is the one the client received in its place.
Arrived(j, p) ==
    LET i == replies[j].from + p
    IN i <= Len(got) => got[i] = [of |-> "reply", id |-> handled[j], pos |-> p]

(***************************************************************************)
(* However the transfers are cut up, the client receives one reply for     *)
(* each request handled, in order, and every reply that fits in the buffer *)
(* is whole, as long as no API request was cut off half sent.              *)
(***************************************************************************)
RepliesWhole ==
    ~broke =>
        /\ Len(replies) <= Len(handled)
        /\ Len(got) <= EndOf(replies)
        /\ \A j \in DOMAIN replies :
              replies[j].len <= BufLen => \A p \in 1 .. replies[j].len : Arrived(j, p)

(***************************************************************************)
(* A client that waits for each reply has its requests handled one by one, *)
(* in order, none twice and none skipped: no byte of one request is lost   *)
(* or taken for a part of another.                                         *)
(***************************************************************************)
HandledInOrder ==
    ~eager => \A i \in DOMAIN handled : handled[i] = i /\ Good(reqs[i])

(***************************************************************************)
(* The server hangs up only for cause, and a client that waits causes it   *)
(* only by what is wrong with its requests: a well formed one is never     *)
(* refused, one that fits never fills the buffer, and the counters of a    *)
(* reply are never out of step unless an API request was cut off.  Beyond  *)
(* that a connection ends without the client's doing where a call on its   *)
(* socket fails, where the sweep closes it, which can then hit a client    *)
(* that is being served, and where a reply runs over the buffer.           *)
(***************************************************************************)
HangsUpForCause ==
    /\ phase = "closed" <=> why # "open"
    /\ ~eager =>
         /\ why = "bad frame" => \E i \in DOMAIN reqs : ~Good(reqs[i])
         /\ why = "full" => \E i \in DOMAIN reqs : reqs[i].len + Overhead > BufLen
    /\ why = "peer" => gone
    /\ why = "miscount" => broke
    /\ why = "swept" => sweep = "closed"
    /\ why = "crash" => Overrun

\* A request that the code answers: it has a payload, a known command, and does
\* not ask for the members of a pool.
Answerable(r) == r.len > 0 /\ r.cmd \in {"malformed", "other"}

(***************************************************************************)
(* A client that waits for each reply gets the k-th one in the end or is   *)
(* hung up on, unless a half sent API request took away the start of it.   *)
(* Left out are the requests the code never answers and never ends: one    *)
(* without payload, one of an unknown command and one for the members of a *)
(* pool (DoReturnData).                                                    *)
(***************************************************************************)
RequestsEnd ==
    \A k \in 1 .. MaxRequests :
        (Len(reqs) >= k /\ Answerable(reqs[k]) /\ ~eager) ~>
            \/ Len(replies) >= k /\ Len(got) >= replies[k].from + replies[k].len
            \/ phase = "closed"
            \/ eager \/ broke
=============================================================================
