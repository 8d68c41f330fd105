------------------------------- MODULE Notify -------------------------------
(***************************************************************************)
(* One connection of the carrier's notification port: the handlers of      *)
(* NC_RequestComplete.cpp and doNcData (doNcData.cpp).  The carrier pushes *)
(* an XML document, which TCP may cut anywhere; the handlers collect it in *)
(* the buffer object until strstr finds a closing root tag, doNcData posts *)
(* a feedback document from the same buffer and parses what was received.  *)
(*                                                                         *)
(* strstr looks at the buffer up to its first zero byte, not up to         *)
(* dwRecvedCount.  The buffer is zeroed when it is allocated and never     *)
(* again while the connection lasts.                                       *)
(***************************************************************************)
EXTENDS Naturals, Sequences, SequencesExt

CONSTANTS Pushes,       \* the documents the carrier pushes, in order
          Cap,          \* datalen
          AddrLen,      \* the end of the buffer that AcceptEx keeps for addresses
          ReplyLen      \* length of the feedback document

(***************************************************************************)
(* A document has a length, whose last two bytes stand for the closing     *)
(* root tag, and a kind: below the root come "elements", as documented in  *)
(* doNcData.cpp, or "text", or it is "broken" for the XML parser.          *)
(***************************************************************************)
Kinds == {"elements", "text", "broken"}

ASSUME NotifyAssumption ==
    /\ Pushes \in Seq([len : Nat \ {0, 1}, kind : Kinds])
    /\ Cap \in Nat \ {0}
    /\ AddrLen \in 0 .. Cap - 1
    /\ ReplyLen \in 1 .. Cap

VARIABLES
    data,       \* the buffer: bytes of pushes, of the reply, or zero
    recved,     \* dwRecvedCount
    sended,     \* dwSendedCount
    request,    \* the request the buffer was posted with, or how it ended
    inflight,   \* bytes the carrier has sent and the server has not received
    pushed,     \* how many documents the carrier has sent
    acks,       \* how many feedback documents it has got
    handled     \* history: what doNcData was called with

ncVars == <<data, recved, sended, request, inflight, pushed, acks, handled>>

\* A byte is known by its document and its position; two are not a document's.
Zero == <<0, 0>>
Feedback == <<0, 1>>
Bytes(m) == [j \in 1 .. Pushes[m].len |-> <<m, j>>]

\* All bytes the carrier has sent.
Stream == FlattenSeq([m \in 1 .. pushed |-> Bytes(m)])

Received == SubSeq(data, 1, recved)

NC_Init ==
    /\ data = [k \in 1 .. Cap |-> Zero]
    /\ recved = 0
    /\ sended = 0
    /\ request = "accept"
    /\ inflight = <<>>
    /\ pushed = 0
    /\ acks = 0
    /\ handled = <<>>

\* The connection was closed, or a NULL pointer ended the process.
Over == request \in {"closed", "crashed"}

-----------------------------------------------------------------------------
\* The carrier pushes its next document when it has the feedback of the last.
Push ==
    /\ pushed < Len(Pushes)
    /\ acks >= pushed
    /\ ~Over
    /\ pushed' = pushed + 1
    /\ inflight' = inflight \o Bytes(pushed + 1)
    /\ UNCHANGED <<data, recved, sended, request, acks, handled>>

\* n bytes arrive behind the ones received so far.
Write(n) ==
    [k \in 1 .. Cap |-> IF k \in recved + 1 .. recved + n
                        THEN inflight[k - recved] ELSE data[k]]

\* strstr: a closing tag before the first zero byte, fresh or stale.
Complete(d) ==
    \E k \in 1 .. Cap - 1 :
        /\ \A l \in 1 .. k + 1 : d[l] # Zero
        /\ \E m \in 1 .. Len(Pushes) :
             /\ d[k] = <<m, Pushes[m].len - 1>>
             /\ d[k + 1] = <<m, Pushes[m].len>>

(***************************************************************************)
(* What follows doc.Parse: the root's first child must be text, or         *)
(* GetText returns NULL and strcmp reads through it.  A part of a document *)
(* fails to parse, or has no root, which is a NULL pointer too.            *)
(***************************************************************************)
Crashes(content) ==
    IF \E m \in 1 .. pushed : content = Bytes(m)
    THEN {Pushes[content[1][1]].kind = "elements"}
    ELSE BOOLEAN

(***************************************************************************)
(* doNcData: convert, doNcResponse overwrites the front of the buffer and  *)
(* posts it, then parse.  PostSend may fail, and the connection ends.      *)
(***************************************************************************)
doNcData(d, n) ==
    /\ handled' = Append(handled, SubSeq(d, 1, n))
    /\ data' = [k \in 1 .. Cap |-> IF k <= ReplyLen THEN Feedback ELSE d[k]]
    /\ recved' = ReplyLen
    /\ \E crash \in Crashes(SubSeq(d, 1, n)) :
         request' \in IF crash THEN {"crashed"} ELSE {"send", "closed"}

\* Bytes have arrived: wait for more, or handle the document.
MoreOrHandle(n) ==
    IF Complete(Write(n))
    THEN doNcData(Write(n), recved + n)
    ELSE /\ data' = Write(n)
         /\ recved' = recved + n
         /\ request' \in {"zero", "closed"}
         /\ UNCHANGED handled

\* The accept completes with the first bytes, the addresses behind them.
NC_AcceptCompSuccess ==
    /\ request = "accept"
    /\ \E n \in 1 .. Len(inflight) :
         /\ n <= Cap - AddrLen
         /\ MoreOrHandle(n)
         /\ inflight' = SubSeq(inflight, n + 1, Len(inflight))
    /\ UNCHANGED <<sended, pushed, acks>>

\* The zero-byte receive completes when there is something to receive.
NC_RecvZeroCompSuccess ==
    /\ request = "zero"
    /\ inflight # <<>>
    /\ request' \in {"recv", "closed"}
    /\ UNCHANGED <<data, recved, sended, inflight, pushed, acks, handled>>

\* Faulty variant: the bytes are not added to dwRecvedCount.
NC_RecvNotCounted ==
    /\ request = "recv"
    /\ \E n \in 1 .. Len(inflight) :
         /\ recved + n <= Cap
         /\ data' = Write(n)
         /\ IF Complete(Write(n))
            THEN /\ handled' = Append(handled, SubSeq(Write(n), 1, recved))
                 /\ request' = "send"
            ELSE request' = "zero" /\ UNCHANGED handled
         /\ inflight' = SubSeq(inflight, n + 1, Len(inflight))
    /\ UNCHANGED <<recved, sended, pushed, acks>>

NC_RecvCompSuccess ==
    /\ request = "recv"
    /\ \E n \in 1 .. Len(inflight) :
         /\ recved + n <= Cap
         /\ MoreOrHandle(n)
         /\ inflight' = SubSeq(inflight, n + 1, Len(inflight))
    /\ UNCHANGED <<sended, pushed, acks>>

\* Faulty variant: a receive that moved nothing is posted again.
NC_RecvEmptyRetries ==
    /\ request = "recv"
    /\ recved = Cap
    /\ request' = "zero"
    /\ UNCHANGED <<data, recved, sended, inflight, pushed, acks, handled>>

\* A receive into a full buffer completes with no bytes.
NC_RecvCompEmpty ==
    /\ request = "recv"
    /\ recved = Cap
    /\ request' = "closed"
    /\ UNCHANGED <<data, recved, sended, inflight, pushed, acks, handled>>

\* Part of the feedback is sent, or the rest of it.
NC_SendCompSuccess ==
    /\ request = "send"
    /\ \E n \in 1 .. recved - sended :
         \/ /\ sended + n < recved
            /\ sended' = sended + n
            /\ request' \in {"send", "closed"}
            /\ UNCHANGED <<recved, acks>>
         \/ /\ sended + n = recved
            /\ recved' = 0
            /\ sended' = 0
            /\ acks' = acks + 1
            /\ request' \in {"zero", "closed"}
    /\ UNCHANGED <<data, inflight, pushed, handled>>

\* Any pending request fails: the carrier hung up.
NC_CompFailed ==
    /\ ~Over
    /\ request' = "closed"
    /\ UNCHANGED <<data, recved, sended, inflight, pushed, acks, handled>>

-----------------------------------------------------------------------------
Server ==
    \/ NC_AcceptCompSuccess
    \/ NC_RecvZeroCompSuccess
    \/ NC_RecvCompSuccess
    \/ NC_RecvCompEmpty
    \/ NC_SendCompSuccess

NC_Next == Push \/ Server \/ NC_CompFailed

NC_Spec == NC_Init /\ [][NC_Next]_ncVars

\* The workers handle the completions, and TCP delivers what was sent.
NC_FairSpec == NC_Spec /\ WF_ncVars(Server)

-----------------------------------------------------------------------------
(***************************************************************************)
(* The first document of a connection is handled whole, wherever TCP cuts  *)
(* it: neither before its closing tag is there nor with a byte missing.    *)
(***************************************************************************)
FirstPushWhole == handled # <<>> => handled[1] = Bytes(1)

(***************************************************************************)
(* No byte of the carrier's is lost, repeated or overwritten although one  *)
(* buffer holds the document and the feedback in turn: what doNcData got,  *)
(* what lies received and what is under way make up the stream.            *)
(***************************************************************************)
StreamIntact ==
    ~Over =>
        Stream = FlattenSeq(handled)
                    \o (IF request = "send" THEN <<>> ELSE Received) \o inflight

\* A document that the carrier pushed gets its feedback, or the connection ends.
PushAnswered ==
    \A m \in 1 .. Len(Pushes) :
        pushed >= m ~> acks >= m \/ Over
=============================================================================
