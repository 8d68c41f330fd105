------------------------------- MODULE ConnIO -------------------------------
(***************************************************************************)
(* The life of a connection in the I/O completion port server: the free    *)
(* lists of SOCKET_OBJ and BUFFER_OBJ (MemPool.cpp), the overlapped        *)
(* requests (RequestPost.cpp), the worker threads that dequeue completions *)
(* and call the handler stored in the buffer (IoWorkerThread.cpp), the     *)
(* handlers of the two listening ports and of outgoing API calls           *)
(* (RequestComplete.cpp, NC_RequestComplete.cpp, API_RequestComplete.cpp,  *)
(* doAPIResponse.cpp), and the main thread that posts accepts and sweeps   *)
(* silent connections (CDBServer.cpp).                                     *)
(*                                                                         *)
(* A handler runs up to a call that another thread can observe (a request  *)
(* posted, an object returned to a free list) in one step; each such call  *)
(* is a step of its own.  Message contents are left out: whether a request *)
(* is complete, what a command does and how many bytes a transfer moved    *)
(* are choices.                                                            *)
(***************************************************************************)
EXTENDS Naturals, Sequences, FiniteSets, SequencesExt

CONSTANTS
    Workers,     \* threads running completionRoution
    Main,        \* the main thread
    BObjs,       \* addresses of BUFFER_OBJ objects
    SObjs,       \* addresses of SOCKET_OBJ objects
    Null,        \* a NULL pointer
    Keys,        \* values GetRand can return
    Ports,       \* "srv" (index 0) and "nc" (index 1)
    PoolCap,     \* 1000 in freeSObj and freeBObj
    MaxPending   \* MAX_PENDING_ACCEPT

ASSUME ConnAssumption ==
    /\ Main \notin Workers
    /\ Null \notin BObjs \cup SObjs
    /\ Keys # {}
    /\ Ports \subseteq {"srv", "nc"}
    /\ PoolCap \in Nat
    /\ MaxPending \in Nat

VARIABLES
    bFree, sFree,   \* vctBObj, vctSObj: free lists used at their back
    bHeap, sHeap,   \* objects obtained from HeapAlloc and not HeapFree'd
    relS,           \* pRelatedSObj of each buffer
    fn,             \* pfnFailed / pfnSuccess of each buffer
    sock,           \* "open", or "invalid" for INVALID_SOCKET
    nKey,           \* nKey of each socket object
    acpt,           \* AcptMap of each listener: key -> socket object
    conn,           \* ConnMap of connecting API sockets: key -> socket object
    ops,            \* requests the kernel owns, finished or not
    pc,             \* where each thread is
    myB, myS,       \* the thread's bobj and sobj
    want,           \* the request it is about to post
    stalled         \* buffers whose handler returned with nothing posted

memory == <<bFree, sFree, bHeap, sHeap>>
fields == <<relS, fn, sock, nKey>>
locals == <<myB, myS, want>>
vars == <<memory, fields, acpt, conn, ops, pc, locals, stalled>>

Threads == Workers \cup {Main}

(***************************************************************************)
(* A handler pair is named by its family and the request it belongs to:    *)
(* <<"srv", "Recv">> is RecvCompFailed/RecvCompSuccess, <<"nc", "Recv">>   *)
(* NC_RecvComp..., <<"api", "Recv">> API_RecvComp... .                     *)
(***************************************************************************)
Kinds == {"Accept", "Zero", "Recv", "Send", "Connect"}
Families == {"srv", "nc", "api"}
Fns == (Families \X Kinds) \cup {<<"none", "none">>}

NoFn == <<"none", "none">>
Family(b) == fn[b][1]
Kind(b) == fn[b][2]

\* What GetQueuedCompletionStatus reports: data moved, no data, an error.
Results == {"ok", "zero", "fail"}

(***************************************************************************)
(* run_*      a completion with that result has been dequeued              *)
(* process    a whole request is in the buffer                             *)
(* reply      about to answer through DealTail                             *)
(* respond    the API has answered, DoReturnData                           *)
(* post       SetIoRequestFunction done, about to post "want"              *)
(* api_*      doApi and the loss of an API connection                      *)
(* end_*      orderly end of an API connection                             *)
(* drop_*     close and free of a client connection                        *)
(* acc_*      PostAcceptEx                                                 *)
(* sweep      the main thread found a silent connection                    *)
(***************************************************************************)
PCs == {"idle", "run_ok", "run_zero", "run_fail", "process", "reply",
        "respond", "post",
        "api_alloc", "api_init", "api_close", "api_freeS",
        "end_close", "end_freeS",
        "drop_close", "drop_freeS", "drop_freeB",
        "acc_sock", "acc_nosock", "acc_init", "acc_remove", "acc_freeB",
        "acc_freeS", "sweep"}

GoTo(t, label) == pc' = [pc EXCEPT ![t] = label]

Request(b, s, k) == [buf |-> b, sock |-> s, kind |-> k]

\* Objects that are allocated and not on a free list.
LiveB == bHeap \ ToSet(bFree)
LiveS == sHeap \ ToSet(sFree)

Listed(p) == {acpt[p][k] : k \in Keys} \ {Null}

Init ==
    /\ bFree = <<>> /\ sFree = <<>>
    /\ bHeap = {} /\ sHeap = {}
    /\ relS = [b \in BObjs |-> Null]
    /\ fn = [b \in BObjs |-> NoFn]
    /\ sock = [s \in SObjs |-> "invalid"]
    /\ \E k \in Keys : nKey = [s \in SObjs |-> k]
    /\ acpt = [p \in Ports |-> [k \in Keys |-> Null]]
    /\ conn = [k \in Keys |-> Null]
    /\ ops = {}
    /\ pc = [t \in Threads |-> "idle"]
    /\ myB = [t \in Threads |-> Null]
    /\ myS = [t \in Threads |-> Null]
    /\ want = [t \in Threads |-> Null]
    /\ stalled = {}

-----------------------------------------------------------------------------
(* MemPool *)

\* allocBObj: pop the free list or take a new object, then init() it.
allocBObj(t) ==
    \E b \in BObjs :
        /\ \/ bFree # <<>> /\ b = Last(bFree) /\ bFree' = Front(bFree) /\ UNCHANGED bHeap
           \/ bFree = <<>> /\ b \notin bHeap /\ bHeap' = bHeap \cup {b} /\ UNCHANGED bFree
        /\ relS' = [relS EXCEPT ![b] = Null]
        /\ fn' = [fn EXCEPT ![b] = NoFn]
        /\ myB' = [myB EXCEPT ![t] = b]

\* allocSObj, likewise. The key that init() clears is drawn again before it is used.
allocSObj(t) ==
    \E s \in SObjs :
        /\ \/ sFree # <<>> /\ s = Last(sFree) /\ sFree' = Front(sFree) /\ UNCHANGED sHeap
           \/ sFree = <<>> /\ s \notin sHeap /\ sHeap' = sHeap \cup {s} /\ UNCHANGED sFree
        /\ sock' = [sock EXCEPT ![s] = "invalid"]
        /\ myS' = [myS EXCEPT ![t] = s]

\* Faulty variant: the free list takes one object too many.
freeBObjOffByOne(b) ==
    IF Len(bFree) <= PoolCap
    THEN bFree' = Append(bFree, b) /\ UNCHANGED bHeap
    ELSE bHeap' = bHeap \ {b} /\ UNCHANGED bFree

\* freeBObj: back on the free list, or to the heap when the list is full.
freeBObj(b) ==
    IF Len(bFree) < PoolCap
    THEN bFree' = Append(bFree, b) /\ UNCHANGED bHeap
    ELSE bHeap' = bHeap \ {b} /\ UNCHANGED bFree

\* freeSObj, likewise.
freeSObj(s) ==
    IF Len(sFree) < PoolCap
    THEN sFree' = Append(sFree, s) /\ UNCHANGED sHeap
    ELSE sHeap' = sHeap \ {s} /\ UNCHANGED sFree

-----------------------------------------------------------------------------
(* Steps shared by the handlers *)

\* The handler returns: its locals are gone.
Return(t) ==
    /\ GoTo(t, "idle")
    /\ myB' = [myB EXCEPT ![t] = Null]
    /\ myS' = [myS EXCEPT ![t] = Null]
    /\ want' = [want EXCEPT ![t] = Null]

\* SetIoRequestFunction, then on to the Post... call for that request.
SetIoRequestFunction(t, f, k) ==
    /\ fn' = [fn EXCEPT ![myB[t]] = <<f, k>>]
    /\ want' = [want EXCEPT ![t] = k]
    /\ GoTo(t, "post")

\* InsertAcpt: a key already in the map is overwritten.
InsertAcpt(p, k, s) == acpt' = [acpt EXCEPT ![p][k] = s]

\* RemoveAcpt erases whatever is listed under the object's key.
RemoveAcpt(p, s) == acpt' = [acpt EXCEPT ![p][nKey[s]] = Null]

\* InsertConn and RemoveConn, likewise, for the socket of an API call.
InsertConn(k, s) == conn' = [conn EXCEPT ![k] = s]
RemoveConn(s) == conn' = [conn EXCEPT ![nKey[s]] = Null]

\* A request is handed to the kernel; from here on its completion may run.
PostSucceeds(t) ==
    /\ pc[t] = "post"
    /\ sock[myS[t]] = "open"
    /\ ops' = ops \cup {Request(myB[t], myS[t], want[t])}
    /\ Return(t)
    /\ UNCHANGED <<memory, fields, acpt, conn, stalled>>

\* WSARecv, WSASend, ConnectEx or AcceptEx fail at once.
PostFails(t) ==
    /\ pc[t] = "post"
    /\ GoTo(t, CASE want[t] = "Accept" -> "acc_remove"
                 [] want[t] # "Accept" /\ Family(myB[t]) = "api" -> "api_close"
                 [] OTHER -> "drop_close")
    /\ IF want[t] = "Connect" THEN RemoveConn(myS[t]) ELSE UNCHANGED conn
    /\ UNCHANGED <<memory, fields, acpt, ops, locals, stalled>>

\* CSCloseSocket(sobj).
CSCloseSocket(t) ==
    /\ pc[t] \in {"drop_close", "api_close", "end_close"}
    /\ sock' = [sock EXCEPT ![myS[t]] = "invalid"]
    /\ GoTo(t, CASE pc[t] = "drop_close" -> "drop_freeS"
                 [] pc[t] = "api_close" -> "api_freeS"
                 [] pc[t] = "end_close" -> "end_freeS")
    /\ UNCHANGED <<memory, relS, fn, nKey, acpt, conn, ops, locals, stalled>>

\* freeSObj(sobj); a lost API connection is answered next, a lost client is not.
FreeSocketObj(t) ==
    /\ pc[t] \in {"drop_freeS", "api_freeS", "end_freeS"}
    /\ freeSObj(myS[t])
    /\ myS' = [myS EXCEPT ![t] = Null]
    /\ GoTo(t, CASE pc[t] = "drop_freeS" -> "drop_freeB"
                 [] pc[t] = "api_freeS" -> "reply"
                 [] pc[t] = "end_freeS" -> "respond")
    /\ UNCHANGED <<bFree, bHeap, fields, acpt, conn, ops, myB, want, stalled>>

\* freeBObj(bobj), the last use of a client connection.
FreeBufferObj(t) ==
    /\ pc[t] = "drop_freeB"
    /\ freeBObj(myB[t])
    /\ Return(t)
    /\ UNCHANGED <<sFree, sHeap, fields, acpt, conn, ops, stalled>>

-----------------------------------------------------------------------------
(* The main thread *)

\* PostAcceptEx: a buffer first ...
PostAcceptEx ==
    /\ pc[Main] = "idle"
    /\ allocBObj(Main)
    /\ GoTo(Main, "acc_sock")
    /\ UNCHANGED <<sFree, sHeap, sock, nKey, acpt, conn, ops, myS, want, stalled>>

\* ... then a socket object ...
AcceptAllocSObj ==
    /\ pc[Main] = "acc_sock"
    /\ allocSObj(Main)
    /\ GoTo(Main, "acc_init")
    /\ UNCHANGED <<bFree, bHeap, relS, fn, nKey, acpt, conn, ops, myB, want, stalled>>

\* ... or the buffer goes back if there is none.
AcceptNoSObj ==
    \/ /\ pc[Main] = "acc_sock"
       /\ sFree = <<>>
       /\ GoTo(Main, "acc_nosock")
       /\ UNCHANGED <<memory, fields, acpt, conn, ops, locals, stalled>>
    \/ /\ pc[Main] = "acc_nosock"
       /\ freeBObj(myB[Main])
       /\ Return(Main)
       /\ UNCHANGED <<sFree, sHeap, fields, acpt, conn, ops, stalled>>

\* socket() succeeds: link the two objects, choose the handlers and a key, list.
AcceptInit ==
    /\ pc[Main] = "acc_init"
    /\ sock' = [sock EXCEPT ![myS[Main]] = "open"]
    /\ relS' = [relS EXCEPT ![myB[Main]] = myS[Main]]
    /\ \E p \in Ports, k \in Keys :
         /\ SetIoRequestFunction(Main, p, "Accept")
         /\ nKey' = [nKey EXCEPT ![myS[Main]] = k]
         /\ InsertAcpt(p, k, myS[Main])
    /\ UNCHANGED <<memory, conn, ops, myB, myS, stalled>>

\* socket() fails.
AcceptNoSocket ==
    /\ pc[Main] = "acc_init"
    /\ GoTo(Main, "acc_freeB")
    /\ UNCHANGED <<memory, fields, acpt, conn, ops, locals, stalled>>

\* AcceptEx failed at once: unlist and close, then free both objects.
AcceptRollback ==
    /\ pc[Main] = "acc_remove"
    /\ RemoveAcpt(Family(myB[Main]), myS[Main])
    /\ sock' = [sock EXCEPT ![myS[Main]] = "invalid"]
    /\ GoTo(Main, "acc_freeB")
    /\ UNCHANGED <<memory, relS, fn, nKey, conn, ops, locals, stalled>>

AcceptFree ==
    \/ /\ pc[Main] = "acc_freeB"
       /\ freeBObj(myB[Main])
       /\ myB' = [myB EXCEPT ![Main] = Null]
       /\ GoTo(Main, "acc_freeS")
       /\ UNCHANGED <<sFree, sHeap, fields, acpt, conn, ops, myS, want, stalled>>
    \/ /\ pc[Main] = "acc_freeS"
       /\ freeSObj(myS[Main])
       /\ Return(Main)
       /\ UNCHANGED <<bFree, bHeap, fields, acpt, conn, ops, stalled>>

(***************************************************************************)
(* The sweep over AcptMap, when it holds more than MAX_PENDING_ACCEPT: the *)
(* main thread reads an entry and sees a connection that sent nothing for  *)
(* 60 seconds; by the time it closes the socket a worker may have taken    *)
(* the object out of the map, and freed or reused it.                      *)
(***************************************************************************)
SweepFind(p) ==
    /\ pc[Main] = "idle"
    /\ Cardinality(Listed(p)) > MaxPending
    /\ \E s \in Listed(p) :
         /\ sock[s] = "open"
         /\ myS' = [myS EXCEPT ![Main] = s]
    /\ GoTo(Main, "sweep")
    /\ UNCHANGED <<memory, fields, acpt, conn, ops, myB, want, stalled>>

SweepClose ==
    /\ pc[Main] = "sweep"
    /\ sock' = [sock EXCEPT ![myS[Main]] = "invalid"]
    /\ Return(Main)
    /\ UNCHANGED <<memory, relS, fn, nKey, acpt, conn, ops, stalled>>
-----------------------------------------------------------------------------
(***************************************************************************)
(* completionRoution: a worker dequeues the completion of any request and  *)
(* calls the handler the buffer names.  The completion key of an accept is *)
(* the listener, and the handler takes the socket object from the buffer;  *)
(* the key of every other request is its socket object.  A zero-byte       *)
(* receive never moves data.                                               *)
(***************************************************************************)
completionRoution(w, r) ==
    \E op \in ops :
        /\ pc[w] = "idle"
        /\ op.kind = "Zero" => r # "zero"
        /\ ops' = ops \ {op}
        /\ myB' = [myB EXCEPT ![w] = op.buf]
        /\ myS' = [myS EXCEPT ![w] =
                     IF Kind(op.buf) = "Accept" THEN relS[op.buf] ELSE op.sock]
        /\ GoTo(w, CASE r = "ok" -> "run_ok" [] r = "zero" -> "run_zero"
                     [] r = "fail" -> "run_fail")
        /\ UNCHANGED <<memory, fields, acpt, conn, want, stalled>>

\* The handler that runs is the one stored in the buffer.
Runs(w, f, k, labels) == pc[w] \in labels /\ fn[myB[w]] = <<f, k>>

\* Close the client connection and free both objects.
Drop(w) == GoTo(w, "drop_close") /\ UNCHANGED <<fn, want>>

\* Bodies shared by the two listening ports, f = "srv" or "nc".
OnAcceptFailed(w, f) ==
    /\ Runs(w, f, "Accept", {"run_zero", "run_fail"})
    /\ RemoveAcpt(f, myS[w])
    /\ Drop(w)
    /\ UNCHANGED <<memory, relS, sock, nKey, conn, ops, myB, myS, stalled>>

\* Faulty variant: PostRecv without SetIoRequestFunction.
OnZeroRecvKeepsFn(w, f) ==
    /\ Runs(w, f, "Zero", {"run_ok"})
    /\ want' = [want EXCEPT ![w] = "Recv"]
    /\ GoTo(w, "post")
    /\ UNCHANGED <<memory, fields, acpt, conn, ops, myB, myS, stalled>>

OnZeroRecv(w, f) ==
    /\ Runs(w, f, "Zero", {"run_ok"})
    /\ SetIoRequestFunction(w, f, "Recv")
    /\ UNCHANGED <<memory, relS, sock, nKey, acpt, conn, ops, myB, myS, stalled>>

OnSend(w, f) ==
    /\ Runs(w, f, "Send", {"run_ok"})
    /\ \/ SetIoRequestFunction(w, f, "Send")    \* part of the data is left
       \/ SetIoRequestFunction(w, f, "Zero")    \* all sent: next request
    /\ UNCHANGED <<memory, relS, sock, nKey, acpt, conn, ops, myB, myS, stalled>>

OnFailed(w, f, k, labels) ==
    /\ Runs(w, f, k, labels)
    /\ Drop(w)
    /\ UNCHANGED <<memory, relS, sock, nKey, acpt, conn, ops, myB, myS, stalled>>

\* The data so far is incomplete, or it is a whole request.
MoreOrProcess(w, f) ==
    \/ SetIoRequestFunction(w, f, "Zero")
    \/ GoTo(w, "process") /\ UNCHANGED <<fn, want>>

-----------------------------------------------------------------------------
(* Port 0, RequestComplete.cpp *)

AcceptCompFailed(w) == OnAcceptFailed(w, "srv")

\* Also dropped: the port association fails, or CheckRecvdata returns -1.
AcceptCompSuccess(w) ==
    /\ Runs(w, "srv", "Accept", {"run_ok"})
    /\ RemoveAcpt("srv", myS[w])
    /\ MoreOrProcess(w, "srv") \/ Drop(w)
    /\ UNCHANGED <<memory, relS, sock, nKey, conn, ops, myB, myS, stalled>>

RecvZeroCompFailed(w) == OnFailed(w, "srv", "Zero", {"run_fail"})

RecvZeroCompSuccess(w) == OnZeroRecv(w, "srv")

RecvCompFailed(w) == OnFailed(w, "srv", "Recv", {"run_zero", "run_fail"})

RecvCompSuccess(w) ==
    /\ Runs(w, "srv", "Recv", {"run_ok"})
    /\ MoreOrProcess(w, "srv") \/ Drop(w)
    /\ UNCHANGED <<memory, relS, sock, nKey, acpt, conn, ops, myB, myS, stalled>>

SendCompFailed(w) == OnFailed(w, "srv", "Send", {"run_zero", "run_fail"})

SendCompSuccess(w) == OnSend(w, "srv")

-----------------------------------------------------------------------------
(* Port 1, NC_RequestComplete.cpp *)

NC_AcceptCompFailed(w) == OnAcceptFailed(w, "nc")

\* Dropped only if the port association fails.
NC_AcceptCompSuccess(w) ==
    /\ Runs(w, "nc", "Accept", {"run_ok"})
    /\ RemoveAcpt("nc", myS[w])
    /\ MoreOrProcess(w, "nc") \/ Drop(w)
    /\ UNCHANGED <<memory, relS, sock, nKey, conn, ops, myB, myS, stalled>>

NC_RecvZeroCompFailed(w) == OnFailed(w, "nc", "Zero", {"run_fail"})

NC_RecvZeroCompSuccess(w) == OnZeroRecv(w, "nc")

NC_RecvCompFailed(w) == OnFailed(w, "nc", "Recv", {"run_zero", "run_fail"})

NC_RecvCompSuccess(w) ==
    /\ Runs(w, "nc", "Recv", {"run_ok"})
    /\ MoreOrProcess(w, "nc")
    /\ UNCHANGED <<memory, relS, sock, nKey, acpt, conn, ops, myB, myS, stalled>>

NC_SendCompFailed(w) == OnFailed(w, "nc", "Send", {"run_zero", "run_fail"})

NC_SendCompSuccess(w) == OnSend(w, "nc")

\* doNcData answers with doNcResponse; the notification is parsed from a copy.
doNcData(w) ==
    /\ pc[w] = "process"
    /\ Family(myB[w]) = "nc"
    /\ SetIoRequestFunction(w, "nc", "Send")
    /\ UNCHANGED <<memory, relS, sock, nKey, acpt, conn, ops, myB, myS, stalled>>

-----------------------------------------------------------------------------
(* Commands and outgoing API calls *)

\* A command handler, or the error path of ProcessCommand, answers.
ProcessCommand(w) ==
    /\ pc[w] = "process"
    /\ Family(myB[w]) = "srv"
    /\ \/ GoTo(w, "reply") /\ UNCHANGED <<locals, stalled>>
       \/ GoTo(w, "api_alloc") /\ UNCHANGED <<locals, stalled>>
       \/ Return(w) /\ stalled' = stalled \cup {<<myB[w], "unknown">>}
    /\ UNCHANGED <<memory, fields, acpt, conn, ops>>

\* DealTail: the answer goes to the client, whichever socket came before.
DealTail(w) ==
    /\ pc[w] = "reply"
    /\ SetIoRequestFunction(w, "srv", "Send")
    /\ myS' = [myS EXCEPT ![w] = relS[myB[w]]]
    /\ UNCHANGED <<memory, relS, sock, nKey, acpt, conn, ops, myB, stalled>>

\* doApi: a socket object for the call, or API_Failed at once.
doApiAlloc(w) ==
    /\ pc[w] = "api_alloc"
    /\ \/ allocSObj(w) /\ GoTo(w, "api_init")
       \/ sFree = <<>> /\ GoTo(w, "reply") /\ UNCHANGED <<sFree, sHeap, sock, myS>>
    /\ UNCHANGED <<bFree, bHeap, relS, fn, nKey, acpt, conn, ops, myB, want, stalled>>

\* doApi: resolve, socket, bind, associate; then ConnectEx with the request.
doApiConnect(w) ==
    /\ pc[w] = "api_init"
    /\ \/ /\ sock' = [sock EXCEPT ![myS[w]] = "open"]
          /\ SetIoRequestFunction(w, "api", "Connect")
          /\ \E k \in Keys :
               /\ nKey' = [nKey EXCEPT ![myS[w]] = k]
               /\ InsertConn(k, myS[w])
       \/ /\ \E v \in {"open", "invalid"} : sock' = [sock EXCEPT ![myS[w]] = v]
          /\ GoTo(w, "api_close")
          /\ UNCHANGED <<fn, want, nKey, conn>>
    /\ UNCHANGED <<memory, relS, acpt, ops, myB, myS, stalled>>

\* Faulty variant: the client is told, the API socket object is forgotten.
OnApiFailedLeaks(w, k, labels) ==
    /\ Runs(w, "api", k, labels)
    /\ IF k = "Connect" THEN RemoveConn(myS[w]) ELSE UNCHANGED conn
    /\ GoTo(w, "reply")
    /\ UNCHANGED <<memory, fields, acpt, ops, locals, stalled>>

\* An API request failed: the API socket is closed and the client told so.
OnApiFailed(w, k, labels) ==
    /\ Runs(w, "api", k, labels)
    /\ IF k = "Connect" THEN RemoveConn(myS[w]) ELSE UNCHANGED conn
    /\ GoTo(w, "api_close")
    /\ UNCHANGED <<memory, fields, acpt, ops, locals, stalled>>

\* Faulty variant: a connected API socket stays in ConnMap.
OnApiSentStaysListed(w, k) ==
    /\ Runs(w, "api", k, {"run_ok"})
    /\ SetIoRequestFunction(w, "api", "Send") \/ SetIoRequestFunction(w, "api", "Zero")
    /\ UNCHANGED <<memory, relS, sock, nKey, acpt, conn, ops, myB, myS, stalled>>

\* Bytes of the API request went out: send the rest, or wait for the answer.
OnApiSent(w, k) ==
    /\ Runs(w, "api", k, {"run_ok"})
    /\ IF k = "Connect" THEN RemoveConn(myS[w]) ELSE UNCHANGED conn
    /\ SetIoRequestFunction(w, "api", "Send") \/ SetIoRequestFunction(w, "api", "Zero")
    /\ UNCHANGED <<memory, relS, sock, nKey, acpt, ops, myB, myS, stalled>>

API_ConnectCompFailed(w) == OnApiFailed(w, "Connect", {"run_zero", "run_fail"})

API_ConnectCompSuccess(w) == OnApiSent(w, "Connect")

API_SendCompFailed(w) == OnApiFailed(w, "Send", {"run_zero", "run_fail"})

API_SendCompSuccess(w) == OnApiSent(w, "Send")

API_RecvZeroCompFailed(w) == OnApiFailed(w, "Zero", {"run_fail"})

API_RecvZeroCompSuccess(w) == OnZeroRecv(w, "api")

API_RecvCompFailed(w) == OnApiFailed(w, "Recv", {"run_fail"})

\* No data means the API closed its end: the answer is complete.
API_RecvCompSuccess(w) ==
    /\ Runs(w, "api", "Recv", {"run_ok", "run_zero"})
    /\ IF pc[w] = "run_zero"
       THEN GoTo(w, "end_close") /\ UNCHANGED <<fn, want>>
       ELSE SetIoRequestFunction(w, "api", "Zero")
    /\ UNCHANGED <<memory, relS, sock, nKey, acpt, conn, ops, myB, myS, stalled>>

\* Faulty variant: a response function answers and still returns false.
DoReturnDataTwice(w) ==
    /\ pc[w] = "respond"
    /\ fn' = [fn EXCEPT ![myB[w]] = <<"srv", "Send">>]
    /\ ops' = ops \cup {Request(myB[w], relS[myB[w]], "Send")}
    /\ GoTo(w, "reply")
    /\ UNCHANGED <<memory, relS, sock, nKey, acpt, conn, locals, stalled>>

(***************************************************************************)
(* DoReturnData: the response function answers, or fails and API_Failed    *)
(* answers; doPoolList02Response returns true without an answer.           *)
(***************************************************************************)
DoReturnData(w) ==
    /\ pc[w] = "respond"
    /\ \/ GoTo(w, "reply") /\ UNCHANGED <<locals, stalled>>
       \/ Return(w) /\ stalled' = stalled \cup {<<myB[w], "poolinfo">>}
    /\ UNCHANGED <<memory, fields, acpt, conn, ops>>

-----------------------------------------------------------------------------
MainStep ==
    \/ PostAcceptEx \/ AcceptAllocSObj \/ AcceptNoSObj \/ AcceptInit
    \/ AcceptNoSocket \/ AcceptRollback \/ AcceptFree
    \/ \E p \in Ports : SweepFind(p)
    \/ SweepClose

ServerHandler(w) ==
    \/ AcceptCompFailed(w) \/ AcceptCompSuccess(w)
    \/ RecvZeroCompFailed(w) \/ RecvZeroCompSuccess(w)
    \/ RecvCompFailed(w) \/ RecvCompSuccess(w)
    \/ SendCompFailed(w) \/ SendCompSuccess(w)
    \/ ProcessCommand(w) \/ DealTail(w)

NotifyHandler(w) ==
    \/ NC_AcceptCompFailed(w) \/ NC_AcceptCompSuccess(w)
    \/ NC_RecvZeroCompFailed(w) \/ NC_RecvZeroCompSuccess(w)
    \/ NC_RecvCompFailed(w) \/ NC_RecvCompSuccess(w)
    \/ NC_SendCompFailed(w) \/ NC_SendCompSuccess(w)
    \/ doNcData(w)

ApiHandler(w) ==
    \/ doApiAlloc(w) \/ doApiConnect(w)
    \/ API_ConnectCompFailed(w) \/ API_ConnectCompSuccess(w)
    \/ API_SendCompFailed(w) \/ API_SendCompSuccess(w)
    \/ API_RecvZeroCompFailed(w) \/ API_RecvZeroCompSuccess(w)
    \/ API_RecvCompFailed(w) \/ API_RecvCompSuccess(w)
    \/ DoReturnData(w)

\* What a thread does whatever handler it is in.
Common(t) ==
    \/ PostSucceeds(t) \/ PostFails(t)
    \/ CSCloseSocket(t) \/ FreeSocketObj(t) \/ FreeBufferObj(t)

Next ==
    \/ MainStep
    \/ \E w \in Workers, r \in Results : completionRoution(w, r)
    \/ \E w \in Workers : ServerHandler(w) \/ NotifyHandler(w) \/ ApiHandler(w)
    \/ \E t \in Threads : Common(t)

Spec == Init /\ [][Next]_vars

-----------------------------------------------------------------------------
TypeOK ==
    /\ bFree \in Seq(BObjs) /\ Len(bFree) <= PoolCap
    /\ sFree \in Seq(SObjs) /\ Len(sFree) <= PoolCap
    /\ bHeap \subseteq BObjs /\ sHeap \subseteq SObjs
    /\ relS \in [BObjs -> SObjs \cup {Null}]
    /\ fn \in [BObjs -> Fns]
    /\ sock \in [SObjs -> {"open", "invalid"}]
    /\ nKey \in [SObjs -> Keys]
    /\ acpt \in [Ports -> [Keys -> SObjs \cup {Null}]]
    /\ conn \in [Keys -> SObjs \cup {Null}]
    /\ ops \subseteq [buf : BObjs, sock : SObjs, kind : Kinds]
    /\ pc \in [Threads -> PCs]
    /\ myB \in [Threads -> BObjs \cup {Null}]
    /\ myS \in [Threads -> SObjs \cup {Null}]
    /\ want \in [Threads -> Kinds \cup {Null}]
    /\ stalled \subseteq BObjs \X {"unknown", "poolinfo"}

\* Who refers to buffer b: requests in the kernel, threads, stalled connections.
BufferRefs(b) == {op \in ops : op.buf = b} \cup {t \in Threads : myB[t] = b}
                    \cup {x \in stalled : x[1] = b}

(***************************************************************************)
(* A buffer in use is in exactly one pair of hands, and one that is free   *)
(* in none: no OVERLAPPED is used for two requests at once, nothing is     *)
(* leaked, and nothing is freed twice or while the kernel still owns it.   *)
(***************************************************************************)
BufferOwnership ==
    /\ IsInjective(bFree)
    /\ ToSet(bFree) \subseteq bHeap
    /\ \A b \in BObjs : Cardinality(BufferRefs(b)) = IF b \in LiveB THEN 1 ELSE 0

\* The thread that frees a client connection has freed its socket object.
SocketGone(b) == \E t \in Threads : myB[t] = b /\ pc[t] = "drop_freeB"

(***************************************************************************)
(* Who answers for socket object s: the buffer of its client connection,   *)
(* or, for the socket of an API call or of an accept being set up or       *)
(* undone, the request or the thread that uses it.  The sweep only looks.  *)
(***************************************************************************)
SocketRefs(s) ==
    {b \in LiveB : relS[b] = s /\ ~SocketGone(b)}
        \cup {op \in ops : op.sock = s /\ relS[op.buf] # s}
        \cup {t \in Threads : /\ myS[t] = s
                              /\ pc[t] # "sweep"
                              /\ myB[t] = Null \/ relS[myB[t]] # s}

(***************************************************************************)
(* A socket object in use has exactly one owner and a free one has none,   *)
(* through failed posts, API calls that end or break off, and a sweep that *)
(* closes a socket behind its owner's back.                                *)
(***************************************************************************)
SocketOwnership ==
    /\ IsInjective(sFree)
    /\ ToSet(sFree) \subseteq sHeap
    /\ \A s \in SObjs : Cardinality(SocketRefs(s)) = IF s \in LiveS THEN 1 ELSE 0

(***************************************************************************)
(* A completion always runs the handlers of the request it completes:      *)
(* SetIoRequestFunction is in effect before the kernel has the request,    *)
(* and an API request is never mistaken for one on the client's socket.    *)
(***************************************************************************)
HandlerMatchesRequest ==
    \A op \in ops :
        /\ Kind(op.buf) = op.kind
        /\ Family(op.buf) = "api" <=> op.sock # relS[op.buf]

(***************************************************************************)
(* AcptMap lists only socket objects whose accept is still pending, even   *)
(* when GetRand gives two of them the same key.                            *)
(***************************************************************************)
AcptMapSound ==
    \A p \in Ports, k \in Keys :
        acpt[p][k] # Null =>
            /\ nKey[acpt[p][k]] = k
            /\ \E b \in LiveB : relS[b] = acpt[p][k] /\ fn[b] = <<p, "Accept">>

(***************************************************************************)
(* ConnMap lists only sockets of API calls that are still connecting, so a *)
(* sweep over it could not reach an object that was freed or reused.       *)
(***************************************************************************)
ConnMapSound ==
    \A k \in Keys :
        conn[k] # Null =>
            /\ nKey[conn[k]] = k
            /\ \/ \E op \in ops : op.sock = conn[k] /\ op.kind = "Connect"
               \/ \E t \in Threads :
                    /\ myS[t] = conn[k]
                    /\ fn[myB[t]] = <<"api", "Connect">>
                    /\ pc[t] \in {"post", "run_ok", "run_zero", "run_fail"}

(***************************************************************************)
(* Neither map refers to an object that was freed or reused, on any path   *)
(* of the handlers that insert into them and erase from them.              *)
(***************************************************************************)
MapsSound == AcptMapSound /\ ConnMapSound
=============================================================================
