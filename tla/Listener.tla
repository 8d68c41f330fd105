------------------------------ MODULE Listener ------------------------------
(***************************************************************************)
(* The main thread of CDBServer.cpp: it posts POST_COUNT AcceptEx requests *)
(* on each listening socket and then sleeps on one FD_ACCEPT event per     *)
(* socket, which Winsock sets when a connection arrives and no AcceptEx is *)
(* left for it.  It answers an event with POST_COUNT more, and closes old  *)
(* connections when too many accepts are outstanding.                      *)
(*                                                                         *)
(* AcceptEx is posted with a receive buffer, so it completes with the      *)
(* first data; until then, and until a worker thread has run its handler,  *)
(* the connection is in the listener's AcptMap.                            *)
(***************************************************************************)
EXTENDS Naturals, Sequences, FiniteSets, SequencesExt

CONSTANTS Clients,      \* the peers that connect
          NPorts,       \* g_dwListenPortCount
          PortOf,       \* the port a client connects to
          PostCount,    \* POST_COUNT
          MaxPending,   \* MAX_PENDING_ACCEPT
          MaxFailures   \* bound: how many PostAcceptEx calls fail

Ports == 1 .. NPorts

ASSUME ListenerAssumption ==
    /\ IsFiniteSet(Clients)
    /\ NPorts \in Nat \ {0}
    /\ PortOf \in [Clients -> Ports]
    /\ PostCount \in Nat \ {0}
    /\ MaxPending \in Nat
    /\ MaxFailures \in Nat

VARIABLES
    at,         \* where each client is
    old,        \* clients whose SO_CONNECT_TIME exceeds 60 seconds
    queue,      \* the backlog of each listening socket
    pending,    \* AcceptEx requests of each socket without a connection
    event,      \* hPostAcceptExEvent of each socket
    armed,      \* Winsock will record the next FD_ACCEPT of the socket
    pc,         \* where main is
    nIndex,     \* the port it looks at
    i,          \* how many of the POST_COUNT calls it has made
    called,     \* whether its last round on a port called AcceptEx at all
    failures    \* PostAcceptEx calls that failed so far

winsock == <<at, old, queue, pending, event, armed>>
vars == <<winsock, pc, nIndex, i, called, failures>>

(***************************************************************************)
(* The values of at:                                                       *)
(* away     not connected          queued   in the backlog                 *)
(* silent   accepted, no data yet  data     the accept has completed       *)
(* closed   closed by the sweep, the failed accept is completing           *)
(***************************************************************************)

\* AcptMap.size() of a port's LISTEN_OBJ.
AcptMapSize(p) ==
    pending[p] + Cardinality({c \in Clients :
                     PortOf[c] = p /\ at[c] \in {"silent", "data", "closed"}})

Posting(p) == pc \in {"start", "post"} /\ nIndex = p

(***************************************************************************)
(* The two sockets listen (InitListenSObj); main has posted nothing yet.   *)
(***************************************************************************)
Init ==
    /\ at = [c \in Clients |-> "away"]
    /\ old = {}
    /\ queue = [p \in Ports |-> <<>>]
    /\ pending = [p \in Ports |-> 0]
    /\ event = [p \in Ports |-> FALSE]
    /\ armed = [p \in Ports |-> TRUE]
    /\ pc = "start"
    /\ nIndex = 1
    /\ i = 0
    /\ called = [p \in Ports |-> FALSE]
    /\ failures = 0

-----------------------------------------------------------------------------
(***************************************************************************)
(* Winsock.  An FD_ACCEPT is recorded, and the event set, when a           *)
(* connection waits for an accept and recording is armed; it is armed      *)
(* again by a call of AcceptEx, even by one that fails.                    *)
(***************************************************************************)
Record(p, q, isArmed) ==
    /\ queue' = [queue EXCEPT ![p] = q]
    /\ event' = [event EXCEPT ![p] = @ \/ (isArmed /\ q # <<>>)]
    /\ armed' = [armed EXCEPT ![p] = isArmed /\ q = <<>>]

\* A client connects: a posted AcceptEx takes it, or the backlog.
Connect(c) ==
    LET p == PortOf[c] IN
    /\ at[c] = "away"
    /\ \/ /\ pending[p] > 0
          /\ pending' = [pending EXCEPT ![p] = @ - 1]
          /\ at' = [at EXCEPT ![c] = "silent"]
          /\ UNCHANGED <<queue, event, armed>>
       \/ /\ pending[p] = 0
          /\ at' = [at EXCEPT ![c] = "queued"]
          /\ Record(p, Append(queue[p], c), armed[p])
          /\ UNCHANGED pending
    /\ UNCHANGED <<old, pc, nIndex, i, called, failures>>

\* A client in the backlog gives up.
GiveUp(c) ==
    LET p == PortOf[c] IN
    /\ at[c] = "queued"
    /\ at' = [at EXCEPT ![c] = "away"]
    /\ \E k \in 1 .. Len(queue[p]) :
         /\ queue[p][k] = c
         /\ queue' = [queue EXCEPT ![p] = RemoveAt(@, k)]
    /\ UNCHANGED <<old, pending, event, armed, pc, nIndex, i, called, failures>>

\* An accepted client sends its first data, or hangs up.
Data(c) ==
    /\ at[c] = "silent"
    /\ at' = [at EXCEPT ![c] = "data"]
    /\ UNCHANGED <<old, queue, pending, event, armed, pc, nIndex, i, called, failures>>

\* A minute has passed since the client connected.
Age(c) ==
    /\ at[c] \in {"silent", "data"}
    /\ old' = old \cup {c}
    /\ UNCHANGED <<at, queue, pending, event, armed, pc, nIndex, i, called, failures>>

(***************************************************************************)
(* A worker runs AcceptCompSuccess or AcceptCompFailed, which take the     *)
(* connection out of AcptMap.  What follows on it is ConnIO's and          *)
(* Exchange's; here the client may come again.                             *)
(***************************************************************************)
AcceptComp(c) ==
    /\ at[c] \in {"data", "closed"}
    /\ at' = [at EXCEPT ![c] = "away"]
    /\ old' = old \ {c}
    /\ UNCHANGED <<queue, pending, event, armed, pc, nIndex, i, called, failures>>

-----------------------------------------------------------------------------
(***************************************************************************)
(* PostAcceptEx reaches AcceptEx: the request takes the first connection   *)
(* of the backlog or waits for one.                                        *)
(***************************************************************************)
PostAcceptEx(p) ==
    /\ Posting(p)
    /\ i < PostCount
    /\ i' = i + 1
    /\ called' = [called EXCEPT ![p] = TRUE]
    /\ \/ /\ queue[p] = <<>>
          /\ pending' = [pending EXCEPT ![p] = @ + 1]
          /\ Record(p, <<>>, TRUE)
          /\ UNCHANGED at
       \/ /\ queue[p] # <<>>
          /\ at' = [at EXCEPT ![Head(queue[p])] = "silent"]
          /\ Record(p, Tail(queue[p]), TRUE)
          /\ UNCHANGED pending
    /\ UNCHANGED <<old, pc, nIndex, failures>>

\* PostAcceptEx returns false: out of memory or sockets, or AcceptEx fails.
PostAcceptExFails(p) ==
    /\ Posting(p)
    /\ i < PostCount
    /\ failures < MaxFailures
    /\ failures' = failures + 1
    /\ i' = i + 1
    /\ \/ UNCHANGED <<queue, event, armed, called>>
       \/ /\ Record(p, queue[p], TRUE)
          /\ called' = [called EXCEPT ![p] = TRUE]
    /\ UNCHANGED <<at, old, pending, pc, nIndex>>

\* The first round on a port is over: the next port, or the main loop.
StartDone ==
    /\ pc = "start"
    /\ i = PostCount
    /\ i' = 0
    /\ IF nIndex < NPorts
       THEN nIndex' = nIndex + 1 /\ UNCHANGED pc
       ELSE nIndex' = 1 /\ pc' = "wait"
    /\ UNCHANGED <<winsock, called, failures>>

\* WSAWaitForMultipleEvents returns when one of the events is set.
WaitForEvents ==
    /\ pc = "wait"
    /\ \E p \in Ports : event[p]
    /\ pc' = "test"
    /\ nIndex' = 1
    /\ UNCHANGED <<winsock, i, called, failures>>

\* WaitForSingleObject finds the event set: WSAResetEvent, then post.
TestSet ==
    /\ pc = "test"
    /\ event[nIndex]
    /\ event' = [event EXCEPT ![nIndex] = FALSE]
    /\ i' = 0
    /\ called' = [called EXCEPT ![nIndex] = FALSE]
    /\ pc' = "post"
    /\ UNCHANGED <<at, old, queue, pending, armed, nIndex, failures>>

\* for: the next port, and after the last one the next wait.
NextPort ==
    IF nIndex < NPorts
    THEN nIndex' = nIndex + 1 /\ pc' = "test"
    ELSE nIndex' = 1 /\ pc' = "wait"

\* WSA_WAIT_TIMEOUT: continue.
TestUnset ==
    /\ pc = "test"
    /\ ~event[nIndex]
    /\ NextPort
    /\ UNCHANGED <<winsock, i, called, failures>>

\* Faulty variant: WSAResetEvent comes after the posts.
PostDoneResets ==
    /\ pc = "post"
    /\ i = PostCount
    /\ event' = [event EXCEPT ![nIndex] = FALSE]
    /\ NextPort
    /\ UNCHANGED <<at, old, queue, pending, armed, i, called, failures>>

(***************************************************************************)
(* The posts are made; with more than MAX_PENDING_ACCEPT entries in        *)
(* AcptMap the sweep closes every connection that is old, whether it has   *)
(* sent data or not.                                                       *)
(***************************************************************************)
PostDone ==
    /\ pc = "post"
    /\ i = PostCount
    /\ at' = [c \in Clients |->
                IF /\ AcptMapSize(nIndex) > MaxPending
                   /\ PortOf[c] = nIndex
                   /\ c \in old
                   /\ at[c] \in {"silent", "data"}
                THEN "closed" ELSE at[c]]
    /\ NextPort
    /\ UNCHANGED <<old, queue, pending, event, armed, i, called, failures>>

-----------------------------------------------------------------------------
Main ==
    \/ \E p \in Ports : PostAcceptEx(p) \/ PostAcceptExFails(p)
    \/ StartDone
    \/ WaitForEvents
    \/ TestSet
    \/ TestUnset
    \/ PostDone

Environment ==
    \E c \in Clients : Connect(c) \/ GiveUp(c) \/ Data(c) \/ Age(c)

Next ==
    \/ Main
    \/ Environment
    \/ \E c \in Clients : AcceptComp(c)

Spec == Init /\ [][Next]_vars

(***************************************************************************)
(* Main is a thread that keeps running when it is not blocked.  Nothing is *)
(* assumed of the clients, nor of the workers that complete accepts.       *)
(***************************************************************************)
FairSpec == Spec /\ WF_vars(Main)

-----------------------------------------------------------------------------
\* No further connection on the port will wake main.
Deaf(p) == ~armed[p] /\ ~event[p] /\ ~Posting(p)

(***************************************************************************)
(* A port is never left with its event consumed and Winsock not armed: a   *)
(* burst larger than POST_COUNT that arrives around WSAResetEvent always   *)
(* leads to another round.  The exception is a round in which every        *)
(* PostAcceptEx gave up before AcceptEx; it leaves the port deaf.          *)
(***************************************************************************)
DeafOnlyAfterFailedRound ==
    \A p \in Ports :
        Deaf(p) => ~called[p]

(***************************************************************************)
(* A client in the backlog is accepted, however many silent clients hold   *)
(* accepts and whatever happens on the other port, unless its port went    *)
(* deaf in a round that failed completely.                                 *)
(***************************************************************************)
EveryClientAccepted ==
    \A c \in Clients :
        at[c] = "queued" ~> \/ at[c] # "queued"
                            \/ Deaf(PortOf[c]) /\ ~called[PortOf[c]]
=============================================================================
