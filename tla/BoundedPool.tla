----------------------------- MODULE BoundedPool -----------------------------
(***************************************************************************)
(* What a database connection pool promises its callers, with no locks,    *)
(* events or counters: every connection is in exactly one place, a caller  *)
(* gets a connection only from the shelf or by opening a new one, and at   *)
(* most Limit connections exist at any time.  DBPool implements it.        *)
(***************************************************************************)
EXTENDS Naturals, FiniteSets

CONSTANTS Threads,  \* the callers
          Conns,    \* the identities a connection can have
          Limit     \* how many connections may exist at once

VARIABLE place      \* where each connection is

(***************************************************************************)
(* A connection does not exist, lies on the shelf, is in the hands of one  *)
(* caller, or was dropped by a caller that never gave it back.             *)
(***************************************************************************)
Places == {"none", "shelf", "lost"} \cup Threads

Existing == {c \in Conns : place[c] # "none"}

PoolInit ==
    /\ place \in [Conns -> {"none", "shelf"}]
    /\ Cardinality(Existing) <= Limit

Open(t, c) ==
    /\ place[c] = "none"
    /\ Cardinality(Existing) < Limit
    /\ place' = [place EXCEPT ![c] = t]

Take(t, c) ==
    /\ place[c] = "shelf"
    /\ place' = [place EXCEPT ![c] = t]

GiveBack(t, c) ==
    /\ place[c] = t
    /\ place' = [place EXCEPT ![c] = "shelf"]

Discard(t, c) ==
    /\ place[c] = t
    /\ place' = [place EXCEPT ![c] = "none"]

Forget(t, c) ==
    /\ place[c] = t
    /\ place' = [place EXCEPT ![c] = "lost"]

PoolNext ==
    \E t \in Threads, c \in Conns :
        \/ Open(t, c)
        \/ Take(t, c)
        \/ GiveBack(t, c)
        \/ Discard(t, c)
        \/ Forget(t, c)

PoolSpec == PoolInit /\ [][PoolNext]_place
=============================================================================
