---------------------------- MODULE MCPagedQuery ----------------------------
(* One command of each kind, and a list that can read another one's result. *)
EXTENDS PagedQuery

\* Pages in the list and beyond it, and the numbers that make no sense.
MCTags == {0, 1, 2}
MCPages == {-1, 0, 2}
=============================================================================
