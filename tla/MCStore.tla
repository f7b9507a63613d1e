------------------------------ MODULE MCStore ------------------------------
(* A small instance of Store: an invitation for one person only, and two   *)
(* people who want to join with it.  The two processes can do the same,    *)
(* and so can the two people.                                              *)
EXTENDS Store, TLC

ForOne == [i \in Invs |-> 1]
Alike == Permutations(Procs) \cup Permutations(People)
=============================================================================
