-------------------------- MODULE MCIntrusiveQueue --------------------------
(***************************************************************************)
(* Instances of IntrusiveQueue for TLC.                                    *)
(***************************************************************************)
EXTENDS IntrusiveQueue, TLC

Symmetry == Permutations(Items) \cup Permutations(Blocks)

\* The links that the code may still read: those of linked nodes and sentinels.
Live == Linked \cup {sentinal[q] : q \in handles}
LiveState ==
  <<[n \in Live |-> next[n]], [n \in Live |-> prev[n]],
    [q \in handles |-> <<sentinal[q], length[q]>>], heap, on, cur, ret, item>>
=============================================================================
