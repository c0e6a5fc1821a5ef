------------------------------ MODULE MCSMemory ------------------------------
(***************************************************************************)
(* Instances of SMemory for TLC.                                           *)
(***************************************************************************)
EXTENDS SMemory, TLC

Symmetry == Permutations(Procs)
=============================================================================
