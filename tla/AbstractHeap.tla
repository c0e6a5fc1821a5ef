---------------------------- MODULE AbstractHeap ----------------------------
(***************************************************************************)
(* What src/smemory.h promises: salloc gives the caller bytes of the heap  *)
(* that nobody else holds, at an address that is a multiple of 16, or      *)
(* nothing; sfree takes them back.                                         *)
(***************************************************************************)
EXTENDS Integers

CONSTANTS HeapStart, HeapSize, Requests

VARIABLE live   \* the allocations: [at |-> address, len |-> bytes asked for]

\* The bytes of an allocation; one of no bytes still has an address of its own.
Bytes(a) == a.at .. (a.at + IF a.len = 0 THEN 0 ELSE a.len - 1)

Init == live = {}

Salloc ==
  \E at \in HeapStart .. (HeapStart + HeapSize - 1), len \in Requests :
    LET a == [at |-> at, len |-> len]
    IN  /\ at % 16 = 0
        /\ Bytes(a) \subseteq HeapStart .. (HeapStart + HeapSize - 1)
        /\ \A b \in live : Bytes(a) \cap Bytes(b) = {}
        /\ live' = live \cup {a}

Sfree == \E a \in live : live' = live \ {a}

Spec == Init /\ [][Salloc \/ Sfree]_live
=============================================================================
