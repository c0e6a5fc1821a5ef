--------------------------- MODULE IntrusiveQueue ---------------------------
(***************************************************************************)
(* src/queue.c at the level of its pointers.  A queue is a heap block with *)
(* a sentinel block and a length; an item is linked through the two words  *)
(* at its own start.  Unlinking an item leaves its own two words as they   *)
(* were.                                                                   *)
(*                                                                         *)
(* Callers mask IRQs around every call (Scheduler models them), so a call  *)
(* is one step, except queue_iterate, which calls back.  What a caller     *)
(* must not do is part of the contract the comments of each action name:   *)
(* the code cannot detect it.                                              *)
(***************************************************************************)
EXTENDS Integers, SequencesExt

CONSTANTS
  Items,   \* what is queued: PCBs
  Blocks,  \* the blocks salloc can hand out (both structs are one 16-byte unit)
  Null     \* the C NULL pointer

ASSUME QueueAssumption ==
  /\ IsFiniteSet(Items)
  /\ Items \cap Blocks = {}
  /\ Null \notin Items \cup Blocks

Nodes == Items \cup Blocks

VARIABLES
  next, prev,  \* queue_node_header, of every item and block
  sentinal,    \* the two fields of struct queue, of every block
  length,
  heap,        \* the blocks that are allocated
  handles,     \* the queues the callers hold
  on, cur,     \* queue_iterate's queue (Null when it is not running) and node
  ret, item    \* what the last call returned, and stored through its void**

links  == <<next, prev>>
fields == <<sentinal, length>>
iter   == <<on, cur>>
vars   == <<links, fields, heap, handles, iter, ret, item>>

Init ==
  /\ next = [n \in Nodes |-> Null]
  /\ prev = [n \in Nodes |-> Null]
  /\ sentinal = [b \in Blocks |-> Null]
  /\ length = [b \in Blocks |-> 0]
  /\ heap = {} /\ handles = {}
  /\ on = Null /\ cur = Null
  /\ ret = 0 /\ item = Null

\* The node that is k links after n, for every k that a list can reach.
Ahead(nx, n) ==
  LET at[k \in 0..Cardinality(Items)] == IF k = 0 THEN n ELSE nx[at[k - 1]] IN at

\* The nodes from n on, up to the sentinel s.  A list that does not come back
\* to s shows as one item too many.
Walk(nx, n, s) ==
  LET at   == Ahead(nx, n)
      back == {k \in DOMAIN at : at[k] = s}
  IN  [k \in 1..(IF back = {} THEN Cardinality(DOMAIN at) ELSE Min(back)) |-> at[k - 1]]

Contents(q) == Walk(next, next[sentinal[q]], sentinal[q])
Linked      == UNION {Range(Contents(q)) : q \in handles}

-----------------------------------------------------------------------------
(* The operators named ...Mutant are wrong variants of the definition that   *)
(* follows them; no specification uses them.                                *)

\* A call returns r and stores x through its void** argument.
Returns(r, x) == ret' = r /\ item' = x /\ UNCHANGED iter

\* An early return: nothing else changes.
Refuse == on = Null /\ Returns(-1, Null) /\ UNCHANGED <<links, fields, heap, handles>>

\* salloc twice: a queue and its sentinel
Create ==
  \E q, s \in Blocks \ heap :
    /\ q # s
    /\ heap' = heap \cup {q, s}
    /\ handles' = handles \cup {q}
    /\ next' = [next EXCEPT ![s] = s]
    /\ prev' = [prev EXCEPT ![s] = s]
    /\ sentinal' = [sentinal EXCEPT ![q] = s]
    /\ length' = [length EXCEPT ![q] = 0]
    /\ Returns(q, Null)

\* salloc finds no block for the queue: the rest of the heap is taken.
NoQueue == UNCHANGED heap

\* does not free the queue's block again
NoSentinalMutant == \E q \in Blocks \ heap : heap' = heap \cup {q}

\* It finds one, and then none for the sentinel: sfree of the queue's.
NoSentinal ==
  \E q \in Blocks \ heap : LET taken == heap \cup {q} IN heap' = taken \ {q}

\* queue_new
New ==
  /\ on = Null
  /\ \/ Create
     \/ /\ NoQueue \/ NoSentinal
        /\ Returns(Null, Null)
        /\ UNCHANGED <<links, fields, handles>>

\* Links i in front of node n, on queue q.
LinkBefore(q, i, n) ==
  /\ next' = [next EXCEPT ![i] = n, ![prev[n]] = i]
  /\ prev' = [prev EXCEPT ![i] = prev[n], ![n] = i]
  /\ length' = [length EXCEPT ![q] = @ + 1]
  /\ Returns(0, Null)
  /\ UNCHANGED <<sentinal, heap, handles>>

Unlink(q, n) ==
  /\ next' = [next EXCEPT ![prev[n]] = next[n]]
  /\ prev' = [prev EXCEPT ![next[n]] = prev[n]]
  /\ length' = [length EXCEPT ![q] = @ - 1]
  /\ UNCHANGED <<sentinal, heap, handles>>

\* Contract: the item is on no queue.
Prepend(q, i) == on = Null /\ i \notin Linked /\ LinkBefore(q, i, next[sentinal[q]])

\* new_node->next->prev is not set
AppendMutant(q, i) ==
  /\ on = Null /\ i \notin Linked
  /\ next' = [next EXCEPT ![i] = sentinal[q], ![prev[sentinal[q]]] = i]
  /\ prev' = [prev EXCEPT ![i] = prev[sentinal[q]]]
  /\ length' = [length EXCEPT ![q] = @ + 1]
  /\ Returns(0, Null)
  /\ UNCHANGED <<sentinal, heap, handles>>

QueueAppend(q, i) == on = Null /\ i \notin Linked /\ LinkBefore(q, i, sentinal[q])

\* does not test for an empty queue
DequeueMutant(q) ==
  /\ on = Null
  /\ Unlink(q, next[sentinal[q]])
  /\ Returns(0, next[sentinal[q]])

Dequeue(q) ==
  IF length[q] = 0
  THEN Refuse
  ELSE /\ on = Null
       /\ Unlink(q, next[sentinal[q]])
       /\ Returns(0, next[sentinal[q]])

\* queue_delete looks for the item before it unlinks it.
Delete(q, i) ==
  IF i \in Range(Contents(q))
  THEN on = Null /\ Unlink(q, i) /\ Returns(0, Null)
  ELSE Refuse

\* Contract: the item is on this queue.
DeleteFast(q, i) ==
  on = Null /\ i \in Range(Contents(q)) /\ Unlink(q, i) /\ Returns(0, Null)

\* queue_find, with the set s of the nodes the caller's f accepts
Find(q, s) ==
  LET k == SelectInSeq(Contents(q), LAMBDA n : n \in s)
  IN  IF k = 0
      THEN Refuse
      ELSE /\ on = Null
           /\ Returns(0, Contents(q)[k])
           /\ UNCHANGED <<links, fields, heap, handles>>

Length(q) ==
  /\ on = Null
  /\ Returns(length[q], Null)
  /\ UNCHANGED <<links, fields, heap, handles>>

\* The caller does not use a queue it has freed.
Free(q) ==
  IF length[q] # 0
  THEN Refuse
  ELSE /\ on = Null
       /\ heap' = heap \ {sentinal[q], q}
       /\ handles' = handles \ {q}
       /\ Returns(0, Null)
       /\ UNCHANGED <<links, fields>>

-----------------------------------------------------------------------------
(* queue_iterate: f is called with the node, and cur->next is read after it *)
(* has returned.  Contract: f leaves the queues alone, or unlinks the node  *)
(* it is given.                                                             *)
IterateCall(q) ==
  /\ on = Null
  /\ on' = q /\ cur' = next[sentinal[q]]
  /\ item' = Null
  /\ UNCHANGED <<links, fields, heap, handles, ret>>

\* f unlinks the node and makes it point at itself
IterateVisitMutant ==
  /\ on # Null /\ cur # sentinal[on]
  /\ next' = [next EXCEPT ![prev[cur]] = next[cur], ![cur] = cur]
  /\ prev' = [prev EXCEPT ![next[cur]] = prev[cur], ![cur] = cur]
  /\ length' = [length EXCEPT ![on] = @ - 1]
  /\ item' = cur /\ cur' = next'[cur]
  /\ UNCHANGED <<sentinal, heap, handles, on, ret>>

IterateVisit ==
  /\ on # Null /\ cur # sentinal[on]
  /\ \/ UNCHANGED <<links, fields, heap, handles>>
     \/ Unlink(on, cur)
  /\ item' = cur
  /\ cur' = next'[cur]
  /\ UNCHANGED <<on, ret>>

IterateReturn ==
  /\ on # Null /\ cur = sentinal[on]
  /\ on' = Null /\ cur' = Null /\ ret' = 0
  /\ UNCHANGED <<links, fields, heap, handles, item>>

\* Every call refuses a NULL queue, and append and prepend a NULL item.
NullCall == Refuse

Next ==
  \/ New
  \/ NullCall
  \/ \E q \in handles, i \in Items :
       \/ Prepend(q, i) \/ QueueAppend(q, i)
       \/ Delete(q, i) \/ DeleteFast(q, i)
  \/ \E q \in handles : \E s \in SUBSET Items : Find(q, s)
  \/ \E q \in handles : Dequeue(q) \/ Length(q) \/ Free(q) \/ IterateCall(q)
  \/ IterateVisit
  \/ IterateReturn

Spec == Init /\ [][Next]_vars

-----------------------------------------------------------------------------
\* What the variables hold, and what a caller can get back: an item, never a
\* sentinel, and never a negative length.
TypeOK ==
  /\ next \in [Nodes -> Nodes \cup {Null}]
  /\ prev \in [Nodes -> Nodes \cup {Null}]
  /\ sentinal \in [Blocks -> Blocks \cup {Null}]
  /\ length \in [Blocks -> Nat]
  /\ heap \in SUBSET Blocks /\ handles \in SUBSET heap
  /\ on \in handles \cup {Null} /\ cur \in Nodes \cup {Null}
  /\ ret \in {-1, Null} \cup Nat \cup Blocks
  /\ item \in Items \cup {Null}

\* The representation of a queue: from the sentinel, `next` runs through exactly
\* `length` items and back, and `prev` runs the same way in reverse.  queue_dequeue
\* and queue_length rely on the count, queue_find and queue_delete on the links,
\* queue_delete_fast on prev.
Rings ==
  \A q \in handles :
    LET ring == <<sentinal[q]>> \o Contents(q) \o <<sentinal[q]>>
    IN  /\ length[q] = Len(ring) - 2
        /\ IsInjective(Tail(ring))
        /\ \A k \in 1..(Len(ring) - 1) :
             next[ring[k]] = ring[k + 1] /\ prev[ring[k + 1]] = ring[k]

\* No block is lost: what is allocated is the queues the callers hold and one
\* sentinel for each, also after a queue_new that ran out of memory half way.
NoLeak ==
  /\ heap = handles \cup {sentinal[q] : q \in handles}
  /\ Cardinality(heap) = 2 * Cardinality(handles)

-----------------------------------------------------------------------------
(* The inductive invariant.                                                 *)

\* The node at place k of the ring of sentinel s and items c.
Place(s, c, k) == IF k \in DOMAIN c THEN c[k] ELSE s

\* nx runs through it, and pv back.
IsRing(nx, pv, s, c) ==
  /\ c \in Seq(Items) /\ IsInjective(c)
  /\ \A k \in 0..Len(c) : /\ nx[Place(s, c, k)] = Place(s, c, k + 1)
                          /\ pv[Place(s, c, k + 1)] = Place(s, c, k)

\* Every queue is a ring of `length` items, and no two share a node.
RingsOK ==
  /\ \A q \in handles :
       /\ sentinal[q] \in heap \ handles
       /\ length[q] = Len(Contents(q))
       /\ IsRing(next, prev, sentinal[q], Contents(q))
  /\ \A q, r \in handles :
       q # r => /\ sentinal[q] # sentinal[r]
                /\ Range(Contents(q)) \cap Range(Contents(r)) = {}

\* queue_iterate stands at a node of its queue.
IterateOK == on # Null => cur \in Range(Contents(on)) \cup {sentinal[on]}

QueueInv == TypeOK /\ NoLeak /\ IsFiniteSet(heap) /\ RingsOK /\ IterateOK

-----------------------------------------------------------------------------
\* The linked lists implement the sequences of AbstractQueues.
AQ == INSTANCE AbstractQueues WITH
        Handles  <- Blocks,
        contents <- [q \in handles |-> Contents(q)],
        rest     <- IF on = Null THEN <<>> ELSE Walk(next, cur, sentinal[on])

\* Every call on the links has the effect and the result that AbstractQueues
\* states on the sequences.
ImplementsSequences == AQ!Spec
=============================================================================
