--------------------------- MODULE AbstractQueues ---------------------------
(***************************************************************************)
(* What src/queue.h promises its callers: each queue is a finite sequence  *)
(* of items, and every call has the effect and the result below.  Nothing  *)
(* is said here of nodes, links, lengths or the heap; IntrusiveQueue is    *)
(* shown to implement this specification.                                  *)
(***************************************************************************)
EXTENDS Integers, SequencesExt

CONSTANTS Items, Handles, Null

VARIABLES
  contents,  \* the queues that exist, each with its items, first to last
  on,        \* the queue queue_iterate is working on, or Null
  rest,      \* the items it has still to visit
  ret,       \* what the last call returned
  item       \* what the last call stored through its void** argument

vars == <<contents, on, rest, ret, item>>

Queues == DOMAIN contents
Linked == UNION {Range(contents[q]) : q \in Queues}

Init == contents = <<>> /\ on = Null /\ rest = <<>> /\ ret = 0 /\ item = Null

\* The effect of a call: queue q becomes s, the call returns r and stores x.
Becomes(q, s, r, x) ==
  /\ on = Null
  /\ contents' = [contents EXCEPT ![q] = s]
  /\ ret' = r /\ item' = x
  /\ UNCHANGED <<on, rest>>

\* queue_new gives an empty queue, or NULL when there is no memory for it.
New ==
  /\ on = Null
  /\ \/ \E q \in Handles \ Queues :
          /\ contents' = [r \in Queues \cup {q} |-> IF r = q THEN <<>> ELSE contents[r]]
          /\ ret' = q
     \/ UNCHANGED contents /\ ret' = Null
  /\ item' = Null
  /\ UNCHANGED <<on, rest>>

\* A call that is refused changes nothing and says so.
Refuse(x) == on = Null /\ ret' = -1 /\ item' = x /\ UNCHANGED <<contents, on, rest>>

Prepend(q, i) == i \notin Linked /\ Becomes(q, <<i>> \o contents[q], 0, Null)
Append_(q, i) == i \notin Linked /\ Becomes(q, Append(contents[q], i), 0, Null)

Dequeue(q) ==
  IF contents[q] = <<>>
  THEN Refuse(Null)
  ELSE Becomes(q, Tail(contents[q]), 0, Head(contents[q]))

Delete(q, i) ==
  IF i \in Range(contents[q])
  THEN Becomes(q, RemoveFirst(contents[q], i), 0, Null)
  ELSE Refuse(Null)

\* The first item, if any, that the caller's predicate (the set s) accepts.
Find(q, s) ==
  LET k == SelectInSeq(contents[q], LAMBDA i : i \in s)
  IN  IF k = 0 THEN Refuse(Null) ELSE Becomes(q, contents[q], 0, contents[q][k])

Length(q) == Becomes(q, contents[q], Len(contents[q]), Null)

Free(q) ==
  IF contents[q] = <<>>
  THEN /\ on = Null
       /\ contents' = [r \in Queues \ {q} |-> contents[r]]
       /\ ret' = 0 /\ item' = Null
       /\ UNCHANGED <<on, rest>>
  ELSE Refuse(Null)

\* queue_iterate hands every item the queue held when it was called to f, in
\* order; f may take the item it is given off the queue.
IterateCall(q) ==
  /\ on = Null
  /\ on' = q /\ rest' = contents[q]
  /\ item' = Null
  /\ UNCHANGED <<contents, ret>>

IterateVisit ==
  /\ on # Null /\ rest # <<>>
  /\ item' = Head(rest)
  /\ rest' = Tail(rest)
  /\ \/ UNCHANGED contents
     \/ contents' = [contents EXCEPT ![on] = RemoveFirst(@, Head(rest))]
  /\ UNCHANGED <<on, ret>>

IterateReturn ==
  /\ on # Null /\ rest = <<>>
  /\ on' = Null /\ ret' = 0
  /\ UNCHANGED <<contents, rest, item>>

Next ==
  \/ New
  \/ Refuse(Null)
  \/ \E q \in Queues :
       \/ \E i \in Items : Prepend(q, i) \/ Append_(q, i) \/ Delete(q, i)
       \/ \E s \in SUBSET Items : Find(q, s)
       \/ Dequeue(q) \/ Length(q) \/ Free(q) \/ IterateCall(q)
  \/ IterateVisit
  \/ IterateReturn

Spec == Init /\ [][Next]_vars
=============================================================================
