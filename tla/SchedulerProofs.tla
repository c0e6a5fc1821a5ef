---------------------------- MODULE SchedulerProofs ----------------------------
(***************************************************************************)
(* Proofs about Scheduler: its safety properties, for any number of        *)
(* processes, any depth of nested interrupts and any tick counter width,   *)
(* wherever the timer expires; first those that follow from Inv, then what *)
(* the semaphores count, from CountInv.                                    *)
(***************************************************************************)
EXTENDS SchedulerInv, TLAPS, SequenceTheorems, FiniteSetTheorems

-----------------------------------------------------------------------------
(* The operators Scheduler is built from: what queue_append, queue_dequeue  *)
(* and queue_delete_fast do to queues in which nobody is linked twice, and  *)
(* what calls and returns do to a call stack.                               *)

\* A queue as a sequence: its positions, and membership in terms of them.
LEMMA SeqFacts ==
  ASSUME NEW qs, QType(qs), NEW q \in Queues
  PROVE  /\ qs[q] \in Seq(Pcb) /\ Len(qs[q]) \in Nat /\ DOMAIN qs[q] = 1..Len(qs[q])
         /\ \A i \in 1..Len(qs[q]) : qs[q][i] \in Pcb /\ qs[q][i] \in Members(qs, q)
         /\ \A x : x \in Members(qs, q) <=> \E i \in 1..Len(qs[q]) : x = qs[q][i]
BY LenProperties, ElementOfSeq DEF QType, Members, Range

\* Once, of two given positions.
LEMMA OnceLemma ==
  ASSUME NEW qs, Once(qs), NEW a \in Queues, NEW b \in Queues,
         NEW i \in DOMAIN qs[a], NEW j \in DOMAIN qs[b], qs[a][i] = qs[b][j]
  PROVE  a = b /\ i = j
BY DEF Once

\* queue_append of a process that is linked nowhere keeps everybody linked once,
\* adds the process to its queue and leaves the other queues alone.
LEMMA EnqueueLemma ==
  ASSUME NEW qs, QType(qs), Once(qs),
         NEW q \in Queues, NEW p \in Pcb, ~Linked(qs, p),
         NEW e, e = Enqueue(qs, q, p)
  PROVE  /\ QType(e) /\ Once(e)
         /\ \A r \in Queues : r # q => e[r] = qs[r] /\ Members(e, r) = Members(qs, r)
         /\ Members(e, q) = Members(qs, q) \cup {p}
         /\ Len(e[q]) = Len(qs[q]) + 1
<1>1. e \in [Queues -> Seq(Pcb)] /\ e[q] = Append(qs[q], p)
      /\ \A r \in Queues : r # q => e[r] = qs[r] /\ Members(e, r) = Members(qs, r)
  BY AppendProperties DEF QType, Enqueue, Members
<1> DEFINE n == Len(qs[q])
<1>2. /\ n \in Nat /\ Len(e[q]) = n + 1 /\ e[q][n + 1] = p
      /\ \A i \in 1..n : e[q][i] = qs[q][i]
  BY <1>1, AppendProperties, SeqFacts DEF QType
<1>t. QType(e) /\ n + 1 \in Nat
  BY <1>1, <1>2 DEF QType
<1>d. DOMAIN e[q] = 1..(n + 1) /\ DOMAIN qs[q] = 1..n
  BY <1>2, <1>t, SeqFacts
<1>3. Members(e, q) = Members(qs, q) \cup {p}
  <2>1. \A x : x \in Members(e, q) <=> \E i \in 1..(n + 1) : x = e[q][i]
    BY <1>2, <1>t, SeqFacts
  <2>2. \A x : x \in Members(qs, q) <=> \E i \in 1..n : x = qs[q][i]
    BY SeqFacts
  <2>3. \A i : i \in 1..(n + 1) <=> i \in 1..n \/ i = n + 1
    BY <1>2
  <2>4. ASSUME NEW x \in Members(e, q) PROVE x \in Members(qs, q) \cup {p}
    <3>1. PICK i \in 1..(n + 1) : x = e[q][i]
      BY <2>1
    <3> QED
      BY <3>1, <2>2, <2>3, <1>2
  <2>5. ASSUME NEW x \in Members(qs, q) \cup {p} PROVE x \in Members(e, q)
    <3>1. \E i \in 1..(n + 1) : x = e[q][i]
      BY <2>2, <2>3, <1>2
    <3> QED
      BY <3>1, <2>1
  <2> QED
    BY <2>4, <2>5
<1>4. \A r \in Queues : \A j \in DOMAIN qs[r] : qs[r][j] # p
  BY DEF Linked, Members, Range
<1>5. Once(e)
  <2> DEFINE old(r, k) == k \in DOMAIN qs[r] /\ e[r][k] = qs[r][k]
             new(r, k) == r = q /\ k = n + 1 /\ e[r][k] = p
  <2>1. ASSUME NEW r \in Queues, NEW k \in DOMAIN e[r]
        PROVE  old(r, k) \/ new(r, k)
    <3>1. CASE r = q
      BY <3>1, <1>2, <1>d
    <3>2. CASE r # q
      BY <3>2, <1>1
    <3> QED
      BY <3>1, <3>2
  <2> SUFFICES ASSUME NEW a \in Queues, NEW b \in Queues,
                      NEW i \in DOMAIN e[a], NEW j \in DOMAIN e[b],
                      e[a][i] = e[b][j]
               PROVE  a = b /\ i = j
    BY DEF Once
  <2>2. CASE old(a, i) /\ old(b, j)
    <3>1. qs[a][i] = qs[b][j]
      BY <2>2
    <3> QED
      BY <3>1, <2>2, OnceLemma
  <2>3. CASE old(a, i) /\ new(b, j)
    BY <2>3, <1>4
  <2>4. CASE new(a, i) /\ old(b, j)
    BY <2>4, <1>4
  <2>5. CASE new(a, i) /\ new(b, j)
    BY <2>5
  <2> QED
    BY <2>1, <2>2, <2>3, <2>4, <2>5
<1> QED
  BY <1>1, <1>2, <1>3, <1>5 DEF QType

\* d is qs with the process at position m of queue q dropped
Dropped(qs, q, m, d) ==
  /\ QType(d)
  /\ \A r \in Queues : r # q => d[r] = qs[r]
  /\ Len(d[q]) = Len(qs[q]) - 1
  /\ \A k \in 1..(Len(qs[q]) - 1) : d[q][k] = qs[q][IF k < m THEN k ELSE k + 1]

\* Taking out one position of a queue, be it the first or another, keeps everybody
\* linked once, and unlinks just the process at that position.
LEMMA DropLemma ==
  ASSUME NEW qs, QType(qs), Once(qs),
         NEW q \in Queues, NEW m \in 1..Len(qs[q]),
         NEW d, Dropped(qs, q, m, d)
  PROVE  /\ Once(d)
         /\ \A r \in Queues : r # q => Members(d, r) = Members(qs, r)
         /\ Members(d, q) = Members(qs, q) \ {qs[q][m]}
         /\ ~Linked(d, qs[q][m])
<1> DEFINE n == Len(qs[q])
           old(k) == IF k < m THEN k ELSE k + 1
<1>0. /\ QType(d)
      /\ \A r \in Queues : r # q => d[r] = qs[r]
      /\ Len(d[q]) = n - 1
      /\ \A k \in 1..(n - 1) : d[q][k] = qs[q][old(k)]
  BY DEF Dropped
<1>1. n \in Nat /\ DOMAIN qs[q] = 1..n /\ DOMAIN d[q] = 1..(n - 1)
      /\ \A k \in 1..(n - 1) : old(k) \in 1..n /\ d[q][k] = qs[q][old(k)]
  <2>1. n \in Nat /\ DOMAIN qs[q] = 1..n
    BY SeqFacts
  <2>2. DOMAIN d[q] = 1..(n - 1)
    BY <1>0, SeqFacts
  <2>3. \A k \in 1..(n - 1) : old(k) \in 1..n
    BY <2>1
  <2> QED
    BY <1>0, <2>1, <2>2, <2>3
<1>2. ASSUME NEW r \in Queues, NEW k \in DOMAIN d[r]
      PROVE  \E i \in DOMAIN qs[r] : /\ d[r][k] = qs[r][i]
                                     /\ i = IF r = q THEN old(k) ELSE k
                                     /\ k \in Int
  <2>1. CASE r = q
    <3>1. k \in 1..(n - 1) /\ k \in Int
      BY <1>1, <2>1
    <3>2. old(k) \in DOMAIN qs[r] /\ d[r][k] = qs[r][old(k)]
      BY <1>1, <2>1, <3>1
    <3> QED
      BY <3>1, <3>2, <2>1
  <2>2. CASE r # q
    <3>1. d[r] = qs[r] /\ k \in 1..Len(qs[r]) /\ Len(qs[r]) \in Nat
      BY <1>0, <2>2, SeqFacts
    <3>2. k \in DOMAIN qs[r] /\ k \in Int /\ d[r][k] = qs[r][k]
      BY <3>1
    <3> QED
      BY <3>2, <2>2
  <2> QED
    BY <2>1, <2>2
<1>3. Once(d)
  <2> SUFFICES ASSUME NEW a \in Queues, NEW b \in Queues,
                      NEW i \in DOMAIN d[a], NEW j \in DOMAIN d[b],
                      d[a][i] = d[b][j]
               PROVE  a = b /\ i = j
    BY DEF Once
  <2>1. PICK k \in DOMAIN qs[a] :
          d[a][i] = qs[a][k] /\ k = (IF a = q THEN old(i) ELSE i) /\ i \in Int
    BY <1>2
  <2>2. PICK l \in DOMAIN qs[b] :
          d[b][j] = qs[b][l] /\ l = (IF b = q THEN old(j) ELSE j) /\ j \in Int
    BY <1>2
  <2>3. qs[a][k] = qs[b][l]
    BY <2>1, <2>2
  <2>4. a = b /\ k = l
    BY <2>3, OnceLemma
  <2> QED
    BY <2>1, <2>2, <2>4
<1>4. ~Linked(d, qs[q][m])
  <2> SUFFICES ASSUME NEW r \in Queues, NEW k \in DOMAIN d[r], d[r][k] = qs[q][m]
               PROVE  FALSE
    BY DEF Linked, Members, Range
  <2>1. PICK i \in DOMAIN qs[r] :
          d[r][k] = qs[r][i] /\ i = (IF r = q THEN old(k) ELSE k) /\ k \in Int
    BY <1>2
  <2>2. qs[r][i] = qs[q][m] /\ m \in DOMAIN qs[q]
    BY <2>1, <1>1
  <2>3. r = q /\ i = m
    BY <2>2, OnceLemma
  <2> QED
    BY <2>1, <2>3
<1>5. Members(d, q) = Members(qs, q) \ {qs[q][m]}
  <2>1. \A x : x \in Members(d, q) <=> \E i \in 1..(n - 1) : x = d[q][i]
    BY <1>1 DEF Members, Range
  <2>2. \A x : x \in Members(qs, q) <=> \E i \in 1..n : x = qs[q][i]
    BY SeqFacts
  <2>3. ASSUME NEW x \in Members(d, q) PROVE x \in Members(qs, q)
    BY <2>1, <2>2, <1>1
  <2>4. qs[q][m] \notin Members(d, q)
    BY <1>4 DEF Linked
  <2>5. ASSUME NEW x \in Members(qs, q), x # qs[q][m] PROVE x \in Members(d, q)
    <3>1. PICK i \in 1..n : x = qs[q][i]
      BY <2>2
    <3> DEFINE k == IF i < m THEN i ELSE i - 1
    <3>2. k \in 1..(n - 1) /\ old(k) = i
      BY <3>1, <2>5, <1>1
    <3>3. d[q][k] = x
      BY <3>1, <3>2, <1>1
    <3> QED
      BY <3>2, <3>3, <2>1
  <2> QED
    BY <2>3, <2>4, <2>5
<1> QED
  BY <1>0, <1>3, <1>4, <1>5 DEF Members

\* queue_dequeue of a queue that is not empty unlinks its first process.
LEMMA DequeueLemma ==
  ASSUME NEW qs, QType(qs), Once(qs),
         NEW q \in Queues, qs[q] # <<>>,
         NEW d, d = Dequeue(qs, q)
  PROVE  /\ QType(d) /\ Once(d)
         /\ \A r \in Queues : r # q => d[r] = qs[r] /\ Members(d, r) = Members(qs, r)
         /\ Head(qs[q]) \in Pcb /\ Head(qs[q]) \in Members(qs, q)
         /\ Members(d, q) = Members(qs, q) \ {Head(qs[q])}
         /\ Len(d[q]) = Len(qs[q]) - 1
         /\ ~Linked(d, Head(qs[q]))
<1>1. d \in [Queues -> Seq(Pcb)] /\ d[q] = Tail(qs[q])
      /\ \A r \in Queues : r # q => d[r] = qs[r]
  BY HeadTailProperties DEF QType, Dequeue
<1>2. /\ qs[q] \in Seq(Pcb) /\ Len(qs[q]) \in Nat \ {0}
      /\ Head(qs[q]) = qs[q][1] /\ Head(qs[q]) \in Pcb
  BY EmptySeq, SeqFacts DEF QType
<1>3. /\ Len(d[q]) = Len(qs[q]) - 1
      /\ \A k \in 1..(Len(qs[q]) - 1) : d[q][k] = qs[q][IF k < 1 THEN k ELSE k + 1]
  BY <1>1, <1>2, HeadTailProperties
<1>4. QType(d) /\ 1 \in 1..Len(qs[q])
  BY <1>1, <1>2 DEF QType
<1>5. qs[q][1] \in Members(qs, q) /\ Dropped(qs, q, 1, d)
  BY <1>1, <1>3, <1>4, SeqFacts DEF Dropped
<1>6. /\ Once(d)
      /\ \A r \in Queues : r # q => Members(d, r) = Members(qs, r)
      /\ Members(d, q) = Members(qs, q) \ {qs[q][1]}
      /\ ~Linked(d, qs[q][1])
  BY <1>4, <1>5, DropLemma
<1> QED
  BY <1>1, <1>2, <1>3, <1>4, <1>5, <1>6

\* queue_delete_fast takes the process at the position it is given out of its queue.
LEMMA UnlinkDrops ==
  ASSUME NEW qs, QType(qs), NEW q \in Queues, NEW m \in DOMAIN qs[q],
         NEW d, d = Unlink(qs, q, m)
  PROVE  Dropped(qs, q, m, d)
<1> DEFINE s == qs[q]
<1>1. s \in Seq(Pcb) /\ Len(s) \in Nat /\ DOMAIN s = 1..Len(s) /\ m \in 1..Len(s)
      /\ \A i \in 1..Len(s) : s[i] \in Pcb
  BY SeqFacts
<1> HIDE DEF s
<1> DEFINE a == SubSeq(s, 1, m - 1)
           b == SubSeq(s, m + 1, Len(s))
<1>2. a \in Seq(Pcb) /\ Len(a) = m - 1 /\ \A i \in 1..(m - 1) : a[i] = s[i]
  <2>1. m - 1 \in Int /\ 1 \in Int /\ \A i \in 1..(m - 1) : s[i] \in Pcb
    BY <1>1
  <2>2. /\ a \in Seq(Pcb)
        /\ Len(a) = IF 1 <= m - 1 THEN (m - 1) - 1 + 1 ELSE 0
        /\ \A i \in 1..((m - 1) - 1 + 1) : a[i] = s[1 + i - 1]
    BY <2>1, SubSeqProperties DEF a
  <2> QED
    BY <1>1, <2>2
<1>3. b \in Seq(Pcb) /\ Len(b) = Len(s) - m
      /\ \A i \in 1..(Len(s) - m) : b[i] = s[m + i]
  <2>1. m + 1 \in Int /\ Len(s) \in Int /\ \A i \in (m + 1)..Len(s) : s[i] \in Pcb
    BY <1>1
  <2>2. /\ b \in Seq(Pcb)
        /\ Len(b) = IF m + 1 <= Len(s) THEN Len(s) - (m + 1) + 1 ELSE 0
        /\ \A i \in 1..(Len(s) - (m + 1) + 1) : b[i] = s[(m + 1) + i - 1]
    BY <2>1, SubSeqProperties DEF b
  <2>3. Len(b) = Len(s) - m
    BY <1>1, <2>2
  <2>4. ASSUME NEW i \in 1..(Len(s) - m) PROVE b[i] = s[m + i]
    <3>1. i \in 1..(Len(s) - (m + 1) + 1) /\ (m + 1) + i - 1 = m + i
      BY <1>1
    <3>2. b[i] = s[(m + 1) + i - 1]
      BY <2>2, <3>1
    <3> QED
      BY <3>1, <3>2
  <2> QED
    BY <2>2, <2>3, <2>4
<1> HIDE DEF a, b
<1>4. a \o b \in Seq(Pcb) /\ Len(a \o b) = Len(s) - 1
      /\ \A k \in 1..(Len(s) - 1) : (a \o b)[k] = s[IF k < m THEN k ELSE k + 1]
  <2>1. /\ a \o b \in Seq(Pcb) /\ Len(a \o b) = Len(a) + Len(b)
        /\ \A k \in 1..(Len(a) + Len(b)) :
             (a \o b)[k] = IF k <= Len(a) THEN a[k] ELSE b[k - Len(a)]
    BY <1>2, <1>3, ConcatProperties
  <2>2. ASSUME NEW k \in 1..(Len(s) - 1)
        PROVE  (a \o b)[k] = s[IF k < m THEN k ELSE k + 1]
    <3>1. CASE k < m
      BY <1>1, <1>2, <1>3, <2>1, <3>1
    <3>2. CASE ~(k < m)
      <4>1. (a \o b)[k] = b[k - (m - 1)] /\ k - (m - 1) \in 1..(Len(s) - m)
        BY <1>1, <1>2, <1>3, <2>1, <3>2
      <4>2. m + (k - (m - 1)) = k + 1
        BY <1>1
      <4> QED
        BY <1>3, <3>2, <4>1, <4>2
    <3> QED
      BY <3>1, <3>2
  <2> QED
    BY <1>1, <1>2, <1>3, <2>1, <2>2
<1>5. d = [qs EXCEPT ![q] = a \o b]
  BY DEF Unlink, RemoveAt, a, b, s
<1>6. QType(d) /\ d[q] = a \o b /\ \A r \in Queues : r # q => d[r] = qs[r]
  BY <1>4, <1>5 DEF QType
<1> QED
  BY <1>4, <1>6 DEF Dropped, s

\* It is unlinked, and everybody else stays linked once.
LEMMA RemoveLemma ==
  ASSUME NEW qs, QType(qs), Once(qs),
         NEW q \in Queues, NEW m \in DOMAIN qs[q],
         NEW d, d = Unlink(qs, q, m)
  PROVE  /\ QType(d) /\ Once(d)
         /\ \A r \in Queues : r # q => d[r] = qs[r] /\ Members(d, r) = Members(qs, r)
         /\ qs[q][m] \in Pcb /\ qs[q][m] \in Members(qs, q)
         /\ Members(d, q) = Members(qs, q) \ {qs[q][m]}
         /\ ~Linked(d, qs[q][m])
<1>1. DOMAIN qs[q] = 1..Len(qs[q]) /\ m \in 1..Len(qs[q])
  BY SeqFacts
<1>2. qs[q][m] \in Pcb /\ qs[q][m] \in Members(qs, q)
  BY <1>1, SeqFacts
<1>3. Dropped(qs, q, m, d)
  BY UnlinkDrops
<1>4. QType(d) /\ \A r \in Queues : r # q => d[r] = qs[r]
  BY <1>3 DEF Dropped
<1>5. /\ Once(d)
      /\ \A r \in Queues : r # q => Members(d, r) = Members(qs, r)
      /\ Members(d, q) = Members(qs, q) \ {qs[q][m]}
      /\ ~Linked(d, qs[q][m])
  BY <1>1, <1>3, DropLemma
<1> QED
  BY <1>2, <1>4, <1>5

-----------------------------------------------------------------------------
\* Frames: the innermost point and the rest of a call stack.
LEMMA FrameHead ==
  ASSUME NEW p \in Pcb, NEW f, FrameOK(p, f), f # <<>>
  PROVE  /\ f \in Seq(Labels) /\ Len(f) \in Nat \ {0} /\ Head(f) = f[1]
         /\ Head(f) \in Labels
         /\ Tail(f) \in Seq(Labels) /\ Len(Tail(f)) = Len(f) - 1
         /\ \A i \in 1..(Len(f) - 1) : Tail(f)[i] = f[i + 1]
BY HeadTailProperties, EmptySeq DEF FrameOK

\* A point that is not the process's own has its caller below it.
LEMMA PopLemma ==
  ASSUME NEW p \in Pcb, NEW f, FrameOK(p, f), f # <<>>, Head(f) \notin Base(p)
  PROVE  FrameOK(p, Tail(f)) /\ Tail(f) # <<>> /\ Head(Tail(f)) \notin HandOver
<1>1. Len(f) > 1
  BY FrameHead DEF FrameOK
<1>2. Tail(f) \in Seq(Labels) /\ Len(Tail(f)) = Len(f) - 1 /\ Len(f) \in Nat
      /\ \A i \in 1..(Len(f) - 1) : Tail(f)[i] = f[i + 1]
  BY FrameHead
<1>3. \A i \in 1..(Len(f) - 1) : i + 1 \in 1..Len(f) /\ i + 1 # 1
                                 /\ (i = Len(f) - 1 <=> i + 1 = Len(f))
  BY <1>2
<1>4. FrameOK(p, Tail(f))
  <2> SUFFICES ASSUME NEW i \in 1..Len(Tail(f))
               PROVE  /\ i = Len(Tail(f)) => Tail(f)[i] \in Base(p)
                      /\ i # Len(Tail(f)) => Tail(f)[i] \in Above
                      /\ i # 1 => Tail(f)[i] \notin HandOver
    BY <1>2 DEF FrameOK
  <2>1. Tail(f)[i] = f[i + 1] /\ i + 1 \in 1..Len(f) /\ i + 1 # 1
        /\ (i = Len(Tail(f)) <=> i + 1 = Len(f))
    BY <1>2, <1>3
  <2> QED
    BY <2>1 DEF FrameOK
<1>5. Tail(f) # <<>>
  <2>1. Len(Tail(f)) # Len(<<>>)
    BY <1>1, <1>2
  <2> QED
    BY <2>1
<1>6. Head(Tail(f)) = f[2] /\ 2 \in 1..Len(f)
  BY <1>1, <1>2, <1>5
<1> QED
  BY <1>4, <1>5, <1>6 DEF FrameOK

\* The innermost point moves on within its own function.
LEMMA StepLemma ==
  ASSUME NEW p \in Pcb, NEW f, FrameOK(p, f), f # <<>>, NEW l,
         \/ Head(f) \in Base(p) /\ l \in Base(p)
         \/ Head(f) \notin Base(p) /\ l \in Above
  PROVE  FrameOK(p, <<l>> \o Tail(f)) /\ Head(<<l>> \o Tail(f)) = l
         /\ <<l>> \o Tail(f) # <<>>
<1> DEFINE g == <<l>> \o Tail(f)
<1>1. f \in Seq(Labels) /\ Len(f) \in Nat \ {0} /\ Head(f) = f[1]
      /\ Tail(f) \in Seq(Labels) /\ Len(Tail(f)) = Len(f) - 1
      /\ \A i \in 1..(Len(f) - 1) : Tail(f)[i] = f[i + 1]
  BY FrameHead
<1>2. l \in Labels
  BY DEF Base, Above, Labels
<1>3. g \in Seq(Labels) /\ Len(g) = Len(f)
      /\ \A i \in 1..Len(f) : g[i] = IF i = 1 THEN l ELSE f[i]
  <2>1. <<l>> \in Seq(Labels) /\ Len(<<l>>) = 1 /\ <<l>>[1] = l
    BY <1>2
  <2>2. /\ g \in Seq(Labels) /\ Len(g) = 1 + Len(Tail(f))
        /\ \A i \in 1..(1 + Len(Tail(f))) :
             g[i] = IF i <= 1 THEN <<l>>[i] ELSE Tail(f)[i - 1]
    BY <1>1, <2>1, ConcatProperties
  <2>3. ASSUME NEW i \in 1..Len(f), i # 1 PROVE Tail(f)[i - 1] = f[i]
    BY <1>1, <2>3
  <2> QED
    BY <1>1, <2>1, <2>2, <2>3
<1>4. g # <<>> /\ Head(g) = l
  BY <1>1, <1>3, EmptySeq
<1>5. Len(f) = 1 <=> Head(f) \in Base(p)
  <2>1. Base(p) \cap Above = {}
    BY DEF Base, Above, BootLabels, ReaperLabels, UserLabels, PRetLabels,
           ClockLabels, HandOver
  <2>2. f[1] \in IF Len(f) = 1 THEN Base(p) ELSE Above
    <3>1. 1 \in 1..Len(f)
      BY <1>1
    <3>2. (Len(f) = 1 => f[1] \in Base(p)) /\ (Len(f) # 1 => f[1] \in Above)
      BY <3>1 DEF FrameOK
    <3> QED
      BY <3>2
  <2> QED
    BY <1>1, <2>1, <2>2
<1> HIDE DEF g
<1>6. FrameOK(p, g)
  <2>1. Len(f) = 1 => l \in Base(p)
    BY <1>5
  <2>2. Len(f) # 1 => l \in Above
    BY <1>5
  <2> QED
    BY <1>1, <1>3, <2>1, <2>2 DEF FrameOK
<1> QED
  BY <1>4, <1>6 DEF g

\* A call or an interrupt.
LEMMA CallLemma ==
  ASSUME NEW p \in Pcb, NEW f, FrameOK(p, f), f # <<>>, NEW l \in Above,
         Head(f) \notin HandOver
  PROVE  FrameOK(p, <<l>> \o f) /\ Head(<<l>> \o f) = l /\ <<l>> \o f # <<>>
<1> DEFINE g == <<l>> \o f
<1>1. f \in Seq(Labels) /\ Len(f) \in Nat \ {0} /\ Head(f) = f[1]
  BY FrameHead
<1>2. l \in Labels
  BY DEF Above, Labels
<1>3. g \in Seq(Labels) /\ Len(g) = Len(f) + 1
      /\ g[1] = l /\ \A i \in 1..(Len(f) + 1) : i # 1 => i - 1 \in 1..Len(f) /\ g[i] = f[i - 1]
  <2>1. <<l>> \in Seq(Labels) /\ Len(<<l>>) = 1 /\ <<l>>[1] = l
    BY <1>2
  <2>2. /\ g \in Seq(Labels) /\ Len(g) = 1 + Len(f)
        /\ \A i \in 1..(1 + Len(f)) : g[i] = IF i <= 1 THEN <<l>>[i] ELSE f[i - 1]
    BY <1>1, <2>1, ConcatProperties
  <2> QED
    BY <1>1, <2>1, <2>2
<1>4. g # <<>> /\ Head(g) = l
  BY <1>1, <1>3, EmptySeq
<1> HIDE DEF g
<1>5. \A i \in 1..(Len(f) + 1) : i # 1 => (i = Len(f) + 1 <=> i - 1 = Len(f))
                                          /\ (i - 1 = 1 => f[i - 1] \notin HandOver)
  BY <1>1
<1>6. FrameOK(p, g)
  <2> SUFFICES ASSUME NEW i \in 1..Len(g)
               PROVE  /\ i = Len(g) => g[i] \in Base(p)
                      /\ i # Len(g) => g[i] \in Above
                      /\ i # 1 => g[i] \notin HandOver
    BY <1>3 DEF FrameOK
  <2>1. CASE i = 1
    BY <1>1, <1>3, <2>1
  <2>2. CASE i # 1
    BY <1>1, <1>3, <1>5, <2>2 DEF FrameOK
  <2> QED
    BY <2>1, <2>2
<1> QED
  BY <1>4, <1>6 DEF g

\* A call made by a function that moves on to `back` when it returns.
LEMMA CallBackLemma ==
  ASSUME NEW p \in Pcb, NEW f, FrameOK(p, f), f # <<>>, NEW l \in Above, NEW b,
         b \notin HandOver,
         \/ Head(f) \in Base(p) /\ b \in Base(p)
         \/ Head(f) \notin Base(p) /\ b \in Above
  PROVE  FrameOK(p, <<l, b>> \o Tail(f)) /\ Head(<<l, b>> \o Tail(f)) = l
         /\ <<l, b>> \o Tail(f) # <<>>
<1> DEFINE t == Tail(f)
<1>1. t \in Seq(Labels) /\ Len(t) \in Nat
  BY FrameHead
<1>2. l \in Labels /\ b \in Labels
  BY DEF Base, Above, Labels
<1>3. <<l, b>> = <<l>> \o <<b>> /\ <<l>> \in Seq(Labels) /\ <<b>> \in Seq(Labels)
  <2>1. <<l>> \in Seq(Labels) /\ <<b>> \in Seq(Labels)
    BY <1>2
  <2>2. Append(<<l>>, b) = <<l>> \o <<b>>
    BY <1>2, <2>1, AppendIsConcat
  <2>3. Append(<<l>>, b) = <<l, b>>
    <3>1. /\ Append(<<l>>, b) \in Seq(Labels) /\ Len(Append(<<l>>, b)) = 2
          /\ Append(<<l>>, b)[1] = l /\ Append(<<l>>, b)[2] = b
      BY <1>2, <2>1, AppendProperties
    <3>2. /\ <<l, b>> \in Seq(Labels) /\ Len(<<l, b>>) = 2
          /\ <<l, b>>[1] = l /\ <<l, b>>[2] = b
      BY <1>2
    <3>3. \A i \in 1..2 : i = 1 \/ i = 2
      OBVIOUS
    <3>4. \A i \in 1..Len(Append(<<l>>, b)) : Append(<<l>>, b)[i] = <<l, b>>[i]
      BY <3>1, <3>2, <3>3
    <3> QED
      BY <3>1, <3>2, <3>4, SeqEqual
  <2> QED
    BY <2>1, <2>2, <2>3
<1> HIDE DEF t
<1>4. <<l, b>> \o t = <<l>> \o (<<b>> \o t)
  BY <1>1, <1>3, ConcatAssociative
<1>5. FrameOK(p, <<b>> \o t) /\ Head(<<b>> \o t) = b /\ <<b>> \o t # <<>>
  BY StepLemma DEF t
<1> QED
  BY <1>4, <1>5, CallLemma DEF t

-----------------------------------------------------------------------------
(* Switches and the sets the invariant is made of                           *)

\* Where a process waits to be started, and whether it does.
Waits(qs, p) == \E q \in ReadyQueues : p \in Members(qs, q)

\* The call stacks fs with that of p replaced by g.
Put(fs, p, g) == [fs EXCEPT ![p] = g]

\* How the sets of program points lie to each other.
LEMMA LabelFacts ==
  /\ \A p \in Pcb : Base(p) \cap Above = {} /\ Base(p) \cap HandOver = {}
  /\ HandOver \subseteq Above /\ PRetLabels \subseteq Above /\ ClockLabels \subseteq Above
  /\ HandOver \cap PRetLabels = {} /\ HandOver \cap ClockLabels = {}
  /\ \A p \in Pcb : Base(p) \cap UserLabels # {} => p \in Procs
  /\ \A p \in Pcb : Base(p) \cap ReaperLabels # {} => p = Reaper
  /\ \A p \in Pcb : Base(p) \cap BootLabels # {} => p = Idle
BY SchedulerAssumption DEF Base, Above, BootLabels, ReaperLabels, UserLabels,
   PRetLabels, ClockLabels, HandOver, Pcb

\* The PCBs there are.
LEMMA PcbFacts == Idle \in Pcb /\ Reaper \in Pcb /\ Procs \subseteq Pcb
BY DEF Pcb

\* Only PCBs are linked.
LEMMA MembersPcb ==
  ASSUME NEW qs, QType(qs), NEW q \in Queues
  PROVE  Members(qs, q) \subseteq Pcb
BY SeqFacts

\* schedule_next_process, entered with every process parked
LEMMA SwitchLemma ==
  ASSUME NEW qs, NEW fs, ParkedOK(qs, fs), NEW cur, NEW qs2,
         IF qs["run_queue"] = <<>>
         THEN cur = Idle /\ qs2 = qs
         ELSE cur = Head(qs["run_queue"]) /\ qs2 = Dequeue(qs, "run_queue")
  PROVE  /\ RunningOK(qs2, cur, fs)
         /\ \A p : Linked(qs2, p) => Linked(qs, p)
         /\ \A r \in Queues : r # "run_queue" => qs2[r] = qs[r] /\ Members(qs2, r) = Members(qs, r)
<1>0. "run_queue" \in Queues /\ "run_queue" \in ReadyQueues
  BY DEF Queues, ReadyQueues
<1>1. QType(qs) /\ Once(qs) /\ PlacesOK(qs)
  BY DEF ParkedOK, QueuesOK
<1>2. CASE qs["run_queue"] = <<>>
  <2>1. cur = Idle /\ qs2 = qs
    BY <1>2
  <2>2. Members(qs, "run_queue") = {}
    <3>1. Len(qs["run_queue"]) = 0
      BY <1>2
    <3> QED
      BY <1>0, <1>1, <3>1, SeqFacts
  <2>3. ~Linked(qs, Idle)
    BY <1>1, <2>2, SchedulerAssumption DEF Linked, PlacesOK, Queues, Sems
  <2>4. RunningOK(qs2, cur, fs)
    BY <2>1, <2>3, PcbFacts DEF ParkedOK, RunningOK, InHandOver, Startable, HandOver
  <2> QED
    BY <2>1, <2>4
<1>3. CASE qs["run_queue"] # <<>>
  <2>1. cur = Head(qs["run_queue"]) /\ qs2 = Dequeue(qs, "run_queue")
    BY <1>3
  <2>2. /\ QType(qs2) /\ Once(qs2)
        /\ \A r \in Queues : r # "run_queue" => qs2[r] = qs[r] /\ Members(qs2, r) = Members(qs, r)
        /\ cur \in Pcb /\ cur \in Members(qs, "run_queue")
        /\ Members(qs2, "run_queue") = Members(qs, "run_queue") \ {cur}
        /\ ~Linked(qs2, cur)
    BY <1>0, <1>1, <1>3, <2>1, DequeueLemma
  <2>3. QueuesOK(qs2)
    BY <1>1, <2>2 DEF QueuesOK, PlacesOK, Queues, Sems
  <2>4. Startable(qs2, fs) /\ fs[cur] # <<>>
    BY <1>0, <2>2 DEF ParkedOK, Startable, ReadyQueues
  <2>5. ~InHandOver(fs, cur)
    BY <2>2 DEF ParkedOK
  <2>6. Head(fs[cur]) \notin HandOver
    BY <2>4, <2>5 DEF InHandOver
  <2>7. ASSUME NEW p \in Pcb \ {Idle, cur}, fs[p] # <<>>
        PROVE  \E q \in ReadyQueues : p \in Members(qs2, q)
    <3>1. PICK q \in ReadyQueues : p \in Members(qs, q)
      BY <2>7 DEF ParkedOK
    <3> QED
      BY <3>1, <2>2 DEF ReadyQueues
  <2>8. \A p : Linked(qs2, p) => Linked(qs, p)
    BY <2>2 DEF Linked
  <2>9. RunningOK(qs2, cur, fs)
    BY <2>2, <2>3, <2>4, <2>5, <2>6, <2>7 DEF RunningOK, ParkedOK, HandOver
  <2> QED
    BY <2>2, <2>8, <2>9
<1> QED
  BY <1>2, <1>3

\* A step of the running process outside the hand-over windows.
LEMMA RelabelLemma ==
  ASSUME NEW qs, NEW cur, NEW fs, RunningOK(qs, cur, fs), ~InHandOver(fs, cur),
         NEW g, FrameOK(cur, g), g # <<>>, Head(g) \notin HandOver,
         NEW fs2, fs2 = Put(fs, cur, g)
  PROVE  RunningOK(qs, cur, fs2)
<1>0. FramesOK(fs) /\ cur \in Pcb
  BY DEF RunningOK
<1>1. FramesOK(fs2) /\ fs2[cur] = g /\ \A r \in Pcb : r # cur => fs2[r] = fs[r]
  BY <1>0 DEF FramesOK, FrameOK, Put
<1>2. QType(qs) /\ \A q \in ReadyQueues : Members(qs, q) \subseteq Pcb
  BY MembersPcb DEF RunningOK, QueuesOK, ReadyQueues
<1>3. Startable(qs, fs2)
  BY <1>1, <1>2, PcbFacts DEF RunningOK, Startable
<1>4. \A p \in Pcb : ~InHandOver(fs2, p)
  BY <1>1 DEF RunningOK, InHandOver
<1>5. \A p \in Pcb \ {Idle, cur} :
        fs2[p] # <<>> => \E q \in ReadyQueues : p \in Members(qs, q)
  BY <1>1 DEF RunningOK
<1> QED
  BY <1>1, <1>3, <1>4, <1>5 DEF RunningOK, HandOver

\* Leaving a hand-over window for schedule_next_process.
LEMMA ParkLemma ==
  ASSUME NEW qs, NEW cur, NEW fs, RunningOK(qs, cur, fs), InHandOver(fs, cur),
         NEW fs2, fs2 = Put(fs, cur, Tail(fs[cur]))
  PROVE  ParkedOK(qs, fs2)
<1> DEFINE g == Tail(fs[cur])
<1>0. FramesOK(fs) /\ cur \in Pcb /\ fs[cur] # <<>> /\ FrameOK(cur, fs[cur]) /\ Head(fs[cur]) \in HandOver
  BY DEF RunningOK, FramesOK, InHandOver
<1>1. FrameOK(cur, g) /\ g # <<>> /\ Head(g) \notin HandOver
  BY <1>0, PopLemma, LabelFacts
<1>2. FramesOK(fs2) /\ fs2[cur] = g /\ \A r \in Pcb : r # cur => fs2[r] = fs[r]
  BY <1>0, <1>1 DEF FramesOK, Put
<1>3. QType(qs) /\ \A q \in ReadyQueues : Members(qs, q) \subseteq Pcb
  BY MembersPcb DEF RunningOK, QueuesOK, ReadyQueues
<1>4. Startable(qs, fs2)
  BY <1>1, <1>2, <1>3, PcbFacts DEF RunningOK, Startable
<1>5. \A p \in Pcb : ~InHandOver(fs2, p)
  BY <1>1, <1>2 DEF RunningOK, InHandOver
<1>6. \E q \in ReadyQueues : cur \in Members(qs, q)
  BY <1>0 DEF RunningOK, HandOver, ReadyQueues, Queues
<1>7. \A p \in Pcb \ {Idle} :
        fs2[p] # <<>> => \E q \in ReadyQueues : p \in Members(qs, q)
  BY <1>2, <1>6 DEF RunningOK
<1> QED
  BY <1>2, <1>4, <1>5, <1>7 DEF RunningOK, ParkedOK

\* What an append of the running process leaves of the queues.
LEMMA AppendLemma ==
  ASSUME NEW qs, NEW cur, NEW fs, RunningOK(qs, cur, fs), ~InHandOver(fs, cur),
         NEW q \in Queues, NEW qs2, qs2 = Enqueue(qs, q, cur),
         q \in {"tick_queue", "dead_queue", "sema"} => cur \in Procs,
         q = "dead_queue_semaphore" => cur = Reaper
  PROVE  /\ QueuesOK(qs2)
         /\ \A r \in Queues : r # q => qs2[r] = qs[r] /\ Members(qs2, r) = Members(qs, r)
         /\ Members(qs2, q) = Members(qs, q) \cup {cur}
         /\ Len(qs2[q]) = Len(qs[q]) + 1
         /\ \A p : Linked(qs2, p) => Linked(qs, p) \/ p = cur
<1>1. QType(qs) /\ Once(qs) /\ PlacesOK(qs) /\ cur \in Pcb /\ ~Linked(qs, cur)
  BY DEF RunningOK, QueuesOK
<1>2. /\ QType(qs2) /\ Once(qs2)
      /\ \A r \in Queues : r # q => qs2[r] = qs[r] /\ Members(qs2, r) = Members(qs, r)
      /\ Members(qs2, q) = Members(qs, q) \cup {cur}
      /\ Len(qs2[q]) = Len(qs[q]) + 1
  BY <1>1, EnqueueLemma
<1>3. PlacesOK(qs2)
  BY <1>1, <1>2 DEF PlacesOK, Queues, Sems
<1>4. \A p : Linked(qs2, p) => Linked(qs, p) \/ p = cur
  BY <1>2 DEF Linked
<1> QED
  BY <1>2, <1>3, <1>4 DEF QueuesOK

\* proc_sleep_ms and process_yield up to the hand-over window.
LEMMA EnterLemma ==
  ASSUME NEW qs, NEW cur, NEW fs, RunningOK(qs, cur, fs), ~InHandOver(fs, cur),
         NEW q \in Queues, NEW qs2, qs2 = Enqueue(qs, q, cur),
         NEW g, FrameOK(cur, g), g # <<>>,
         \/ q = "run_queue" /\ Head(g) = "yield_sched"
         \/ q = "tick_queue" /\ Head(g) = "sleep_stop" /\ cur \in Procs,
         NEW fs2, fs2 = Put(fs, cur, g)
  PROVE  /\ RunningOK(qs2, cur, fs2)
         /\ \A p : Linked(qs2, p) => Linked(qs, p) \/ p = cur
         /\ Members(qs2, "dead_queue") = Members(qs, "dead_queue")
         /\ \A s \in Sems : Len(qs2[s]) = Len(qs[s])
<1>0. FramesOK(fs) /\ cur \in Pcb /\ QType(qs) /\ Startable(qs, fs)
  BY DEF RunningOK, QueuesOK
<1>1. FramesOK(fs2) /\ fs2[cur] = g /\ \A r \in Pcb : r # cur => fs2[r] = fs[r]
  BY <1>0 DEF FramesOK, FrameOK, Put
<1>2. /\ QueuesOK(qs2)
      /\ \A r \in Queues : r # q => qs2[r] = qs[r] /\ Members(qs2, r) = Members(qs, r)
      /\ Members(qs2, q) = Members(qs, q) \cup {cur}
      /\ \A p : Linked(qs2, p) => Linked(qs, p) \/ p = cur
  <2>1. /\ q \in {"tick_queue", "dead_queue", "sema"} => cur \in Procs
        /\ q = "dead_queue_semaphore" => cur = Reaper
    OBVIOUS
  <2> QED
    BY <2>1, AppendLemma
<1>3. \A r \in Queues : Members(qs, r) \subseteq Members(qs2, r)
  BY <1>2
<1>4. \A r \in ReadyQueues : Members(qs, r) \subseteq Pcb
  BY <1>0, MembersPcb DEF ReadyQueues
<1>5. Startable(qs2, fs2)
  <2>1. ASSUME NEW r \in ReadyQueues, NEW p \in Members(qs2, r) PROVE fs2[p] # <<>>
    <3>1. CASE p = cur
      BY <1>1, <3>1
    <3>2. CASE p # cur
      BY <1>0, <1>1, <1>2, <1>4, <2>1, <3>2 DEF Startable, ReadyQueues
    <3> QED
      BY <3>1, <3>2
  <2>2. fs2[Idle] # <<>>
    BY <1>0, <1>1, PcbFacts DEF Startable
  <2> QED
    BY <2>1, <2>2 DEF Startable
<1>6. \A p \in Pcb : InHandOver(fs2, p) => p = cur
  BY <1>1 DEF RunningOK, InHandOver
<1>7. InHandOver(fs2, cur)
  BY <1>1 DEF InHandOver, HandOver
<1>8. \A p \in Pcb \ {Idle, cur} :
        fs2[p] # <<>> => \E r \in ReadyQueues : p \in Members(qs2, r)
  BY <1>1, <1>3 DEF RunningOK, ReadyQueues
<1>9. /\ Head(fs2[cur]) = "sleep_stop"  => cur \in Members(qs2, "tick_queue")
      /\ Head(fs2[cur]) = "yield_sched" => cur \in Members(qs2, "run_queue")
  BY <1>1, <1>2
<1>10. RunningOK(qs2, cur, fs2)
  BY <1>0, <1>1, <1>2, <1>5, <1>6, <1>7, <1>8, <1>9 DEF RunningOK
<1> QED
  BY <1>2, <1>10 DEF Sems, Queues

\* semaphore_P up to schedule_next_process, when it blocks.
LEMMA BlockLemma ==
  ASSUME NEW qs, NEW cur, NEW fs, RunningOK(qs, cur, fs), ~InHandOver(fs, cur),
         NEW s \in Sems, NEW qs2, qs2 = Enqueue(qs, s, cur),
         s = "sema" => cur \in Procs, s = "dead_queue_semaphore" => cur = Reaper,
         NEW g, FrameOK(cur, g), g # <<>>, Head(g) \notin HandOver,
         NEW fs2, fs2 = Put(fs, cur, g)
  PROVE  /\ ParkedOK(qs2, fs2)
         /\ \A p : Linked(qs2, p) => Linked(qs, p) \/ p = cur
         /\ Members(qs2, "dead_queue") = Members(qs, "dead_queue")
         /\ \A r \in Sems : Len(qs2[r]) = IF r = s THEN Len(qs[r]) + 1 ELSE Len(qs[r])
<1>0. /\ FramesOK(fs) /\ cur \in Pcb /\ QType(qs) /\ Startable(qs, fs)
      /\ s \in Queues /\ s \in ReadyQueues /\ s # "dead_queue" /\ "dead_queue" \in Queues
  BY DEF RunningOK, QueuesOK, Sems, Queues, ReadyQueues
<1>1. FramesOK(fs2) /\ fs2[cur] = g /\ \A r \in Pcb : r # cur => fs2[r] = fs[r]
  BY <1>0 DEF FramesOK, FrameOK, Put
<1>2. /\ QueuesOK(qs2)
      /\ \A r \in Queues : r # s => qs2[r] = qs[r] /\ Members(qs2, r) = Members(qs, r)
      /\ Members(qs2, s) = Members(qs, s) \cup {cur}
      /\ Len(qs2[s]) = Len(qs[s]) + 1
      /\ \A p : Linked(qs2, p) => Linked(qs, p) \/ p = cur
  <2>1. /\ s \in {"tick_queue", "dead_queue", "sema"} => cur \in Procs
        /\ s = "dead_queue_semaphore" => cur = Reaper
    BY DEF Sems
  <2> QED
    BY <1>0, <2>1, AppendLemma
<1>3. \A r \in Queues : Members(qs, r) \subseteq Members(qs2, r)
  BY <1>2
<1>4. \A r \in ReadyQueues : Members(qs, r) \subseteq Pcb
  BY <1>0, MembersPcb DEF ReadyQueues
<1>5. Startable(qs2, fs2)
  <2>1. ASSUME NEW r \in ReadyQueues, NEW p \in Members(qs2, r) PROVE fs2[p] # <<>>
    <3>1. CASE p = cur
      BY <1>1, <3>1
    <3>2. CASE p # cur
      BY <1>0, <1>1, <1>2, <1>4, <2>1, <3>2 DEF Startable, ReadyQueues
    <3> QED
      BY <3>1, <3>2
  <2>2. fs2[Idle] # <<>>
    BY <1>0, <1>1, PcbFacts DEF Startable
  <2> QED
    BY <2>1, <2>2 DEF Startable
<1>6. \A p \in Pcb : ~InHandOver(fs2, p)
  BY <1>1 DEF RunningOK, InHandOver
<1>7. \A p \in Pcb \ {Idle} :
        fs2[p] # <<>> => \E r \in ReadyQueues : p \in Members(qs2, r)
  BY <1>0, <1>1, <1>2, <1>3 DEF RunningOK, ReadyQueues
<1>8. ParkedOK(qs2, fs2)
  BY <1>1, <1>2, <1>5, <1>6, <1>7 DEF ParkedOK
<1> QED
  BY <1>0, <1>2, <1>8 DEF Sems, Queues

\* cleanup() up to semaphore_V.
LEMMA ExitLemma ==
  ASSUME NEW qs, NEW cur, NEW fs, RunningOK(qs, cur, fs), ~InHandOver(fs, cur),
         cur \in Procs, NEW qs2, qs2 = Enqueue(qs, "dead_queue", cur),
         NEW fs2, fs2 = Put(fs, cur, <<>>)
  PROVE  /\ ParkedOK(qs2, fs2)
         /\ \A p : Linked(qs2, p) => Linked(qs, p) \/ p = cur
         /\ Members(qs2, "dead_queue") = Members(qs, "dead_queue") \cup {cur}
         /\ \A r \in Sems : Len(qs2[r]) = Len(qs[r])
<1>0. /\ FramesOK(fs) /\ cur \in Pcb /\ QType(qs) /\ Startable(qs, fs)
      /\ "dead_queue" \in Queues /\ "dead_queue" \notin Sems /\ Sems \subseteq Queues
      /\ ~Linked(qs, cur)
  BY DEF RunningOK, QueuesOK, Sems, Queues
<1>1. FramesOK(fs2) /\ fs2[cur] = <<>> /\ \A r \in Pcb : r # cur => fs2[r] = fs[r]
  <2>1. FrameOK(cur, <<>>)
    BY DEF FrameOK
  <2> QED
    BY <1>0, <2>1 DEF FramesOK, Put
<1>2. /\ QueuesOK(qs2)
      /\ \A r \in Queues : r # "dead_queue" => qs2[r] = qs[r] /\ Members(qs2, r) = Members(qs, r)
      /\ Members(qs2, "dead_queue") = Members(qs, "dead_queue") \cup {cur}
      /\ \A p : Linked(qs2, p) => Linked(qs, p) \/ p = cur
  BY <1>0, AppendLemma
<1>3. \A r \in ReadyQueues : /\ Members(qs2, r) = Members(qs, r)
                             /\ Members(qs, r) \subseteq Pcb
                             /\ cur \notin Members(qs, r)
  BY <1>0, <1>2, MembersPcb DEF ReadyQueues, Linked
<1>4. Startable(qs2, fs2)
  BY <1>0, <1>1, <1>3, PcbFacts, SchedulerAssumption DEF Startable
<1>5. \A p \in Pcb : ~InHandOver(fs2, p)
  BY <1>1 DEF RunningOK, InHandOver
<1>6. \A p \in Pcb \ {Idle} :
        fs2[p] # <<>> => \E r \in ReadyQueues : p \in Members(qs2, r)
  BY <1>1, <1>3 DEF RunningOK
<1>7. ParkedOK(qs2, fs2)
  BY <1>1, <1>2, <1>4, <1>5, <1>6 DEF ParkedOK
<1> QED
  BY <1>0, <1>2, <1>7

-----------------------------------------------------------------------------
(* Moving waiting processes from queue to queue.                            *)

\* qs2 holds the processes of qs, the dead ones still on dead_queue.
SameProcs(qs, qs2) ==
  /\ QueuesOK(qs2)
  /\ Members(qs2, "dead_queue") = Members(qs, "dead_queue")
  /\ \A p : Waits(qs2, p) <=> Waits(qs, p)

\* Queues that hold the same processes in all (SameProcs) have the same ones linked.
LEMMA SameLinked ==
  ASSUME NEW qs, NEW qs2, SameProcs(qs, qs2)
  PROVE  \A p : Linked(qs2, p) <=> Linked(qs, p)
<1>1. \A p : Linked(qs2, p) <=> Waits(qs2, p) \/ p \in Members(qs2, "dead_queue")
  BY DEF Linked, Waits, ReadyQueues, Queues
<1>2. \A p : Linked(qs, p) <=> Waits(qs, p) \/ p \in Members(qs, "dead_queue")
  BY DEF Linked, Waits, ReadyQueues, Queues
<1> QED
  BY <1>1, <1>2 DEF SameProcs

\* Moving processes among the queues they are started from keeps ParkedOK, and
\* RunningOK of a process outside the hand-over windows.
LEMMA MoveLemma ==
  ASSUME NEW qs, NEW qs2, SameProcs(qs, qs2), NEW fs
  PROVE  /\ ParkedOK(qs, fs) => ParkedOK(qs2, fs)
         /\ \A cur : RunningOK(qs, cur, fs) /\ ~InHandOver(fs, cur)
                       => RunningOK(qs2, cur, fs)
<1>1. Startable(qs, fs) => Startable(qs2, fs)
  BY DEF Startable, SameProcs, Waits
<1>2. ParkedOK(qs, fs) => ParkedOK(qs2, fs)
  BY <1>1 DEF ParkedOK, SameProcs, Waits
<1>3. ASSUME NEW cur, RunningOK(qs, cur, fs), ~InHandOver(fs, cur)
      PROVE  RunningOK(qs2, cur, fs)
  <2>1. ~Linked(qs2, cur)
    BY <1>3, SameLinked DEF RunningOK
  <2>2. Head(fs[cur]) \notin HandOver
    BY <1>3 DEF RunningOK, InHandOver
  <2> QED
    BY <1>1, <1>3, <2>1, <2>2 DEF RunningOK, SameProcs, Waits, HandOver
<1> QED
  BY <1>2, <1>3

\* Unlinking a process from one queue and appending it to the run queue.
LEMMA RestartLemma ==
  ASSUME NEW qs, QueuesOK(qs), NEW q \in ReadyQueues, q # "run_queue",
         NEW d, QType(d), Once(d), NEW p \in Pcb, p \in Members(qs, q),
         \A r \in Queues : r # q => d[r] = qs[r] /\ Members(d, r) = Members(qs, r),
         Members(d, q) = Members(qs, q) \ {p}, ~Linked(d, p),
         NEW qs2, qs2 = Enqueue(d, "run_queue", p)
  PROVE  /\ SameProcs(qs, qs2)
         /\ qs2[q] = d[q]
         /\ \A r \in Queues : r \notin {q, "run_queue"} => qs2[r] = qs[r]
<1>0. "run_queue" \in Queues /\ "run_queue" \in ReadyQueues /\ q \in Queues
      /\ q # "dead_queue" /\ "dead_queue" \in Queues /\ "dead_queue" # "run_queue"
  BY DEF Queues, ReadyQueues, Sems
<1>1. /\ QType(qs2) /\ Once(qs2)
      /\ \A r \in Queues : r # "run_queue" => qs2[r] = d[r] /\ Members(qs2, r) = Members(d, r)
      /\ Members(qs2, "run_queue") = Members(d, "run_queue") \cup {p}
  BY <1>0, EnqueueLemma
<1>2. /\ Members(qs2, q) = Members(qs, q) \ {p}
      /\ Members(qs2, "run_queue") = Members(qs, "run_queue") \cup {p}
      /\ \A r \in Queues : r \notin {q, "run_queue"} => Members(qs2, r) = Members(qs, r)
  BY <1>0, <1>1
<1>3. PlacesOK(qs2)
  <2>1. \A r \in Queues : r # "run_queue" => Members(qs2, r) \subseteq Members(qs, r)
    BY <1>2
  <2> QED
    BY <2>1 DEF QueuesOK, PlacesOK, Queues, Sems
<1>4. ASSUME NEW x PROVE Waits(qs2, x) <=> Waits(qs, x)
  <2>1. CASE x = p
    BY <1>0, <1>2, <2>1 DEF Waits
  <2>2. CASE x # p
    <3>1. \A r \in Queues : x \in Members(qs2, r) <=> x \in Members(qs, r)
      BY <1>0, <1>2, <2>2
    <3> QED
      BY <3>1 DEF Waits, ReadyQueues
  <2> QED
    BY <2>1, <2>2
<1>5. Members(qs2, "dead_queue") = Members(qs, "dead_queue")
  BY <1>0, <1>2
<1>6. SameProcs(qs, qs2)
  BY <1>1, <1>3, <1>4, <1>5 DEF SameProcs, QueuesOK
<1> QED
  BY <1>0, <1>1, <1>6

\* semaphore_V
LEMMA WakeLemma ==
  ASSUME NEW qs, QueuesOK(qs), NEW s \in Sems, NEW qs2, qs2 = AfterV(qs, s)
  PROVE  /\ SameProcs(qs, qs2)
         /\ Len(qs2[s]) = IF Len(qs[s]) = 0 THEN 0 ELSE Len(qs[s]) - 1
         /\ \A r \in Sems : r # s => qs2[r] = qs[r]
<1>0. s \in Queues /\ s \in ReadyQueues /\ s # "run_queue" /\ QType(qs) /\ Once(qs)
      /\ \A r \in Sems : r \in Queues /\ r # "run_queue"
  BY DEF Queues, ReadyQueues, Sems, QueuesOK
<1>1. qs[s] \in Seq(Pcb) /\ Len(qs[s]) \in Nat /\ (qs[s] = <<>> <=> Len(qs[s]) = 0)
  BY <1>0, EmptySeq DEF QType
<1>2. CASE qs[s] = <<>>
  <2>1. qs2 = qs
    BY <1>2 DEF AfterV
  <2>2. SameProcs(qs, qs2)
    BY <2>1 DEF SameProcs
  <2> QED
    BY <1>1, <1>2, <2>1, <2>2
<1>3. CASE qs[s] # <<>>
  <2> DEFINE d == Dequeue(qs, s)
             p == Head(qs[s])
  <2>1. /\ QType(d) /\ Once(d)
        /\ \A r \in Queues : r # s => d[r] = qs[r] /\ Members(d, r) = Members(qs, r)
        /\ p \in Pcb /\ p \in Members(qs, s)
        /\ Members(d, s) = Members(qs, s) \ {p}
        /\ Len(d[s]) = Len(qs[s]) - 1
        /\ ~Linked(d, p)
    BY <1>0, <1>3, DequeueLemma
  <2>2. qs2 = Enqueue(d, "run_queue", p)
    BY <1>3 DEF AfterV
  <2> HIDE DEF d, p
  <2>3. /\ SameProcs(qs, qs2) /\ qs2[s] = d[s]
        /\ \A r \in Queues : r \notin {s, "run_queue"} => qs2[r] = qs[r]
    BY <1>0, <2>1, <2>2, RestartLemma
  <2> QED
    BY <1>0, <1>1, <1>3, <2>1, <2>3
<1> QED
  BY <1>2, <1>3

\* one round of clock_handler's loop
LEMMA AwakenLemma ==
  ASSUME NEW qs, QueuesOK(qs), NEW i \in DOMAIN qs["tick_queue"],
         NEW qs2, qs2 = Enqueue(Unlink(qs, "tick_queue", i), "run_queue",
                                qs["tick_queue"][i])
  PROVE  SameProcs(qs, qs2) /\ \A r \in Sems : qs2[r] = qs[r]
<1> DEFINE d == Unlink(qs, "tick_queue", i)
           p == qs["tick_queue"][i]
<1>0. "tick_queue" \in Queues /\ "tick_queue" \in ReadyQueues /\ QType(qs) /\ Once(qs)
      /\ \A r \in Sems : r \in Queues /\ r \notin {"tick_queue", "run_queue"}
  BY DEF Queues, ReadyQueues, Sems, QueuesOK
<1>1. /\ QType(d) /\ Once(d)
      /\ \A r \in Queues : r # "tick_queue" => d[r] = qs[r] /\ Members(d, r) = Members(qs, r)
      /\ p \in Pcb /\ p \in Members(qs, "tick_queue")
      /\ Members(d, "tick_queue") = Members(qs, "tick_queue") \ {p}
      /\ ~Linked(d, p)
  BY <1>0, RemoveLemma
<1>2. qs2 = Enqueue(d, "run_queue", p)
  OBVIOUS
<1> HIDE DEF d, p
<1>3. /\ SameProcs(qs, qs2)
      /\ \A r \in Queues : r \notin {"tick_queue", "run_queue"} => qs2[r] = qs[r]
  BY <1>0, <1>1, <1>2, RestartLemma
<1> QED
  BY <1>0, <1>3

\* reaper_process takes the first dead process.
LEMMA TakeLemma ==
  ASSUME NEW qs, NEW cur, NEW fs, RunningOK(qs, cur, fs), ~InHandOver(fs, cur),
         qs["dead_queue"] # <<>>, NEW qs2, qs2 = Dequeue(qs, "dead_queue"),
         NEW p, p = Head(qs["dead_queue"])
  PROVE  /\ RunningOK(qs2, cur, fs)
         /\ p \in Procs /\ p \in Members(qs, "dead_queue") /\ ~Linked(qs2, p)
         /\ \A r : Linked(qs2, r) => Linked(qs, r)
         /\ Members(qs2, "dead_queue") \subseteq Members(qs, "dead_queue")
         /\ \A s \in Sems : qs2[s] = qs[s]
<1>0. "dead_queue" \in Queues /\ QType(qs) /\ Once(qs) /\ PlacesOK(qs)
      /\ \A s \in Sems : s \in Queues /\ s # "dead_queue"
  BY DEF RunningOK, QueuesOK, Queues, Sems
<1>1. /\ QType(qs2) /\ Once(qs2)
      /\ \A r \in Queues : r # "dead_queue" => qs2[r] = qs[r] /\ Members(qs2, r) = Members(qs, r)
      /\ p \in Members(qs, "dead_queue")
      /\ Members(qs2, "dead_queue") = Members(qs, "dead_queue") \ {p}
      /\ ~Linked(qs2, p)
  BY <1>0, DequeueLemma
<1>2. QueuesOK(qs2) /\ p \in Procs
  BY <1>0, <1>1 DEF QueuesOK, PlacesOK, Queues, Sems
<1>3. \A r : Linked(qs2, r) => Linked(qs, r)
  BY <1>1 DEF Linked
<1>4. \A r \in ReadyQueues : Members(qs2, r) = Members(qs, r)
  BY <1>1 DEF ReadyQueues
<1>5. Startable(qs2, fs)
  BY <1>4 DEF RunningOK, Startable
<1>6. Head(fs[cur]) \notin HandOver
  BY DEF RunningOK, InHandOver
<1>7. \A r \in Pcb \ {Idle, cur} :
        fs[r] # <<>> => \E q \in ReadyQueues : r \in Members(qs2, q)
  BY <1>4 DEF RunningOK
<1>8. RunningOK(qs2, cur, fs)
  BY <1>2, <1>3, <1>5, <1>6, <1>7 DEF RunningOK, HandOver
<1> QED
  BY <1>0, <1>1, <1>2, <1>3, <1>8

\* process_fork
LEMMA ForkLemma ==
  ASSUME NEW qs, NEW cur, NEW fs, RunningOK(qs, cur, fs), ~InHandOver(fs, cur),
         NEW c \in Procs, fs[c] = <<>>, ~Linked(qs, c),
         NEW qs2, qs2 = Enqueue(qs, "run_queue", c),
         NEW fs2, fs2 = Put(fs, c, <<"user">>)
  PROVE  /\ RunningOK(qs2, cur, fs2)
         /\ \A p : Linked(qs2, p) => Linked(qs, p) \/ p = c
         /\ Members(qs2, "dead_queue") = Members(qs, "dead_queue")
         /\ \A r \in Sems : qs2[r] = qs[r]
<1>0. /\ FramesOK(fs) /\ cur \in Pcb /\ c \in Pcb /\ c # cur /\ c # Idle
      /\ QType(qs) /\ Once(qs) /\ PlacesOK(qs) /\ Startable(qs, fs)
      /\ "run_queue" \in Queues /\ "run_queue" \in ReadyQueues
      /\ \A r \in Sems : r \in Queues /\ r # "run_queue"
  BY PcbFacts, SchedulerAssumption DEF RunningOK, QueuesOK, Sems, Queues, ReadyQueues
<1>1. FramesOK(fs2) /\ fs2[c] = <<"user">> /\ \A r \in Pcb : r # c => fs2[r] = fs[r]
  <2>1. FrameOK(c, <<"user">>)
    <3>1. "user" \in Labels /\ "user" \in Base(c)
      BY <1>0, SchedulerAssumption DEF Labels, Base, UserLabels
    <3>2. <<"user">> \in Seq(Labels) /\ Len(<<"user">>) = 1 /\ <<"user">>[1] = "user"
      BY <3>1
    <3>3. \A i \in 1..1 : i = 1
      OBVIOUS
    <3> QED
      BY <3>1, <3>2, <3>3 DEF FrameOK
  <2>2. <<"user">> \in Seq(Labels)
    BY <2>1 DEF FrameOK
  <2> QED
    BY <1>0, <2>1, <2>2 DEF FramesOK, Put
<1>2. /\ QType(qs2) /\ Once(qs2)
      /\ \A r \in Queues : r # "run_queue" => qs2[r] = qs[r] /\ Members(qs2, r) = Members(qs, r)
      /\ Members(qs2, "run_queue") = Members(qs, "run_queue") \cup {c}
  BY <1>0, EnqueueLemma
<1>3. QueuesOK(qs2)
  BY <1>0, <1>2 DEF QueuesOK, PlacesOK, Queues, Sems
<1>4. \A p : Linked(qs2, p) => Linked(qs, p) \/ p = c
  BY <1>2 DEF Linked
<1>5. \A r \in Queues : Members(qs, r) \subseteq Members(qs2, r) /\ Members(qs, r) \subseteq Pcb
  BY <1>0, <1>2, MembersPcb
<1>6. Startable(qs2, fs2)
  <2>1. ASSUME NEW r \in ReadyQueues, NEW p \in Members(qs2, r) PROVE fs2[p] # <<>>
    <3>1. CASE p = c
      <4>1. Len(<<"user">>) # Len(<<>>)
        OBVIOUS
      <4> QED
        BY <1>1, <3>1, <4>1
    <3>2. CASE p # c
      <4>1. p \in Members(qs, r) /\ p \in Pcb
        BY <1>2, <1>5, <2>1, <3>2 DEF ReadyQueues
      <4>2. fs[p] # <<>>
        BY <1>0, <4>1 DEF Startable
      <4>3. fs2[p] = fs[p]
        BY <1>1, <3>2, <4>1
      <4> QED
        BY <4>2, <4>3
    <3> QED
      BY <3>1, <3>2
  <2>2. fs2[Idle] # <<>>
    BY <1>0, <1>1, PcbFacts DEF Startable
  <2> QED
    BY <2>1, <2>2 DEF Startable
<1>7. \A p \in Pcb : ~InHandOver(fs2, p)
  <2>1. Head(<<"user">>) \notin HandOver
    BY DEF HandOver
  <2> QED
    BY <1>1, <2>1 DEF RunningOK, InHandOver
<1>8. ~Linked(qs2, cur) /\ Head(fs2[cur]) \notin HandOver /\ fs2[cur] # <<>>
  BY <1>0, <1>1, <1>4 DEF RunningOK, InHandOver
<1>9. \A p \in Pcb \ {Idle, cur} :
        fs2[p] # <<>> => \E r \in ReadyQueues : p \in Members(qs2, r)
  <2> SUFFICES ASSUME NEW p \in Pcb \ {Idle, cur}, fs2[p] # <<>>
               PROVE  \E r \in ReadyQueues : p \in Members(qs2, r)
    OBVIOUS
  <2>1. CASE p = c
    BY <1>0, <1>2, <2>1
  <2>2. CASE p # c
    <3>1. PICK r \in ReadyQueues : p \in Members(qs, r)
      BY <1>1, <2>2 DEF RunningOK
    <3> QED
      BY <1>5, <3>1 DEF ReadyQueues
  <2> QED
    BY <2>1, <2>2
<1>10. RunningOK(qs2, cur, fs2)
  BY <1>0, <1>1, <1>3, <1>6, <1>7, <1>8, <1>9 DEF RunningOK, HandOver
<1> QED
  BY <1>0, <1>2, <1>4, <1>10 DEF Queues, Sems

-----------------------------------------------------------------------------
(* The heap and the semaphores.                                             *)

\* A step of cur that frees nothing and allocates nothing.
LEMMA HeapLemma ==
  ASSUME NEW qs, NEW fs, NEW fr \in Procs \cup {Null}, NEW ps, NEW st,
         HeapOK(qs, fs, fr, ps, st),
         NEW cur \in Pcb, fs[cur] # <<>>,
         NEW qs2, \A p : Linked(qs2, p) => Linked(qs, p) \/ p = cur,
         NEW fs2, \A p \in Pcb : fs2[p] # <<>> => fs[p] # <<>>,
         Members(qs, "dead_queue") \subseteq Pcb,
         \A p \in Members(qs2, "dead_queue") :
           \/ p \in Members(qs, "dead_queue")
           \/ p = cur /\ cur \in Procs /\ fs2[cur] = <<>>
  PROVE  HeapOK(qs2, fs2, fr, ps, st)
<1>1. cur \in ps
  BY DEF HeapOK, Pcb
<1>2. \A p \in Procs \cup {Reaper} : fs2[p] # <<>> => p \in ps \cap st
  BY DEF HeapOK, Pcb
<1>3. \A p \in Pcb : Linked(qs2, p) => p \in ps
  BY <1>1 DEF HeapOK
<1>4. ASSUME NEW p \in Members(qs2, "dead_queue") PROVE p \in st /\ fs2[p] = <<>>
  <2>1. CASE p \in Members(qs, "dead_queue")
    BY <2>1 DEF HeapOK
  <2>2. CASE p = cur /\ cur \in Procs /\ fs2[cur] = <<>>
    BY <2>2 DEF HeapOK
  <2> QED
    BY <1>4, <2>1, <2>2
<1>5. fr # Null => fr \in ps /\ fs2[fr] = <<>> /\ ~Linked(qs2, fr)
  BY PcbFacts DEF HeapOK
<1> QED
  BY <1>2, <1>3, <1>4, <1>5 DEF HeapOK

\* SemP's decrement, with the append it goes with when the count was 0 or less.
LEMMA WaitersPLemma ==
  ASSUME NEW qs, NEW cnt \in [Sems -> Int], WaitersOK(qs, cnt), NEW s \in Sems,
         NEW qs2, NEW cnt2, cnt2 = [cnt EXCEPT ![s] = cnt[s] - 1],
         \A r \in Sems : Len(qs2[r]) = IF r = s /\ cnt[s] - 1 < 0
                                       THEN Len(qs[r]) + 1 ELSE Len(qs[r])
  PROVE  WaitersOK(qs2, cnt2)
BY DEF WaitersOK

\* semaphore_V's increment, with the waiter it starts.
LEMMA WaitersVLemma ==
  ASSUME NEW qs, NEW cnt \in [Sems -> Int], WaitersOK(qs, cnt), NEW s \in Sems,
         NEW qs2, NEW cnt2, cnt2 = [cnt EXCEPT ![s] = cnt[s] + 1],
         Len(qs2[s]) = IF Len(qs[s]) = 0 THEN 0 ELSE Len(qs[s]) - 1,
         \A r \in Sems : r # s => Len(qs2[r]) = Len(qs[r])
  PROVE  WaitersOK(qs2, cnt2)
BY DEF WaitersOK

\* SemaphoreWaiters depends only on the counts and the semaphores' queues.
LEMMA WaitersSame ==
  ASSUME NEW qs, NEW cnt, WaitersOK(qs, cnt), NEW qs2,
         \A r \in Sems : Len(qs2[r]) = Len(qs[r])
  PROVE  WaitersOK(qs2, cnt)
BY DEF WaitersOK

-----------------------------------------------------------------------------
(* The steps of the specification.                                          *)

\* What Inv says of the running process.
LEMMA RunningFacts ==
  ASSUME Inv
  PROVE  /\ current \in Pcb /\ frames[current] # <<>>
         /\ FrameOK(current, frames[current]) /\ FramesOK(frames)
         /\ QueuesOK(queue) /\ Members(queue, "dead_queue") \subseteq Pcb
         /\ Head(frames[current]) \in Base(current) \cup Above
         /\ AtUser => Head(frames[current]) \in Base(current) /\ current \in Procs
                      /\ Base(current) = UserLabels
         /\ \A l \in ReaperLabels : At(l) => current = Reaper
                                       /\ Base(current) = ReaperLabels
         /\ \A l \in BootLabels : At(l) => current = Idle /\ Base(current) = BootLabels
         /\ InHandOver(frames, current) <=> Head(frames[current]) \in HandOver
<1>1. /\ current \in Pcb /\ frames[current] # <<>> /\ FramesOK(frames) /\ QueuesOK(queue)
      /\ FrameOK(current, frames[current])
  BY DEF Inv, RunningOK, FramesOK
<1>2. Head(frames[current]) \in Base(current) \cup Above
  <2>1. LET f == frames[current] IN Len(f) \in Nat \ {0} /\ Head(f) = f[1]
    BY <1>1, FrameHead
  <2> QED
    BY <1>1, <2>1 DEF FrameOK
<1>3. /\ UserLabels \cap Above = {} /\ ReaperLabels \cap Above = {} /\ BootLabels \cap Above = {}
      /\ UserLabels \cap ReaperLabels = {} /\ UserLabels \cap BootLabels = {}
      /\ ReaperLabels \cap BootLabels = {}
  BY DEF Above, BootLabels, ReaperLabels, UserLabels, PRetLabels, ClockLabels, HandOver
<1>4. Members(queue, "dead_queue") \subseteq Pcb
  BY <1>1, PcbFacts DEF QueuesOK, PlacesOK
<1>5. AtUser => Head(frames[current]) \in Base(current) /\ current \in Procs
                /\ Base(current) = UserLabels
  BY <1>1, <1>2, <1>3 DEF AtUser, Base, Pcb
<1>6. \A l \in ReaperLabels : At(l) => current = Reaper /\ Base(current) = ReaperLabels
  BY <1>1, <1>2, <1>3 DEF At, Base, Pcb
<1>7. \A l \in BootLabels : At(l) => current = Idle /\ Base(current) = BootLabels
  BY <1>1, <1>2, <1>3 DEF At, Base, Pcb
<1>8. InHandOver(frames, current) <=> Head(frames[current]) \in HandOver
  BY <1>1 DEF InHandOver
<1> QED
  BY <1>1, <1>2, <1>4, <1>5, <1>6, <1>7, <1>8

\* A step that only moves the running process's innermost point, to g.
LEMMA RelabelStep ==
  ASSUME Inv, Head(frames[current]) \notin HandOver,
         NEW g, FrameOK(current, g), g # <<>>, Head(g) \notin HandOver,
         NEW fs, fs = Put(frames, current, g)
  PROVE  /\ RunningOK(queue, current, fs)
         /\ HeapOK(queue, fs, to_free, pcbs, stacks)
<1>1. ~InHandOver(frames, current) /\ RunningOK(queue, current, frames)
      /\ current \in Pcb /\ frames[current] # <<>> /\ frames \in [Pcb -> Seq(Labels)]
      /\ Members(queue, "dead_queue") \subseteq Pcb
  BY RunningFacts DEF Inv, FramesOK
<1>2. RunningOK(queue, current, fs)
  BY <1>1, RelabelLemma
<1>3. \A p \in Pcb : fs[p] # <<>> => frames[p] # <<>>
  BY <1>1 DEF Put
<1>4. to_free \in Procs \cup {Null} /\ HeapOK(queue, frames, to_free, pcbs, stacks)
  BY DEF Inv, ScalarsOK
<1>5. HeapOK(queue, fs, to_free, pcbs, stacks)
  BY <1>1, <1>3, <1>4, HeapLemma
<1> QED
  BY <1>2, <1>5

\* ... when nothing else changes but the level, the tick counter and the like.
LEMMA RelabelInv ==
  ASSUME Inv, Head(frames[current]) \notin HandOver,
         NEW g, FrameOK(current, g), g # <<>>, Head(g) \notin HandOver,
         frames' = Put(frames, current, g), ScalarsOK',
         UNCHANGED <<current, queue, count, heapVars>>
  PROVE  Inv'
<1>1. RunningOK(queue, current, frames') /\ HeapOK(queue, frames', to_free, pcbs, stacks)
  BY RelabelStep
<1>2. WaitersOK(queue, count)
  BY DEF Inv
<1> QED
  BY <1>1, <1>2 DEF Inv, heapVars

\* process_system_initialize enables IRQs.
LEMMA BootEnableInv == ASSUME Inv, BootEnable PROVE Inv'
<1> DEFINE g == <<"boot_stop">> \o Tail(frames[current])
<1>1. Head(frames[current]) = "boot_enable" /\ At("boot_enable") /\ "boot_enable" \in BootLabels
  BY DEF BootEnable, At, BootLabels
<1>2. Base(current) = BootLabels /\ current \in Pcb /\ frames[current] # <<>>
      /\ FrameOK(current, frames[current])
  BY <1>1, RunningFacts DEF At
<1>3. "boot_stop" \in Base(current) /\ "boot_stop" \notin HandOver
      /\ Head(frames[current]) \notin HandOver
  BY <1>1, <1>2 DEF BootLabels, HandOver
<1>4. FrameOK(current, g) /\ Head(g) = "boot_stop" /\ g # <<>>
  BY <1>1, <1>2, <1>3, StepLemma
<1>5. frames' = Put(frames, current, g)
  BY DEF BootEnable, Becomes, Put
<1>6. ScalarsOK' /\ UNCHANGED <<current, queue, count, heapVars>>
  BY DEF Inv, ScalarsOK, BootEnable, clockVars, heapVars
<1> HIDE DEF g
<1> QED
  BY <1>3, <1>4, <1>5, <1>6, RelabelInv

\* The end of a call: the innermost point is popped.
LEMMA PopInv ==
  ASSUME Inv, Head(frames[current]) \in Above \ HandOver,
         frames' = Becomes(<<>>), ScalarsOK',
         UNCHANGED <<current, queue, count, heapVars>>
  PROVE  Inv'
<1> DEFINE g == Tail(frames[current])
<1>1. current \in Pcb /\ frames[current] # <<>> /\ FrameOK(current, frames[current])
  BY RunningFacts
<1>2. FrameOK(current, g) /\ g # <<>> /\ Head(g) \notin HandOver
  BY <1>1, PopLemma, LabelFacts
<1>3. g \in Seq(Labels)
  BY <1>2 DEF FrameOK
<1> HIDE DEF g
<1>4. <<>> \o g = g
  BY <1>3, ConcatEmptySeq
<1>5. frames' = Put(frames, current, g)
  BY <1>4 DEF Becomes, Put, g
<1> QED
  BY <1>2, <1>5, RelabelInv

\* A blocked semaphore_P returns.
LEMMA PReturnInv == ASSUME Inv, NEW level \in BOOLEAN, PReturn(level) PROVE Inv'
<1>1. Head(frames[current]) \in PRetLabels
  BY DEF PReturn, At, PRetLabels
<1>2. Head(frames[current]) \in Above \ HandOver
  BY <1>1, LabelFacts
<1>3. ScalarsOK' /\ UNCHANGED <<current, queue, count, heapVars>> /\ frames' = Becomes(<<>>)
  BY DEF Inv, ScalarsOK, PReturn, clockVars, heapVars
<1> QED
  BY <1>2, <1>3, PopInv

\* The interrupt returns to the code it interrupted.
LEMMA IrqReturnInv == ASSUME Inv, IrqReturn PROVE Inv'
<1>1. Head(frames[current]) \in ClockLabels
  BY DEF IrqReturn, At, ClockLabels
<1>2. Head(frames[current]) \in Above \ HandOver
  BY <1>1, LabelFacts
<1>3. ScalarsOK' /\ UNCHANGED <<current, queue, count, heapVars>> /\ frames' = Becomes(<<>>)
  BY DEF Inv, ScalarsOK, IrqReturn, clockVars, heapVars
<1> QED
  BY <1>2, <1>3, PopInv

\* The timer interrupts the running process, outside the hand-over windows.
LEMMA IrqEntryInv == ASSUME Inv, IrqEntry, ~raced' PROVE Inv'
<1> DEFINE g == <<"clk_enter">> \o frames[current]
<1>1. Head(frames[current]) \notin HandOver
  BY DEF IrqEntry, At
<1>2. current \in Pcb /\ frames[current] # <<>> /\ FrameOK(current, frames[current])
  BY RunningFacts
<1>3. "clk_enter" \in Above /\ "clk_enter" \notin HandOver
  BY DEF Above, ClockLabels, HandOver
<1>4. FrameOK(current, g) /\ Head(g) = "clk_enter" /\ g # <<>>
  BY <1>1, <1>2, <1>3, CallLemma
<1>5. frames' = Put(frames, current, g)
  BY DEF IrqEntry, Calls, Put
<1>6. ScalarsOK' /\ UNCHANGED <<current, queue, count, heapVars>>
  BY DEF Inv, ScalarsOK, IrqEntry, clockVars, heapVars
<1> HIDE DEF g
<1> QED
  BY <1>1, <1>3, <1>4, <1>5, <1>6, RelabelInv

\* A step from one point of the clock interrupt to the next.
LEMMA ClockStepInv ==
  ASSUME Inv, Head(frames[current]) \in ClockLabels, NEW l \in ClockLabels,
         frames' = Becomes(<<l>>), ScalarsOK',
         UNCHANGED <<current, queue, count, heapVars>>
  PROVE  Inv'
<1> DEFINE g == <<l>> \o Tail(frames[current])
<1>1. current \in Pcb /\ frames[current] # <<>> /\ FrameOK(current, frames[current])
  BY RunningFacts
<1>2. /\ l \in Above /\ l \notin HandOver
      /\ Head(frames[current]) \notin HandOver /\ Head(frames[current]) \notin Base(current)
  BY <1>1, LabelFacts
<1>3. FrameOK(current, g) /\ Head(g) = l /\ g # <<>>
  BY <1>1, <1>2, StepLemma
<1>4. frames' = Put(frames, current, g)
  BY DEF Becomes, Put
<1> HIDE DEF g
<1> QED
  BY <1>2, <1>3, <1>4, RelabelInv

\* clock_handler counts the tick.
LEMMA ClockEnterInv == ASSUME Inv, ClockEnter PROVE Inv'
<1>1. Head(frames[current]) \in ClockLabels /\ "clk_awaken" \in ClockLabels
  BY DEF ClockEnter, At, ClockLabels
<1>2. ticks' \in 0..(TickMod - 1)
  BY SchedulerAssumption DEF Inv, ScalarsOK, ClockEnter
<1>3. ScalarsOK' /\ UNCHANGED <<current, queue, count, heapVars>>
      /\ frames' = Becomes(<<"clk_awaken">>)
  BY <1>2 DEF Inv, ScalarsOK, ClockEnter, heapVars
<1> QED
  BY <1>1, <1>3, ClockStepInv

\* clock_handler has found no sleeper that is due.
LEMMA ClockDoneInv == ASSUME Inv, ClockDone PROVE Inv'
<1>1. Head(frames[current]) \in ClockLabels /\ "clk_yield" \in ClockLabels
  BY DEF ClockDone, At, ClockLabels
<1>2. ScalarsOK' /\ UNCHANGED <<current, queue, count, heapVars>>
      /\ frames' = Becomes(<<"clk_yield">>)
  BY DEF Inv, ScalarsOK, ClockDone, clockVars, heapVars
<1> QED
  BY <1>1, <1>2, ClockStepInv

-----------------------------------------------------------------------------
(* Steps that end in schedule_next_process.                                 *)

\* schedule_next_process, entered with every process parked, reestablishes Inv.
LEMMA SwitchStep ==
  ASSUME NEW qs, NEW fs, ParkedOK(qs, fs), ScheduleNext(qs),
         NEW fr, NEW ps, NEW st, HeapOK(qs, fs, fr, ps, st),
         NEW cnt, WaitersOK(qs, cnt)
  PROVE  /\ RunningOK(queue', current', fs)
         /\ HeapOK(queue', fs, fr, ps, st)
         /\ WaitersOK(queue', cnt)
         /\ irq' = TRUE
<1>1. IF qs["run_queue"] = <<>>
      THEN current' = Idle /\ queue' = qs
      ELSE current' = Head(qs["run_queue"]) /\ queue' = Dequeue(qs, "run_queue")
  BY DEF ScheduleNext
<1>2. /\ RunningOK(queue', current', fs)
      /\ \A p : Linked(queue', p) => Linked(qs, p)
      /\ \A r \in Queues : r # "run_queue" =>
           queue'[r] = qs[r] /\ Members(queue', r) = Members(qs, r)
  BY <1>1, SwitchLemma
<1>3. HeapOK(queue', fs, fr, ps, st)
  <2>1. Members(queue', "dead_queue") = Members(qs, "dead_queue")
    BY <1>2 DEF Queues
  <2> QED
    BY <1>2, <2>1 DEF HeapOK
<1>4. WaitersOK(queue', cnt)
  BY <1>2 DEF WaitersOK, Queues, Sems
<1> QED
  BY <1>2, <1>3, <1>4 DEF ScheduleNext

\* The idle process waits nowhere, and need not.
LEMMA IdleParked ==
  ASSUME NEW qs, NEW fs, RunningOK(qs, Idle, fs), ~InHandOver(fs, Idle)
  PROVE  ParkedOK(qs, fs)
BY DEF RunningOK, ParkedOK

\* The boot context stops and becomes the idle process.
LEMMA BootStopInv == ASSUME Inv, BootStop PROVE Inv'
<1> DEFINE g == <<"idle">> \o Tail(frames[current])
<1>1. Head(frames[current]) = "boot_stop" /\ At("boot_stop") /\ "boot_stop" \in BootLabels
  BY DEF BootStop, At, BootLabels
<1>2. current = Idle /\ Base(current) = BootLabels /\ current \in Pcb
      /\ frames[current] # <<>> /\ FrameOK(current, frames[current]) /\ FramesOK(frames)
  BY <1>1, RunningFacts DEF At
<1>3. "idle" \in Base(current) /\ "idle" \notin HandOver
      /\ Head(frames[current]) \notin HandOver
  BY <1>1, <1>2 DEF BootLabels, HandOver
<1>4. FrameOK(current, g) /\ Head(g) = "idle" /\ g # <<>>
  BY <1>1, <1>2, <1>3, StepLemma
<1>5. frames' = Put(frames, current, g)
  BY DEF BootStop, Becomes, Put
<1> HIDE DEF g
<1>6. /\ RunningOK(queue, current, frames')
      /\ HeapOK(queue, frames', to_free, pcbs, stacks)
  BY <1>3, <1>4, <1>5, RelabelStep
<1>7. frames'[current] = g
  BY <1>2, <1>5 DEF Put, FramesOK
<1>8. ParkedOK(queue, frames')
  BY <1>2, <1>3, <1>4, <1>6, <1>7, IdleParked DEF InHandOver
<1>9. WaitersOK(queue, count) /\ ScheduleNext(queue)
  BY DEF Inv, BootStop
<1>10. /\ RunningOK(queue', current', frames')
       /\ HeapOK(queue', frames', to_free, pcbs, stacks)
       /\ WaitersOK(queue', count) /\ irq' = TRUE
  BY <1>6, <1>8, <1>9, SwitchStep
<1>11. ScalarsOK' /\ UNCHANGED <<count, heapVars>>
  BY <1>10 DEF Inv, ScalarsOK, BootStop, clockVars, heapVars
<1> QED
  BY <1>10, <1>11 DEF Inv, heapVars

\* The idle process looks for another to run.
LEMMA IdleLoopInv == ASSUME Inv, IdleLoop PROVE Inv'
<1>1. Head(frames[current]) = "idle" /\ At("idle") /\ "idle" \in BootLabels
  BY DEF IdleLoop, At, BootLabels
<1>2. current = Idle /\ Head(frames[current]) \notin HandOver
  BY <1>1, RunningFacts DEF At, HandOver
<1>3. ParkedOK(queue, frames)
  BY <1>2, IdleParked DEF Inv, InHandOver
<1>4. HeapOK(queue, frames, to_free, pcbs, stacks) /\ WaitersOK(queue, count)
      /\ ScheduleNext(queue)
  BY DEF Inv, IdleLoop
<1>5. /\ RunningOK(queue', current', frames)
      /\ HeapOK(queue', frames, to_free, pcbs, stacks)
      /\ WaitersOK(queue', count) /\ irq' = TRUE
  BY <1>3, <1>4, SwitchStep
<1>6. ScalarsOK' /\ UNCHANGED <<count, frames, heapVars>>
  BY <1>5 DEF Inv, ScalarsOK, IdleLoop, clockVars, heapVars
<1> QED
  BY <1>5, <1>6 DEF Inv, heapVars

\* Leaving a hand-over window.
LEMMA LeaveInv ==
  ASSUME Inv, Head(frames[current]) \in HandOver, frames' = Becomes(<<>>),
         ScheduleNext(queue), UNCHANGED <<count, clockVars, heapVars>>
  PROVE  Inv'
<1> DEFINE g == Tail(frames[current])
<1>1. /\ RunningOK(queue, current, frames) /\ InHandOver(frames, current)
      /\ current \in Pcb /\ frames[current] # <<>> /\ FramesOK(frames)
      /\ FrameOK(current, frames[current])
      /\ Members(queue, "dead_queue") \subseteq Pcb
  BY RunningFacts DEF Inv
<1>2. g \in Seq(Labels)
  BY <1>1, FrameHead
<1>3. frames' = Put(frames, current, g)
  BY <1>2, ConcatEmptySeq DEF Becomes, Put
<1>4. ParkedOK(queue, frames')
  BY <1>1, <1>3, ParkLemma
<1>5. \A p \in Pcb : frames'[p] # <<>> => frames[p] # <<>>
  BY <1>1, <1>3 DEF Put, FramesOK
<1>6. to_free \in Procs \cup {Null} /\ HeapOK(queue, frames, to_free, pcbs, stacks)
      /\ WaitersOK(queue, count)
  BY DEF Inv, ScalarsOK
<1>7. HeapOK(queue, frames', to_free, pcbs, stacks)
  BY <1>1, <1>5, <1>6, HeapLemma
<1>8. /\ RunningOK(queue', current', frames')
      /\ HeapOK(queue', frames', to_free, pcbs, stacks)
      /\ WaitersOK(queue', count) /\ irq' = TRUE
  BY <1>4, <1>6, <1>7, SwitchStep
<1>9. ScalarsOK'
  BY <1>8 DEF Inv, ScalarsOK, clockVars, heapVars
<1> QED
  BY <1>8, <1>9 DEF Inv, heapVars

\* proc_sleep_ms gives up the CPU.
LEMMA SleepStopInv == ASSUME Inv, SleepStop PROVE Inv'
BY LeaveInv DEF SleepStop, At, HandOver

\* process_yield gives up the CPU.
LEMMA YieldScheduleInv == ASSUME Inv, YieldSchedule PROVE Inv'
BY LeaveInv DEF YieldSchedule, At, HandOver

\* semaphore_P, by the process and at the point its callers use it from.
LEMMA SemPInv ==
  ASSUME Inv, NEW s \in Sems, NEW ret, SemP(s, ret),
         Head(frames[current]) \in Base(current), ret \in Base(current),
         s = "sema" => current \in Procs, s = "dead_queue_semaphore" => current = Reaper,
         UNCHANGED <<clockVars, heapVars>>
  PROVE  Inv'
<1>0. /\ RunningOK(queue, current, frames) /\ ~InHandOver(frames, current)
      /\ Head(frames[current]) \notin HandOver /\ ret \notin HandOver
      /\ current \in Pcb /\ frames[current] # <<>> /\ FramesOK(frames)
      /\ FrameOK(current, frames[current])
      /\ Members(queue, "dead_queue") \subseteq Pcb
  BY RunningFacts, LabelFacts DEF Inv
<1>1. /\ to_free \in Procs \cup {Null} /\ HeapOK(queue, frames, to_free, pcbs, stacks)
      /\ WaitersOK(queue, count) /\ count \in [Sems -> Int]
      /\ count' = [count EXCEPT ![s] = count[s] - 1]
  BY DEF Inv, ScalarsOK, SemP
<1>2. count' \in [Sems -> Int]
  BY <1>1
<1>3. CASE count[s] - 1 >= 0
  <2> DEFINE g == <<ret>> \o Tail(frames[current])
  <2>1. FrameOK(current, g) /\ Head(g) = ret /\ g # <<>>
    BY <1>0, StepLemma
  <2>2. frames' = Put(frames, current, g) /\ UNCHANGED <<current, queue, irq>>
    BY <1>1, <1>3 DEF SemP, Becomes, Put
  <2> HIDE DEF g
  <2>3. /\ RunningOK(queue, current, frames')
        /\ HeapOK(queue, frames', to_free, pcbs, stacks)
    BY <1>0, <2>1, <2>2, RelabelStep
  <2>4. ~(count[s] - 1 < 0)
    BY <1>1, <1>3
  <2>5. WaitersOK(queue, count')
    BY <1>1, <2>4, WaitersPLemma
  <2>6. ScalarsOK'
    BY <1>2, <2>2 DEF Inv, ScalarsOK, clockVars, heapVars
  <2> QED
    BY <2>2, <2>3, <2>5, <2>6 DEF Inv, heapVars
<1>4. CASE count[s] - 1 < 0
  <2> DEFINE g == <<PRet, ret>> \o Tail(frames[current])
             qs == Enqueue(queue, s, current)
  <2>1. PRet \in PRetLabels
    BY DEF PRet, PRetLabels
  <2>2. PRet \in Above /\ PRet \notin HandOver
    BY <2>1, LabelFacts
  <2>3. FrameOK(current, g) /\ Head(g) = PRet /\ g # <<>>
    BY <1>0, <2>2, CallBackLemma
  <2>4. frames' = Put(frames, current, g) /\ ScheduleNext(qs)
    BY <1>1, <1>4 DEF SemP, Becomes, Put
  <2> HIDE DEF g, qs
  <2>5. qs = Enqueue(queue, s, current)
    BY DEF qs
  <2>6. /\ ParkedOK(qs, frames')
        /\ \A p : Linked(qs, p) => Linked(queue, p) \/ p = current
        /\ Members(qs, "dead_queue") = Members(queue, "dead_queue")
        /\ \A r \in Sems : Len(qs[r]) = IF r = s THEN Len(queue[r]) + 1 ELSE Len(queue[r])
    BY <1>0, <2>2, <2>3, <2>4, <2>5, BlockLemma
  <2>7. \A p \in Pcb : frames'[p] # <<>> => frames[p] # <<>>
    BY <1>0, <2>4 DEF Put, FramesOK
  <2>8. HeapOK(qs, frames', to_free, pcbs, stacks)
    BY <1>0, <1>1, <2>6, <2>7, HeapLemma
  <2>9. WaitersOK(qs, count')
    <3>1. \A r \in Sems : Len(qs[r]) = IF r = s /\ count[s] - 1 < 0
                                        THEN Len(queue[r]) + 1 ELSE Len(queue[r])
      BY <1>4, <2>6
    <3> QED
      BY <1>1, <3>1 DEF WaitersOK
  <2>10. /\ RunningOK(queue', current', frames')
         /\ HeapOK(queue', frames', to_free, pcbs, stacks)
         /\ WaitersOK(queue', count') /\ irq' = TRUE
    BY <2>4, <2>6, <2>8, <2>9, SwitchStep
  <2>11. ScalarsOK'
    BY <1>2, <2>10 DEF Inv, ScalarsOK, clockVars, heapVars
  <2> QED
    BY <2>10, <2>11 DEF Inv, heapVars
<1> QED
  BY <1>1, <1>3, <1>4

\* semaphore_P(sema), whether it blocks or not.
LEMMA LockInv == ASSUME Inv, Lock PROVE Inv'
<1>1. AtUser /\ "sema" \in Sems
  BY DEF Lock, At, AtUser, UserLabels, Sems
<1>2. Head(frames[current]) \in Base(current) /\ current \in Procs
      /\ "critical" \in Base(current)
  BY <1>1, RunningFacts DEF UserLabels
<1>3. SemP("sema", "critical") /\ UNCHANGED <<clockVars, heapVars>>
  BY DEF Lock
<1> QED
  BY <1>1, <1>2, <1>3, SemPInv

\* The reaper's semaphore_P, whether it blocks or not.
LEMMA ReapWaitInv == ASSUME Inv, ReapWait PROVE Inv'
<1>1. At("reap_wait") /\ "reap_wait" \in ReaperLabels /\ "dead_queue_semaphore" \in Sems
  BY DEF ReapWait, ReaperLabels, Sems
<1>2. current = Reaper /\ Head(frames[current]) \in Base(current)
      /\ "reap_take" \in Base(current)
  BY <1>1, RunningFacts DEF ReaperLabels, At
<1>3. SemP("dead_queue_semaphore", "reap_take") /\ UNCHANGED <<clockVars, heapVars>>
  BY DEF ReapWait
<1> QED
  BY <1>1, <1>2, <1>3, SemPInv

\* A process returns: cleanup.
LEMMA ExitInv == ASSUME Inv, Exit PROVE Inv'
<1> DEFINE qs == Enqueue(queue, "dead_queue", current)
           d  == "dead_queue_semaphore"
<1>0. AtUser /\ d \in Sems
  BY DEF Exit, At, AtUser, UserLabels, Sems
<1>1. /\ RunningOK(queue, current, frames) /\ ~InHandOver(frames, current)
      /\ current \in Pcb /\ current \in Procs /\ frames[current] # <<>> /\ FramesOK(frames)
      /\ Members(queue, "dead_queue") \subseteq Pcb
  BY <1>0, RunningFacts, LabelFacts DEF Inv
<1>2. /\ to_free \in Procs \cup {Null} /\ HeapOK(queue, frames, to_free, pcbs, stacks)
      /\ WaitersOK(queue, count) /\ count \in [Sems -> Int]
      /\ count' = [count EXCEPT ![d] = count[d] + 1]
  BY DEF Inv, ScalarsOK, Exit
<1>3. frames' = Put(frames, current, <<>>) /\ ScheduleNext(AfterV(qs, d))
  BY DEF Exit, Put
<1>4. qs = Enqueue(queue, "dead_queue", current)
  OBVIOUS
<1> HIDE DEF qs
<1>5. /\ ParkedOK(qs, frames')
      /\ \A p : Linked(qs, p) => Linked(queue, p) \/ p = current
      /\ Members(qs, "dead_queue") = Members(queue, "dead_queue") \cup {current}
      /\ \A r \in Sems : Len(qs[r]) = Len(queue[r])
  BY <1>1, <1>3, <1>4, ExitLemma
<1>6. frames'[current] = <<>> /\ \A p \in Pcb : frames'[p] # <<>> => frames[p] # <<>>
  BY <1>1, <1>3 DEF Put, FramesOK
<1>7. HeapOK(qs, frames', to_free, pcbs, stacks)
  BY <1>1, <1>2, <1>5, <1>6, HeapLemma
<1> DEFINE qv == AfterV(qs, d)
<1>8. QueuesOK(qs) /\ qv = AfterV(qs, d)
  BY <1>5 DEF ParkedOK
<1>9. ScheduleNext(qv)
  BY <1>3
<1> HIDE DEF qv
<1>10. /\ SameProcs(qs, qv)
       /\ Len(qv[d]) = IF Len(qs[d]) = 0 THEN 0 ELSE Len(qs[d]) - 1
       /\ \A r \in Sems : r # d => qv[r] = qs[r]
  BY <1>0, <1>8, WakeLemma
<1>11. ParkedOK(qv, frames')
  BY <1>5, <1>10, MoveLemma
<1>12. HeapOK(qv, frames', to_free, pcbs, stacks)
  BY <1>7, <1>10, SameLinked DEF HeapOK, SameProcs
<1>13. WaitersOK(qv, count')
  <2>1. /\ Len(qv[d]) = IF Len(queue[d]) = 0 THEN 0 ELSE Len(queue[d]) - 1
        /\ \A r \in Sems : r # d => Len(qv[r]) = Len(queue[r])
    BY <1>0, <1>5, <1>10
  <2> QED
    BY <1>0, <1>2, <2>1 DEF WaitersOK
<1>14. /\ RunningOK(queue', current', frames')
       /\ HeapOK(queue', frames', to_free, pcbs, stacks)
       /\ WaitersOK(queue', count') /\ irq' = TRUE
  BY <1>9, <1>11, <1>12, <1>13, SwitchStep
<1>15. count' \in [Sems -> Int]
  BY <1>0, <1>2
<1>16. ScalarsOK' /\ UNCHANGED heapVars
  BY <1>14, <1>15 DEF Inv, ScalarsOK, Exit, clockVars, heapVars
<1> QED
  BY <1>14, <1>16 DEF Inv, heapVars

-----------------------------------------------------------------------------
(* Steps that move processes between queues and stay with the caller.       *)

\* semaphore_V(sema).
LEMMA UnlockInv == ASSUME Inv, Unlock PROVE Inv'
<1> DEFINE g == <<"user">> \o Tail(frames[current])
<1>0. AtUser /\ "sema" \in Sems
  BY DEF Unlock, At, AtUser, UserLabels, Sems
<1>1. /\ current \in Pcb /\ frames[current] # <<>> /\ FramesOK(frames) /\ QueuesOK(queue)
      /\ FrameOK(current, frames[current])
      /\ Head(frames[current]) \in Base(current) /\ "user" \in Base(current)
      /\ Head(frames[current]) \notin HandOver /\ "user" \notin HandOver
  BY <1>0, RunningFacts, LabelFacts DEF UserLabels
<1>2. FrameOK(current, g) /\ Head(g) = "user" /\ g # <<>>
  BY <1>1, StepLemma
<1>3. frames' = Put(frames, current, g) /\ queue' = AfterV(queue, "sema")
      /\ current' = current /\ count' = [count EXCEPT !["sema"] = count["sema"] + 1]
  BY DEF Unlock, Becomes, Put
<1> HIDE DEF g
<1>4. /\ RunningOK(queue, current, frames')
      /\ HeapOK(queue, frames', to_free, pcbs, stacks)
  BY <1>1, <1>2, <1>3, RelabelStep
<1>5. /\ SameProcs(queue, queue')
      /\ Len(queue'["sema"]) = IF Len(queue["sema"]) = 0 THEN 0 ELSE Len(queue["sema"]) - 1
      /\ \A r \in Sems : r # "sema" => queue'[r] = queue[r]
  BY <1>0, <1>1, <1>3, WakeLemma
<1>6. ~InHandOver(frames', current)
  <2>1. frames'[current] = g
    BY <1>1, <1>3 DEF Put, FramesOK
  <2> QED
    BY <1>1, <1>2, <2>1 DEF InHandOver
<1>7. RunningOK(queue', current, frames')
  BY <1>4, <1>5, <1>6, MoveLemma
<1>8. HeapOK(queue', frames', to_free, pcbs, stacks)
  BY <1>4, <1>5, SameLinked DEF HeapOK, SameProcs
<1>9. WaitersOK(queue, count) /\ count \in [Sems -> Int]
  BY DEF Inv, ScalarsOK
<1>10. WaitersOK(queue', count')
  BY <1>0, <1>3, <1>5, <1>9 DEF WaitersOK
<1>11. count' \in [Sems -> Int]
  BY <1>0, <1>3, <1>9
<1>12. ScalarsOK' /\ UNCHANGED heapVars
  BY <1>11 DEF Inv, ScalarsOK, Unlock, clockVars, heapVars
<1> QED
  BY <1>3, <1>7, <1>8, <1>10, <1>12 DEF Inv, heapVars

\* clock_handler awakens one sleeper.
LEMMA ClockAwakenInv == ASSUME Inv, ClockAwaken PROVE Inv'
<1>1. PICK i \in Due :
        queue' = Enqueue(Unlink(queue, "tick_queue", i), "run_queue", queue["tick_queue"][i])
  BY DEF ClockAwaken
<1>2. i \in DOMAIN queue["tick_queue"]
  BY DEF Due
<1>3. /\ RunningOK(queue, current, frames) /\ ~InHandOver(frames, current)
      /\ QueuesOK(queue) /\ HeapOK(queue, frames, to_free, pcbs, stacks)
      /\ WaitersOK(queue, count)
  <2>1. Head(frames[current]) \notin HandOver
    BY DEF ClockAwaken, At, HandOver
  <2> QED
    BY <2>1, RunningFacts DEF Inv
<1>4. SameProcs(queue, queue') /\ \A r \in Sems : queue'[r] = queue[r]
  BY <1>1, <1>2, <1>3, AwakenLemma
<1>5. RunningOK(queue', current, frames)
  BY <1>3, <1>4, MoveLemma
<1>6. HeapOK(queue', frames, to_free, pcbs, stacks)
  BY <1>3, <1>4, SameLinked DEF HeapOK, SameProcs
<1>7. WaitersOK(queue', count)
  BY <1>3, <1>4 DEF WaitersOK
<1>8. ScalarsOK' /\ UNCHANGED <<current, frames, count, heapVars>>
  BY DEF Inv, ScalarsOK, ClockAwaken, clockVars, heapVars
<1> QED
  BY <1>5, <1>6, <1>7, <1>8 DEF Inv, heapVars

\* An append of the running process that opens a hand-over window.
LEMMA EnterInv ==
  ASSUME Inv, Head(frames[current]) \notin HandOver,
         NEW q \in Queues, queue' = Enqueue(queue, q, current),
         NEW g, FrameOK(current, g), g # <<>>,
         \/ q = "run_queue" /\ Head(g) = "yield_sched"
         \/ q = "tick_queue" /\ Head(g) = "sleep_stop" /\ current \in Procs,
         frames' = Put(frames, current, g), ScalarsOK',
         UNCHANGED <<current, count, heapVars>>
  PROVE  Inv'
<1>1. /\ RunningOK(queue, current, frames) /\ ~InHandOver(frames, current)
      /\ HeapOK(queue, frames, to_free, pcbs, stacks) /\ to_free \in Procs \cup {Null}
      /\ WaitersOK(queue, count) /\ FramesOK(frames)
      /\ current \in Pcb /\ frames[current] # <<>>
      /\ Members(queue, "dead_queue") \subseteq Pcb
  BY RunningFacts DEF Inv, ScalarsOK
<1>2. /\ RunningOK(queue', current, frames')
      /\ \A p : Linked(queue', p) => Linked(queue, p) \/ p = current
      /\ Members(queue', "dead_queue") = Members(queue, "dead_queue")
      /\ \A s \in Sems : Len(queue'[s]) = Len(queue[s])
  BY <1>1, EnterLemma
<1>3. \A p \in Pcb : frames'[p] # <<>> => frames[p] # <<>>
  BY <1>1 DEF Put, FramesOK
<1>4. HeapOK(queue', frames', to_free, pcbs, stacks)
  BY <1>1, <1>2, <1>3, HeapLemma
<1>5. WaitersOK(queue', count)
  BY <1>1, <1>2, WaitersSame
<1> QED
  BY <1>2, <1>4, <1>5 DEF Inv, heapVars

\* proc_sleep_ms up to its hand-over window.
LEMMA SleepInv == ASSUME Inv, NEW n \in SleepTicks, Sleep(n) PROVE Inv'
<1> DEFINE g == <<"sleep_stop">> \o frames[current]
<1>1. /\ current \in Procs /\ current \in Pcb /\ frames[current] # <<>>
      /\ FrameOK(current, frames[current]) /\ Head(frames[current]) \notin HandOver
  BY RunningFacts, LabelFacts DEF Sleep
<1>2. "sleep_stop" \in Above /\ "tick_queue" \in Queues
  BY DEF Above, HandOver, Queues
<1>3. FrameOK(current, g) /\ Head(g) = "sleep_stop" /\ g # <<>>
  BY <1>1, <1>2, CallLemma
<1>4. frames' = Put(frames, current, g) /\ queue' = Enqueue(queue, "tick_queue", current)
      /\ UNCHANGED <<current, count, heapVars>>
  BY DEF Sleep, Calls, Put
<1> HIDE DEF g
<1>5. (n + ticks) % TickMod \in 0..(TickMod - 1)
  BY SchedulerAssumption DEF Inv, ScalarsOK
<1>6. ScalarsOK'
  BY <1>5 DEF Inv, ScalarsOK, Sleep, heapVars
<1> QED
  BY <1>1, <1>2, <1>3, <1>4, <1>6, EnterInv

\* process_yield in a process body, up to its hand-over window.
LEMMA YieldInv == ASSUME Inv, Yield PROVE Inv'
<1> DEFINE g == <<"yield_sched">> \o frames[current]
<1>1. /\ current \in Pcb /\ frames[current] # <<>>
      /\ FrameOK(current, frames[current]) /\ Head(frames[current]) \notin HandOver
  BY RunningFacts, LabelFacts DEF Yield
<1>2. "yield_sched" \in Above /\ "run_queue" \in Queues
  BY DEF Above, HandOver, Queues
<1>3. FrameOK(current, g) /\ Head(g) = "yield_sched" /\ g # <<>>
  BY <1>1, <1>2, CallLemma
<1>4. frames' = Put(frames, current, g) /\ queue' = Enqueue(queue, "run_queue", current)
      /\ UNCHANGED <<current, count, heapVars>>
  BY DEF Yield, Calls, Put
<1> HIDE DEF g
<1>5. ScalarsOK'
  BY DEF Inv, ScalarsOK, Yield, heapVars, clockVars
<1> QED
  BY <1>1, <1>2, <1>3, <1>4, <1>5, EnterInv

\* clock_handler's process_yield, up to its hand-over window.
LEMMA ClockYieldInv == ASSUME Inv, ClockYield PROVE Inv'
<1> DEFINE g == <<"yield_sched", "clk_ret">> \o Tail(frames[current])
<1>0. Head(frames[current]) \in ClockLabels
  BY DEF ClockYield, At, ClockLabels
<1>1. /\ current \in Pcb /\ frames[current] # <<>>
      /\ FrameOK(current, frames[current]) /\ Head(frames[current]) \notin HandOver
      /\ Head(frames[current]) \notin Base(current)
  BY <1>0, RunningFacts, LabelFacts
<1>2. /\ "yield_sched" \in Above /\ "run_queue" \in Queues
      /\ "clk_ret" \in Above /\ "clk_ret" \notin HandOver
  BY DEF Above, HandOver, ClockLabels, Queues
<1>3. FrameOK(current, g) /\ Head(g) = "yield_sched" /\ g # <<>>
  BY <1>1, <1>2, CallBackLemma
<1>4. frames' = Put(frames, current, g) /\ queue' = Enqueue(queue, "run_queue", current)
      /\ UNCHANGED <<current, count, heapVars>>
  BY DEF ClockYield, Becomes, Put
<1> HIDE DEF g
<1>5. ScalarsOK'
  BY DEF Inv, ScalarsOK, ClockYield, heapVars, clockVars
<1> QED
  BY <1>1, <1>2, <1>3, <1>4, <1>5, EnterInv

\* process_fork.
LEMMA ForkInv == ASSUME Inv, NEW c \in Procs, Fork(c) PROVE Inv'
<1>1. /\ RunningOK(queue, current, frames) /\ ~InHandOver(frames, current)
      /\ HeapOK(queue, frames, to_free, pcbs, stacks)
      /\ WaitersOK(queue, count) /\ FramesOK(frames)
      /\ current \in Pcb /\ frames[current] # <<>>
      /\ Members(queue, "dead_queue") \subseteq Pcb
  BY RunningFacts, LabelFacts DEF Inv, Fork
<1>2. c \in Pcb /\ c \notin pcbs
  BY PcbFacts DEF Fork
<1>3. frames[c] = <<>> /\ ~Linked(queue, c)
  BY <1>1, <1>2 DEF HeapOK
<1>4. frames' = Put(frames, c, <<"user">>) /\ queue' = Enqueue(queue, "run_queue", c)
      /\ UNCHANGED <<current, count, to_free>>
      /\ pcbs' = pcbs \cup {c} /\ stacks' = stacks \cup {c}
  BY DEF Fork, Put
<1>5. /\ RunningOK(queue', current, frames')
      /\ \A p : Linked(queue', p) => Linked(queue, p) \/ p = c
      /\ Members(queue', "dead_queue") = Members(queue, "dead_queue")
      /\ \A r \in Sems : queue'[r] = queue[r]
  BY <1>1, <1>3, <1>4, ForkLemma
<1>6. \A p \in Pcb : p # c => frames'[p] = frames[p]
  BY <1>1, <1>4 DEF Put, FramesOK
<1>7. HeapOK(queue', frames', to_free, pcbs', stacks')
  <2>1. Idle \in pcbs' /\ \A p \in Pcb : Linked(queue', p) => p \in pcbs'
    BY <1>1, <1>4, <1>5 DEF HeapOK
  <2>2. \A p \in Procs \cup {Reaper} : frames'[p] # <<>> => p \in pcbs' \cap stacks'
    BY <1>1, <1>4, <1>6, PcbFacts DEF HeapOK
  <2>3. ASSUME NEW p \in Members(queue', "dead_queue") PROVE p \in stacks' /\ frames'[p] = <<>>
    <3>1. p \in Members(queue, "dead_queue") /\ p \in Pcb
      BY <1>1, <1>5, <2>3
    <3>2. p # c
      BY <1>3, <3>1 DEF Linked, Queues
    <3> QED
      BY <1>1, <1>4, <1>6, <3>1, <3>2 DEF HeapOK
  <2>4. ASSUME to_free # Null
        PROVE  to_free \in pcbs' /\ frames'[to_free] = <<>> /\ ~Linked(queue', to_free)
    <3>1. to_free \in pcbs /\ frames[to_free] = <<>> /\ ~Linked(queue, to_free) /\ to_free \in Pcb
      BY <1>1, <2>4, PcbFacts DEF HeapOK, Inv, ScalarsOK
    <3>2. to_free # c
      BY <1>2, <3>1
    <3> QED
      BY <1>4, <1>5, <1>6, <3>1, <3>2
  <2> QED
    BY <2>1, <2>2, <2>3, <2>4 DEF HeapOK
<1>8. WaitersOK(queue', count)
  BY <1>1, <1>5 DEF WaitersOK
<1>9. ScalarsOK'
  BY <1>2, <1>4, SchedulerAssumption DEF Inv, ScalarsOK, Fork, clockVars
<1> QED
  BY <1>4, <1>5, <1>7, <1>8, <1>9 DEF Inv

-----------------------------------------------------------------------------
(* reaper_process                                                           *)

\* The reaper's own point moves on.
LEMMA ReaperFrame ==
  ASSUME Inv, NEW a \in ReaperLabels, At(a), NEW b \in ReaperLabels,
         frames' = Becomes(<<b>>)
  PROVE  /\ RunningOK(queue, current, frames')
         /\ HeapOK(queue, frames', to_free, pcbs, stacks)
         /\ ~InHandOver(frames', current) /\ current = Reaper
         /\ frames' \in [Pcb -> Seq(Labels)]
         /\ \A p \in Pcb : frames'[p] = <<>> <=> frames[p] = <<>>
<1> DEFINE g == <<b>> \o Tail(frames[current])
<1>1. /\ current \in Pcb /\ current = Reaper /\ frames[current] # <<>> /\ FramesOK(frames)
      /\ FrameOK(current, frames[current])
      /\ Head(frames[current]) \in Base(current) /\ b \in Base(current)
      /\ Head(frames[current]) \notin HandOver /\ b \notin HandOver
  BY RunningFacts, LabelFacts DEF At
<1>2. FrameOK(current, g) /\ Head(g) = b /\ g # <<>>
  BY <1>1, StepLemma
<1>3. frames' = Put(frames, current, g)
  BY DEF Becomes, Put
<1> HIDE DEF g
<1>4. /\ RunningOK(queue, current, frames')
      /\ HeapOK(queue, frames', to_free, pcbs, stacks)
  BY <1>1, <1>2, <1>3, RelabelStep
<1>5. frames'[current] = g /\ \A p \in Pcb : p # current => frames'[p] = frames[p]
  BY <1>1, <1>3 DEF Put, FramesOK
<1>6. frames' \in [Pcb -> Seq(Labels)]
  BY <1>4 DEF RunningOK, FramesOK
<1> QED
  BY <1>1, <1>2, <1>4, <1>5, <1>6 DEF InHandOver

\* The reaper takes a dead process off dead_queue.
LEMMA ReapTakeInv == ASSUME Inv, ReapTake PROVE Inv'
<1>1. At("reap_take") /\ frames' = Becomes(<<"reap_stack">>)
      /\ "reap_take" \in ReaperLabels /\ "reap_stack" \in ReaperLabels
      /\ UNCHANGED <<current, count, clockVars, irq, pcbs, stacks>>
  BY DEF ReapTake, ReaperLabels
<1>2. /\ RunningOK(queue, current, frames')
      /\ HeapOK(queue, frames', to_free, pcbs, stacks)
      /\ ~InHandOver(frames', current)
  BY <1>1, ReaperFrame
<1>3. WaitersOK(queue, count)
  BY DEF Inv
<1>4. CASE queue["dead_queue"] = <<>>
  <2>1. to_free' = Null /\ queue' = queue
    BY <1>4 DEF ReapTake
  <2>2. HeapOK(queue', frames', to_free', pcbs, stacks)
    BY <1>2, <2>1 DEF HeapOK
  <2>3. ScalarsOK'
    BY <1>1, <2>1 DEF Inv, ScalarsOK, clockVars
  <2> QED
    BY <1>1, <1>2, <1>3, <2>1, <2>2, <2>3 DEF Inv
<1>5. CASE queue["dead_queue"] # <<>>
  <2>1. to_free' = Head(queue["dead_queue"]) /\ queue' = Dequeue(queue, "dead_queue")
    BY <1>5 DEF ReapTake
  <2>2. /\ RunningOK(queue', current, frames')
        /\ to_free' \in Procs /\ to_free' \in Members(queue, "dead_queue")
        /\ ~Linked(queue', to_free')
        /\ \A r : Linked(queue', r) => Linked(queue, r)
        /\ Members(queue', "dead_queue") \subseteq Members(queue, "dead_queue")
        /\ \A s \in Sems : queue'[s] = queue[s]
    BY <1>2, <1>5, <2>1, TakeLemma
  <2>3. to_free' \in pcbs /\ frames'[to_free'] = <<>>
    <3>1. to_free' \in Pcb /\ Linked(queue, to_free')
      BY <2>2, PcbFacts DEF Linked, Queues
    <3> QED
      BY <1>2, <2>2, <3>1 DEF HeapOK
  <2>4. HeapOK(queue', frames', to_free', pcbs, stacks)
    BY <1>2, <2>2, <2>3 DEF HeapOK
  <2>5. WaitersOK(queue', count)
    BY <1>3, <2>2 DEF WaitersOK
  <2>6. ScalarsOK'
    BY <1>1, <2>2 DEF Inv, ScalarsOK, clockVars
  <2> QED
    BY <1>1, <2>2, <2>4, <2>5, <2>6 DEF Inv
<1> QED
  BY <1>4, <1>5

\* The reaper frees the stack.
LEMMA ReapStackInv == ASSUME Inv, ReapStack PROVE Inv'
<1>1. At("reap_stack") /\ frames' = Becomes(<<"reap_pcb">>)
      /\ "reap_stack" \in ReaperLabels /\ "reap_pcb" \in ReaperLabels
      /\ stacks' = stacks \ {to_free}
      /\ UNCHANGED <<current, queue, count, clockVars, irq, to_free, pcbs>>
  BY DEF ReapStack, ReaperLabels
<1>2. /\ RunningOK(queue, current, frames')
      /\ HeapOK(queue, frames', to_free, pcbs, stacks)
  BY <1>1, ReaperFrame
<1>3. ScalarsOK /\ WaitersOK(queue, count)
      /\ Null \notin Pcb /\ Members(queue, "dead_queue") \subseteq Pcb
  BY RunningFacts, SchedulerAssumption DEF Inv, Pcb
<1>4. HeapOK(queue, frames', to_free, pcbs, stacks')
  <2>1. \A p \in Procs \cup {Reaper} : frames'[p] # <<>> => p # to_free
    BY <1>2, <1>3 DEF HeapOK, Pcb
  <2>2. \A p \in Members(queue, "dead_queue") : p # to_free
    BY <1>2, <1>3 DEF HeapOK, Linked, Queues
  <2> QED
    BY <1>1, <1>2, <2>1, <2>2 DEF HeapOK
<1>5. ScalarsOK'
  BY <1>1, <1>3 DEF ScalarsOK, clockVars
<1> QED
  BY <1>1, <1>2, <1>3, <1>4, <1>5 DEF Inv

\* The reaper frees the PCB.
LEMMA ReapPcbInv == ASSUME Inv, ReapPcb PROVE Inv'
<1>1. At("reap_pcb") /\ frames' = Becomes(<<"reap_wait">>)
      /\ "reap_pcb" \in ReaperLabels /\ "reap_wait" \in ReaperLabels
      /\ pcbs' = pcbs \ {to_free} /\ to_free' = Null
      /\ UNCHANGED <<current, queue, count, clockVars, irq, stacks>>
  BY DEF ReapPcb, ReaperLabels
<1>2. /\ RunningOK(queue, current, frames')
      /\ HeapOK(queue, frames', to_free, pcbs, stacks)
  BY <1>1, ReaperFrame
<1>3. ScalarsOK /\ WaitersOK(queue, count) /\ Null \notin Pcb
  BY SchedulerAssumption DEF Inv, Pcb
<1>4. HeapOK(queue, frames', to_free', pcbs', stacks)
  <2>1. \A p \in Procs \cup {Reaper} : frames'[p] # <<>> => p # to_free
    BY <1>2, <1>3 DEF HeapOK, Pcb
  <2>2. \A p \in Pcb : Linked(queue, p) => p # to_free
    BY <1>2, <1>3 DEF HeapOK
  <2>3. Idle # to_free
    BY <1>3, SchedulerAssumption DEF ScalarsOK, Pcb
  <2> QED
    BY <1>1, <1>2, <2>1, <2>2, <2>3 DEF HeapOK
<1>5. ScalarsOK'
  BY <1>1, <1>3 DEF ScalarsOK, clockVars
<1> QED
  BY <1>1, <1>2, <1>3, <1>4, <1>5 DEF Inv

-----------------------------------------------------------------------------
(* The invariant.                                                           *)

\* The invariant holds when the boot context has forked the first two processes.
LEMMA InitInv == ASSUME Init PROVE Inv
<1>1. Main \in Pcb /\ Reaper \in Pcb /\ Idle \in Pcb /\ Main # Reaper /\ Main # Idle
      /\ Reaper # Idle /\ Null \notin Pcb
  BY SchedulerAssumption DEF Pcb
<1>2. /\ "run_queue" \in Queues
      /\ queue["run_queue"] = <<Reaper, Main>>
      /\ \A q \in Queues : q # "run_queue" => queue[q] = <<>>
      /\ queue \in [Queues -> Seq(Pcb)]
  BY <1>1 DEF Init, Queues
<1>3. /\ DOMAIN queue["run_queue"] = {1, 2}
      /\ queue["run_queue"][1] = Reaper /\ queue["run_queue"][2] = Main
      /\ \A q \in Queues : q # "run_queue" => DOMAIN queue[q] = {} /\ Len(queue[q]) = 0
  <2>1. 1..2 = {1, 2} /\ 1..0 = {}
    OBVIOUS
  <2>2. Len(<<Reaper, Main>>) = 2 /\ Len(<<>>) = 0
    OBVIOUS
  <2>3. DOMAIN <<Reaper, Main>> = 1..2
    OBVIOUS
  <2>4. \A q \in Queues : q # "run_queue" => DOMAIN queue[q] = {}
    BY <1>2, <2>1, <2>2, LenProperties
  <2> QED
    BY <1>2, <2>1, <2>2, <2>3, <2>4
<1>4. /\ Members(queue, "run_queue") = {Reaper, Main}
      /\ \A q \in Queues : q # "run_queue" => Members(queue, q) = {}
  BY <1>2, <1>3 DEF Members, Range
<1>5. QueuesOK(queue)
  <2>1. Once(queue)
    <3> SUFFICES ASSUME NEW q \in Queues, NEW r \in Queues,
                        NEW i \in DOMAIN queue[q], NEW j \in DOMAIN queue[r],
                        queue[q][i] = queue[r][j]
                 PROVE  q = r /\ i = j
      BY DEF Once
    <3>1. q = "run_queue" /\ r = "run_queue"
      BY <1>3
    <3> QED
      BY <1>1, <1>3, <3>1
  <2>2. PlacesOK(queue)
    BY <1>4 DEF PlacesOK, Queues, Sems
  <2> QED
    BY <1>2, <2>1, <2>2 DEF QueuesOK, QType
<1>6. /\ frames[Idle] = <<"boot_enable">> /\ frames[Reaper] = <<"reap_wait">>
      /\ frames[Main] = <<"user">>
      /\ \A p \in Pcb \ {Idle, Reaper, Main} : frames[p] = <<>>
  BY <1>1 DEF Init
<1>7. /\ "boot_enable" \in Labels /\ "reap_wait" \in Labels /\ "user" \in Labels
      /\ "boot_enable" \in Base(Idle) /\ "reap_wait" \in Base(Reaper) /\ "user" \in Base(Main)
      /\ "boot_enable" \notin HandOver /\ "reap_wait" \notin HandOver /\ "user" \notin HandOver
  BY <1>1 DEF Labels, Base, BootLabels, ReaperLabels, UserLabels, HandOver
<1>8. ASSUME NEW p \in Pcb, NEW l \in Labels, l \in Base(p)
      PROVE  FrameOK(p, <<l>>) /\ Head(<<l>>) = l /\ <<l>> # <<>>
  <2>1. <<l>> \in Seq(Labels) /\ Len(<<l>>) = 1 /\ <<l>>[1] = l /\ Len(<<>>) = 0
    OBVIOUS
  <2>2. \A i \in 1..1 : i = 1
    OBVIOUS
  <2>3. <<l>> # <<>> /\ Head(<<l>>) = l
    BY <2>1
  <2> QED
    BY <1>8, <2>1, <2>2, <2>3 DEF FrameOK
<1>9. \A p \in Pcb : FrameOK(p, <<>>)
  BY DEF FrameOK
<1>10. /\ frames[Idle] # <<>> /\ frames[Reaper] # <<>> /\ frames[Main] # <<>>
       /\ \A p \in Pcb : ~InHandOver(frames, p) /\ FrameOK(p, frames[p])
  BY <1>1, <1>6, <1>7, <1>8, <1>9 DEF InHandOver
<1>11. FramesOK(frames)
  <2>1. \A p \in Pcb : frames[p] \in Seq(Labels)
    BY <1>10 DEF FrameOK
  <2>2. frames = [p \in Pcb |-> frames[p]]
    BY DEF Init
  <2> QED
    BY <1>10, <2>1, <2>2 DEF FramesOK
<1>12. current = Idle /\ ~Linked(queue, Idle)
  BY <1>1, <1>4 DEF Init, Linked
<1>13. Startable(queue, frames)
  BY <1>4, <1>10 DEF Startable, ReadyQueues
<1>14. Head(frames[current]) \notin HandOver
  BY <1>6, <1>7, <1>8, <1>12
<1>15. \A p \in Pcb \ {Idle, current} :
         frames[p] # <<>> => \E q \in ReadyQueues : p \in Members(queue, q)
  BY <1>2, <1>4, <1>6 DEF ReadyQueues
<1>16. RunningOK(queue, current, frames)
  BY <1>1, <1>5, <1>10, <1>11, <1>12, <1>13, <1>14, <1>15 DEF RunningOK, HandOver
<1>17. HeapOK(queue, frames, to_free, pcbs, stacks)
  <2>1. pcbs = {Idle, Reaper, Main} /\ stacks = {Reaper, Main} /\ to_free = Null
    BY DEF Init
  <2>2. \A p \in Pcb : Linked(queue, p) => p \in {Reaper, Main}
    BY <1>4 DEF Linked
  <2>3. Members(queue, "dead_queue") = {}
    BY <1>4 DEF Queues
  <2>4. \A p \in Procs \cup {Reaper} : frames[p] # <<>> => p \in {Reaper, Main}
    BY <1>6, SchedulerAssumption DEF Pcb
  <2> QED
    BY <2>1, <2>2, <2>3, <2>4 DEF HeapOK
<1>18. WaitersOK(queue, count)
  <2>1. \A s \in Sems : Len(queue[s]) = 0
    BY <1>3 DEF Sems, Queues
  <2>2. \A s \in Sems : count[s] \in Nat
    BY SchedulerAssumption DEF Init
  <2> QED
    BY <2>1, <2>2 DEF WaitersOK
<1>19. ScalarsOK
  <2>1. count \in [Sems -> Int]
    BY SchedulerAssumption DEF Init
  <2>2. 0 \in 0..(TickMod - 1)
    BY SchedulerAssumption
  <2> QED
    BY <1>1, <2>1, <2>2 DEF Init, ScalarsOK
<1> QED
  BY <1>16, <1>17, <1>18, <1>19 DEF Inv

\* A stuttering step keeps the invariant.
LEMMA StutterInv == ASSUME Inv, UNCHANGED vars PROVE Inv'
<1>1. UNCHANGED <<current, queue, count, ticks, awaken_tick, irq, frames,
                  to_free, pcbs, stacks>>
  BY DEF vars, clockVars, heapVars
<1> QED
  BY <1>1 DEF Inv, ScalarsOK

\* Every step keeps Inv that is not a timer in a hand-over window.
LEMMA NextInv == ASSUME Inv, [Next]_vars, ~raced' PROVE Inv'
<1>1. CASE UserStep
  <2>1. CASE \E c \in Procs : Fork(c)
    BY <2>1, ForkInv
  <2>2. CASE \E n \in SleepTicks : Sleep(n)
    BY <2>2, SleepInv
  <2>3. CASE Yield
    BY <2>3, YieldInv
  <2>4. CASE Lock
    BY <2>4, LockInv
  <2>5. CASE Unlock
    BY <2>5, UnlockInv
  <2>6. CASE Exit
    BY <2>6, ExitInv
  <2> QED
    BY <1>1, <2>1, <2>2, <2>3, <2>4, <2>5, <2>6 DEF UserStep
<1>2. CASE SystemStep
  <2>1. CASE BootEnable \/ BootStop \/ IdleLoop
    BY <2>1, BootEnableInv, BootStopInv, IdleLoopInv
  <2>2. CASE SleepStop \/ YieldSchedule
    BY <2>2, SleepStopInv, YieldScheduleInv
  <2>3. CASE \E level \in BOOLEAN : PReturn(level)
    BY <2>3, PReturnInv
  <2>4. CASE ReapWait \/ ReapTake \/ ReapStack \/ ReapPcb
    BY <2>4, ReapWaitInv, ReapTakeInv, ReapStackInv, ReapPcbInv
  <2>5. CASE ClockEnter \/ ClockAwaken \/ ClockDone \/ ClockYield \/ IrqReturn
    BY <2>5, ClockEnterInv, ClockAwakenInv, ClockDoneInv, ClockYieldInv, IrqReturnInv
  <2> QED
    BY <1>2, <2>1, <2>2, <2>3, <2>4, <2>5 DEF SystemStep
<1>3. CASE IrqEntry
  BY <1>3, IrqEntryInv
<1>4. CASE UNCHANGED vars
  BY <1>4, StutterInv
<1> QED
  BY <1>1, <1>2, <1>3, <1>4 DEF Next, Crossed

-----------------------------------------------------------------------------
(* Which processes keep their places on a queue.                            *)

\* The process at place i of queue q is on it in qs2, and no further back.
Kept(qs, qs2, q, i) == \E j \in DOMAIN qs2[q] : j <= i /\ qs2[q][j] = qs[q][i]

\* It is at the same place.
Stays(qs, qs2, q, i) == i \in DOMAIN qs2[q] /\ qs2[q][i] = qs[q][i]

LEMMA StaysKept ==
  ASSUME NEW a, NEW b, QType(a), NEW q \in Queues, NEW i \in DOMAIN a[q], Stays(a, b, q, i)
  PROVE  Kept(a, b, q, i)
<1>1. i \in Int
  BY SeqFacts
<1> QED
  BY <1>1 DEF Kept, Stays

LEMMA KeptTwice ==
  ASSUME NEW a, NEW b, NEW c, QType(a), QType(b), QType(c), NEW q \in Queues,
         NEW i \in DOMAIN a[q], Kept(a, b, q, i), \A k \in DOMAIN b[q] : Kept(b, c, q, k)
  PROVE  Kept(a, c, q, i)
<1>1. PICK j \in DOMAIN b[q] : j <= i /\ b[q][j] = a[q][i]
  BY DEF Kept
<1>2. PICK k \in DOMAIN c[q] : k <= j /\ c[q][k] = b[q][j]
  BY DEF Kept
<1>3. i \in Int /\ j \in Int /\ k \in Int
  BY SeqFacts
<1>4. k <= i /\ c[q][k] = a[q][i]
  BY <1>1, <1>2, <1>3
<1> QED
  BY <1>4 DEF Kept

\* queue_append moves nobody.
LEMMA EnqueueKeeps ==
  ASSUME NEW qs, QType(qs), NEW q \in Queues, NEW p \in Pcb, NEW e, e = Enqueue(qs, q, p)
  PROVE  QType(e) /\ \A r \in Queues : \A i \in DOMAIN qs[r] : Stays(qs, e, r, i)
<1>1. e \in [Queues -> Seq(Pcb)] /\ e[q] = Append(qs[q], p)
      /\ \A r \in Queues : r # q => e[r] = qs[r]
  BY AppendProperties DEF QType, Enqueue
<1>2. ASSUME NEW i \in DOMAIN qs[q] PROVE Stays(qs, e, q, i)
  <2>1. /\ Len(qs[q]) \in Nat /\ Len(e[q]) = Len(qs[q]) + 1
        /\ \A k \in 1..Len(qs[q]) : e[q][k] = qs[q][k]
    BY <1>1, AppendProperties, SeqFacts DEF QType
  <2>2. DOMAIN qs[q] = 1..Len(qs[q]) /\ DOMAIN e[q] = 1..Len(e[q])
    BY <1>1, SeqFacts DEF QType
  <2> QED
    BY <2>1, <2>2 DEF Stays
<1>3. \A r \in Queues : r # q => \A i \in DOMAIN qs[r] : Stays(qs, e, r, i)
  BY <1>1 DEF Stays
<1> QED
  BY <1>1, <1>2, <1>3 DEF QType

\* Taking out the process at place m passes nobody else.
LEMMA DropKeeps ==
  ASSUME NEW qs, QType(qs), NEW q \in Queues, NEW m \in 1..Len(qs[q]),
         NEW d, Dropped(qs, q, m, d)
  PROVE  \A r \in Queues : \A i \in DOMAIN qs[r] : Kept(qs, d, r, i) \/ (r = q /\ i = m)
<1>1. /\ QType(d) /\ \A r \in Queues : r # q => d[r] = qs[r]
      /\ Len(d[q]) = Len(qs[q]) - 1 /\ Len(qs[q]) \in Nat
      /\ \A k \in 1..(Len(qs[q]) - 1) : d[q][k] = qs[q][IF k < m THEN k ELSE k + 1]
      /\ DOMAIN qs[q] = 1..Len(qs[q]) /\ DOMAIN d[q] = 1..Len(d[q])
  BY SeqFacts DEF Dropped
<1>2. ASSUME NEW i \in DOMAIN qs[q], i # m PROVE Kept(qs, d, q, i)
  <2> DEFINE j == IF i < m THEN i ELSE i - 1
  <2>1. j \in 1..(Len(qs[q]) - 1) /\ j <= i /\ (IF j < m THEN j ELSE j + 1) = i
    BY <1>1, <1>2
  <2> HIDE DEF j
  <2>2. j \in DOMAIN d[q] /\ d[q][j] = qs[q][i]
    BY <1>1, <2>1
  <2> QED
    BY <2>1, <2>2 DEF Kept
<1>3. ASSUME NEW r \in Queues, r # q, NEW i \in DOMAIN qs[r] PROVE Kept(qs, d, r, i)
  BY <1>1, <1>3, StaysKept DEF Stays
<1> QED
  BY <1>2, <1>3

\* queue_dequeue takes the first.
LEMMA DequeueKeeps ==
  ASSUME NEW qs, QType(qs), NEW q \in Queues, qs[q] # <<>>, NEW d, d = Dequeue(qs, q)
  PROVE  /\ QType(d) /\ Head(qs[q]) \in Pcb /\ Head(qs[q]) = qs[q][1]
         /\ \A r \in Queues : \A i \in DOMAIN qs[r] : Kept(qs, d, r, i) \/ (r = q /\ i = 1)
<1>1. d \in [Queues -> Seq(Pcb)] /\ d[q] = Tail(qs[q])
      /\ \A r \in Queues : r # q => d[r] = qs[r]
  BY HeadTailProperties DEF QType, Dequeue
<1>2. /\ qs[q] \in Seq(Pcb) /\ Len(qs[q]) \in Nat \ {0}
      /\ Head(qs[q]) = qs[q][1] /\ Head(qs[q]) \in Pcb
  BY EmptySeq, SeqFacts DEF QType
<1>3. /\ Len(d[q]) = Len(qs[q]) - 1
      /\ \A k \in 1..(Len(qs[q]) - 1) : d[q][k] = qs[q][IF k < 1 THEN k ELSE k + 1]
  BY <1>1, <1>2, HeadTailProperties
<1>4. QType(d) /\ 1 \in 1..Len(qs[q])
  BY <1>1, <1>2 DEF QType
<1>5. Dropped(qs, q, 1, d)
  BY <1>1, <1>3, <1>4 DEF Dropped
<1> QED
  BY <1>2, <1>4, <1>5, DropKeeps

-----------------------------------------------------------------------------
(* A timer in a hand-over window: from IrqEntry to the process_yield of the *)
(* handler only the handler runs, and the process it has interrupted stays  *)
(* linked; that process_yield links it once more.                           *)

\* Every step that is not a stutter starts from queues that are sequences.
LEMMA StepsOnce == Next => Once(queue) \/ UNCHANGED vars
<1>1. UserStep => Once(queue)
  BY DEF UserStep, Fork, Sleep, Yield, Lock, Unlock, Exit, At, AtUser
<1>2. SystemStep => Once(queue)
  BY DEF SystemStep, BootEnable, BootStop, IdleLoop, SleepStop, YieldSchedule, PReturn,
         ReapWait, ReapTake, ReapStack, ReapPcb, ClockEnter, ClockAwaken, ClockDone,
         ClockYield, IrqReturn, At
<1> QED
  BY <1>1, <1>2 DEF Next, IrqEntry, Crossed

\* At a point of the handler before its process_yield nothing else can run.
LEMMA OnlyHandler ==
  ASSUME Next, Once(queue), Head(frames[current]) \in BeforeYield
  PROVE  ClockEnter \/ ClockAwaken \/ ClockDone \/ ClockYield \/ IrqEntry
<1>1. ~UserStep
  BY DEF UserStep, Fork, Sleep, Yield, Lock, Unlock, Exit, At, AtUser, UserLabels,
         BeforeYield, ClockLabels
<1>2. ~(BootEnable \/ BootStop \/ IdleLoop \/ SleepStop \/ YieldSchedule \/ IrqReturn)
  BY DEF BootEnable, BootStop, IdleLoop, SleepStop, YieldSchedule, IrqReturn, At,
         BeforeYield, ClockLabels
<1>3. ~(ReapWait \/ ReapTake \/ ReapStack \/ ReapPcb \/ \E level \in BOOLEAN : PReturn(level))
  BY DEF ReapWait, ReapTake, ReapStack, ReapPcb, PReturn, At, BeforeYield, ClockLabels
<1> QED
  BY <1>1, <1>2, <1>3 DEF Next, SystemStep, Crossed

\* A process that is linked is linked twice once it is appended again.
LEMMA TwiceLemma ==
  ASSUME NEW qs, QType(qs), NEW q \in Queues, NEW p \in Pcb, Linked(qs, p),
         NEW e, e = Enqueue(qs, q, p)
  PROVE  ~Once(e)
<1>1. PICK r \in Queues : p \in Members(qs, r)
  BY DEF Linked
<1>2. PICK i \in 1..Len(qs[r]) : p = qs[r][i]
  BY <1>1, SeqFacts
<1>3. QType(e) /\ i \in DOMAIN e[r] /\ e[r][i] = p
  BY <1>2, EnqueueKeeps, SeqFacts DEF Stays
<1> DEFINE n == Len(qs[q]) + 1
<1>4. n \in DOMAIN e[q] /\ e[q][n] = p /\ (r = q => i # n)
  <2>1. /\ e[q] = Append(qs[q], p) /\ qs[q] \in Seq(Pcb) /\ Len(qs[q]) \in Nat
    BY SeqFacts DEF Enqueue, QType
  <2>2. Len(e[q]) = n /\ e[q][n] = p /\ n \in 1..n
    BY <2>1, AppendProperties
  <2>3. DOMAIN e[q] = 1..Len(e[q])
    BY <1>3, SeqFacts
  <2>4. r = q => i < n
    BY <1>2, <2>1
  <2> QED
    BY <2>1, <2>2, <2>3, <2>4
<1> QED
  BY <1>3, <1>4, OnceLemma

\* The innermost point becomes l, or calls l.
LEMMA PointMoves ==
  ASSUME current \in Pcb, frames \in [Pcb -> Seq(Labels)], frames[current] # <<>>,
         NEW l \in Labels, NEW fs, fs = Becomes(<<l>>) \/ fs = Calls(l)
  PROVE  fs \in [Pcb -> Seq(Labels)] /\ fs[current] # <<>> /\ Head(fs[current]) = l
<1> DEFINE f == frames[current]
<1>1. f \in Seq(Labels) /\ Tail(f) \in Seq(Labels) /\ <<l>> \in Seq(Labels)
  BY HeadTailProperties
<1>2. ASSUME NEW t \in Seq(Labels)
      PROVE  <<l>> \o t \in Seq(Labels) /\ <<l>> \o t # <<>> /\ Head(<<l>> \o t) = l
  BY <1>1, <1>2, ConcatProperties
<1> HIDE DEF f
<1>3. PICK t \in Seq(Labels) : fs = [frames EXCEPT ![current] = <<l>> \o t]
  BY <1>1 DEF Becomes, Calls, f
<1> QED
  BY <1>2, <1>3

\* The timer expires in a hand-over window.
LEMMA RaceBegins == ASSUME Inv, IrqEntry, ~raced, raced' PROVE RacedInv'
<1>1. /\ QType(queue) /\ current \in Pcb /\ frames \in [Pcb -> Seq(Labels)]
      /\ frames[current] # <<>> /\ ScalarsOK
  BY DEF Inv, RunningOK, FramesOK, QueuesOK
<1>2. Head(frames[current]) \in HandOver
  BY DEF IrqEntry, At
<1>3. Linked(queue, current)
  BY <1>2 DEF Inv, RunningOK, HandOver, Linked, Queues
<1>4. UNCHANGED <<queue, current>> /\ Once(queue) /\ ScalarsOK'
  BY <1>1 DEF IrqEntry, ScalarsOK, clockVars, heapVars
<1>5. "clk_enter" \in Labels /\ "clk_enter" \in BeforeYield /\ frames' = Calls("clk_enter")
  BY DEF Labels, ClockLabels, BeforeYield, IrqEntry
<1>6. frames' \in [Pcb -> Seq(Labels)] /\ frames'[current] # <<>>
      /\ Head(frames'[current]) = "clk_enter"
  BY <1>1, <1>5, PointMoves
<1> QED
  BY <1>1, <1>3, <1>4, <1>5, <1>6 DEF RacedInv

\* A step of the handler before its process_yield that leaves the queues alone.
LEMMA HandlerStep ==
  ASSUME RacedInv, Once(queue), ScalarsOK', UNCHANGED <<queue, current>>,
         NEW l \in BeforeYield, frames' = Becomes(<<l>>) \/ frames' = Calls(l)
  PROVE  RacedInv'
<1>1. l \in Labels
  BY DEF BeforeYield, Labels
<1>2. frames' \in [Pcb -> Seq(Labels)] /\ frames'[current] # <<>> /\ Head(frames'[current]) = l
  BY <1>1, PointMoves DEF RacedInv
<1> QED
  BY <1>2 DEF RacedInv

\* The handler starts a sleeper, who may be the process it has interrupted.
LEMMA RaceAwaken == ASSUME RacedInv, ClockAwaken PROVE RacedInv'
<1>1. /\ QType(queue) /\ Once(queue) /\ Linked(queue, current) /\ ScalarsOK
      /\ "tick_queue" \in Queues /\ "run_queue" \in Queues
  BY DEF RacedInv, ClockAwaken, At, Queues
<1>2. PICK m \in DOMAIN queue["tick_queue"] :
        queue' = Enqueue(Unlink(queue, "tick_queue", m), "run_queue", queue["tick_queue"][m])
  BY DEF ClockAwaken, Due
<1> DEFINE d == Unlink(queue, "tick_queue", m)  p == queue["tick_queue"][m]
<1>3. /\ QType(d) /\ Once(d) /\ p \in Pcb /\ ~Linked(d, p)
      /\ \A r \in Queues : r # "tick_queue" => Members(d, r) = Members(queue, r)
      /\ Members(d, "tick_queue") = Members(queue, "tick_queue") \ {p}
  BY <1>1, RemoveLemma
<1> HIDE DEF d, p
<1>4. /\ QType(queue') /\ Once(queue')
      /\ \A r \in Queues : r # "run_queue" => Members(queue', r) = Members(d, r)
      /\ Members(queue', "run_queue") = Members(d, "run_queue") \cup {p}
  BY <1>1, <1>2, <1>3, EnqueueLemma DEF d, p
<1>5. Linked(queue', current)
  BY <1>1, <1>3, <1>4 DEF Linked
<1>6. /\ UNCHANGED <<current, frames>> /\ ScalarsOK'
  BY <1>1 DEF ClockAwaken, ScalarsOK, clockVars, heapVars
<1> QED
  BY <1>1, <1>4, <1>5, <1>6 DEF RacedInv

\* The process_yield of the handler links the process it has interrupted again.
LEMMA RaceEnds == ASSUME RacedInv, ClockYield PROVE RacedInv'
<1>1. /\ QType(queue) /\ Once(queue) /\ Linked(queue, current) /\ ScalarsOK
      /\ current \in Pcb /\ "run_queue" \in Queues
      /\ frames \in [Pcb -> Seq(Labels)] /\ frames[current] # <<>>
  BY DEF RacedInv, ClockYield, At, Queues
<1>2. QType(queue') /\ ~Once(queue')
  BY <1>1, TwiceLemma, EnqueueKeeps DEF ClockYield
<1> DEFINE t == <<"clk_ret">> \o Tail(frames[current])
<1>3. /\ "clk_ret" \in Labels /\ "yield_sched" \in Labels /\ "yield_sched" \notin BeforeYield
      /\ frames[current] \in Seq(Labels) /\ Tail(frames[current]) \in Seq(Labels)
  BY <1>1, HeadTailProperties DEF Labels, ClockLabels, HandOver, BeforeYield
<1>4. <<"clk_ret">> \in Seq(Labels) /\ <<"yield_sched">> \in Seq(Labels)
      /\ <<"yield_sched", "clk_ret">> \in Seq(Labels)
  BY <1>3
<1>5. LET g == <<"yield_sched", "clk_ret">> \o Tail(frames[current])
      IN  g \in Seq(Labels) /\ g # <<>> /\ Head(g) = "yield_sched"
  BY <1>3, <1>4, ConcatProperties
<1>6. frames' \in [Pcb -> Seq(Labels)] /\ frames'[current] # <<>>
      /\ Head(frames'[current]) = "yield_sched"
  BY <1>1, <1>5 DEF ClockYield, Becomes
<1>7. UNCHANGED current /\ ScalarsOK'
  BY <1>1 DEF ClockYield, ScalarsOK, clockVars, heapVars
<1> QED
  BY <1>1, <1>2, <1>3, <1>6, <1>7 DEF RacedInv

\* Every step keeps RacedInv.
LEMMA RaceGoesOn == ASSUME RacedInv, [Next]_vars PROVE RacedInv'
<1>1. CASE UNCHANGED vars
  BY <1>1 DEF vars, clockVars, heapVars, RacedInv, ScalarsOK
<1>2. CASE Next /\ ~UNCHANGED vars
  <2>1. Once(queue) /\ Head(frames[current]) \in BeforeYield /\ ScalarsOK
    BY <1>2, StepsOnce DEF RacedInv
  <2>2. CASE ClockEnter
    <3>1. ticks' \in 0..(TickMod - 1)
      BY <2>1, <2>2, SchedulerAssumption DEF ScalarsOK, ClockEnter
    <3>2. ScalarsOK' /\ UNCHANGED <<queue, current>> /\ frames' = Becomes(<<"clk_awaken">>)
      BY <2>1, <2>2, <3>1 DEF ScalarsOK, ClockEnter, heapVars
    <3> QED
      BY <2>1, <3>2, HandlerStep DEF BeforeYield, ClockLabels
  <2>3. CASE ClockAwaken
    BY <2>3, RaceAwaken
  <2>4. CASE ClockDone
    <3>1. ScalarsOK' /\ UNCHANGED <<queue, current>> /\ frames' = Becomes(<<"clk_yield">>)
      BY <2>1, <2>4 DEF ScalarsOK, ClockDone, clockVars, heapVars
    <3> QED
      BY <2>1, <3>1, HandlerStep DEF BeforeYield, ClockLabels
  <2>5. CASE ClockYield
    BY <2>5, RaceEnds
  <2>6. CASE IrqEntry
    <3>1. ScalarsOK' /\ UNCHANGED <<queue, current>> /\ frames' = Calls("clk_enter")
      BY <2>1, <2>6 DEF ScalarsOK, IrqEntry, clockVars, heapVars
    <3> QED
      BY <2>1, <3>1, HandlerStep DEF BeforeYield, ClockLabels
  <2> QED
    BY <1>2, <2>1, <2>2, <2>3, <2>4, <2>5, <2>6, OnlyHandler
<1> QED
  BY <1>1, <1>2

\* The history is never lost, and only an interrupt makes it.
LEMMA History ==
  ASSUME raced \in BOOLEAN, [Next]_vars
  PROVE  raced' \in BOOLEAN /\ (raced => raced') /\ (raced' => raced \/ IrqEntry)
<1>1. CASE UserStep
  BY <1>1 DEF UserStep, Fork, Sleep, Yield, Lock, Unlock, Exit
<1>2. CASE SystemStep
  BY <1>2 DEF SystemStep, BootEnable, BootStop, IdleLoop, SleepStop, YieldSchedule, PReturn,
         ReapWait, ReapTake, ReapStack, ReapPcb, ClockEnter, ClockAwaken, ClockDone,
         ClockYield, IrqReturn
<1>3. CASE IrqEntry
  BY <1>3 DEF IrqEntry, At
<1>4. CASE UNCHANGED vars
  BY <1>4 DEF vars
<1> QED
  BY <1>1, <1>2, <1>3, <1>4 DEF Next, Crossed

\* Every step keeps the invariant, whichever of its cases holds.
LEMMA NextRace == ASSUME RaceInv, [Next]_vars PROVE RaceInv'
<1>1. raced' \in BOOLEAN /\ (raced => raced') /\ (raced' => raced \/ IrqEntry)
  BY History DEF RaceInv
<1>2. CASE raced
  BY <1>1, <1>2, RaceGoesOn DEF RaceInv
<1>3. CASE ~raced /\ raced'
  BY <1>1, <1>3, RaceBegins DEF RaceInv
<1>4. CASE ~raced'
  BY <1>1, <1>4, NextInv DEF RaceInv
<1> QED
  BY <1>2, <1>3, <1>4

\* The inductive invariant holds in every reachable state: Inv until a timer expires
\* in a hand-over window (process.c:133-134, 209-211), RacedInv afterwards.
THEOREM InvHolds == Spec => []RaceInv
<1>1. Init => RaceInv
  BY InitInv DEF RaceInv, Init
<1>2. RaceInv /\ [Next]_vars => RaceInv'
  BY NextRace
<1> QED
  BY <1>1, <1>2, PTL DEF Spec

-----------------------------------------------------------------------------
(* The properties.                                                          *)

\* The invariant implies the type invariant.
LEMMA InvTypeOK == RaceInv => TypeOK
<1> SUFFICES ASSUME RaceInv PROVE TypeOK
  OBVIOUS
<1>1. /\ current \in Pcb /\ frames[current] # <<>> /\ frames \in [Pcb -> Seq(Labels)]
      /\ queue \in [Queues -> Seq(Pcb)] /\ ScalarsOK /\ raced \in BOOLEAN
  BY DEF RaceInv, RacedInv, Inv, RunningOK, FramesOK, QueuesOK, QType
<1> QED
  BY <1>1 DEF ScalarsOK, TypeOK

\* Every variable keeps its type; in particular the running process always has
\* code to return to, and the reaper only frees PCBs process_fork allocated.
THEOREM TypeCorrect == Spec => []TypeOK
BY InvHolds, InvTypeOK, PTL

\* The invariant implies LinkedOnce.
LEMMA InvLinkedOnce == RaceInv => LinkedOnce
BY DEF RaceInv, RacedInv, Inv, RunningOK, QueuesOK, LinkedOnce

\* A PCB is linked twice only by the handler of a timer that expired in a hand-over
\* window of proc_sleep_ms or process_yield, and then always, before any other
\* process runs (process.c:133-134, 209-211): everywhere else the contract holds
\* under which queue.c, whose nodes are the PCBs themselves, works at all.
THEOREM LinkedOnceHolds == Spec => []LinkedOnce
BY InvHolds, InvLinkedOnce, PTL

\* Inv implies YieldInvariant.
LEMMA InvYieldInvariant == Inv => YieldInvariant
<1> SUFFICES ASSUME Inv, Head(frames[current]) \in UserLabels \cup {"clk_yield"}
             PROVE  current \notin On("run_queue")
  BY DEF YieldInvariant
<1>1. Head(frames[current]) \notin HandOver
  BY DEF UserLabels, HandOver
<1>2. ~Linked(queue, current)
  BY <1>1, RunningFacts DEF Inv, RunningOK
<1> QED
  BY <1>2 DEF Linked, Members, On, Queues

\* The invariant process.c states at the head of process_yield is broken by nothing
\* but a timer in a hand-over window.
THEOREM YieldInvariantHolds == Spec => []YieldUnraced
<1>1. RaceInv => YieldUnraced
  BY InvYieldInvariant DEF RaceInv, YieldUnraced
<1> QED
  BY <1>1, InvHolds, PTL

\* Inv implies NobodyLost.
LEMMA InvNobodyLost == Inv => NobodyLost
<1> SUFFICES ASSUME Inv, NEW p \in Pcb \ {Idle}, frames[p] # <<>>, p # current
             PROVE  p \in On("run_queue") \cup On("tick_queue") \cup UNION {On(s) : s \in Sems}
  BY DEF NobodyLost
<1>1. PICK q \in ReadyQueues : p \in Members(queue, q)
  BY DEF Inv, RunningOK
<1>2. q = "run_queue" \/ q = "tick_queue" \/ q \in Sems
  BY DEF ReadyQueues, Queues
<1> QED
  BY <1>1, <1>2 DEF Members, On

\* No process with code left to run is forgotten by every queue, if no timer has
\* expired in a hand-over window.
THEOREM NobodyLostHolds == Spec => []NobodyLost
<1>1. RaceInv => NobodyLost
  BY InvNobodyLost DEF RaceInv, NobodyLost
<1> QED
  BY <1>1, InvHolds, PTL

\* Inv implies NoUseAfterFree.
LEMMA InvNoUseAfterFree == Inv => NoUseAfterFree
<1> SUFFICES ASSUME Inv PROVE NoUseAfterFree
  OBVIOUS
<1>1. HeapOK(queue, frames, to_free, pcbs, stacks) /\ QType(queue)
  BY DEF Inv, RunningOK, QueuesOK
<1>2. ASSUME NEW q \in Queues, NEW p \in On(q) PROVE p \in pcbs
  <2>1. p \in Members(queue, q)
    BY <1>2 DEF On, Members
  <2>2. p \in Pcb /\ Linked(queue, p)
    BY <1>1, <2>1, MembersPcb DEF Linked
  <2> QED
    BY <1>1, <2>2 DEF HeapOK
<1>3. \A p \in On("dead_queue") : p \in stacks /\ frames[p] = <<>>
  BY <1>1 DEF HeapOK, On, Members
<1> QED
  BY <1>1, <1>2, <1>3 DEF HeapOK, NoUseAfterFree

\* Nothing that runs, can run again or is linked has been freed, if no timer has
\* expired in a hand-over window.
THEOREM NoUseAfterFreeHolds == Spec => []NoUseAfterFree
<1>1. RaceInv => NoUseAfterFree
  BY InvNoUseAfterFree DEF RaceInv, NoUseAfterFree
<1> QED
  BY <1>1, InvHolds, PTL

\* Inv implies SemaphoreWaiters.
LEMMA InvSemaphoreWaiters == Inv => SemaphoreWaiters
BY DEF Inv, WaitersOK, SemaphoreWaiters

\* Each semaphore has as many blocked processes as its count is below zero, if no
\* timer has expired in a hand-over window.
THEOREM SemaphoreWaitersHolds == Spec => []SemaphoreWaiters
<1>1. RaceInv => SemaphoreWaiters
  BY InvSemaphoreWaiters DEF RaceInv, SemaphoreWaiters
<1> QED
  BY <1>1, InvHolds, PTL

-----------------------------------------------------------------------------
(* The outermost point of a call stack                                      *)

\* The outermost point belongs to the process's own body; it is the innermost one
\* too, or lies below what has been called.
LEMMA OuterFacts ==
  ASSUME NEW p \in Pcb, NEW f, FrameOK(p, f), f # <<>>
  PROVE  /\ Last(f) \in Base(p) /\ Last(f) = f[Len(f)]
         /\ Head(f) \in Base(p) => Tail(f) = <<>> /\ Last(f) = Head(f)
         /\ Head(f) \notin Base(p) => Tail(f) # <<>> /\ Last(Tail(f)) = Last(f)
<1>1. /\ f \in Seq(Labels) /\ Len(f) \in Nat \ {0} /\ Head(f) = f[1]
      /\ Tail(f) \in Seq(Labels) /\ Len(Tail(f)) = Len(f) - 1
      /\ \A i \in 1..(Len(f) - 1) : Tail(f)[i] = f[i + 1]
  BY FrameHead
<1>e. \A q \in Seq(Labels) : q = <<>> <=> Len(q) = 0
  BY EmptySeq
<1>n. Len(f) \in 1..Len(f) /\ 1 \in 1..Len(f) /\ Base(p) \cap Above = {}
  BY <1>1, LabelFacts
<1>2. f[Len(f)] \in Base(p) /\ (1 # Len(f) => f[1] \in Above)
  BY <1>n DEF FrameOK
<1>3. ASSUME Head(f) \in Base(p) PROVE Tail(f) = <<>> /\ f[Len(f)] = Head(f)
  <2>1. Len(f) = 1
    BY <1>1, <1>2, <1>3, <1>n
  <2>2. Len(Tail(f)) = 0
    BY <1>1, <2>1
  <2> QED
    BY <1>1, <1>e, <2>1, <2>2
<1>4. ASSUME Head(f) \notin Base(p)
      PROVE  Tail(f) # <<>> /\ Tail(f)[Len(Tail(f))] = f[Len(f)]
  <2>1. Len(f) # 1
    BY <1>1, <1>2, <1>4
  <2>2. Len(f) - 1 \in 1..(Len(f) - 1) /\ (Len(f) - 1) + 1 = Len(f) /\ Len(f) - 1 # 0
    BY <1>1, <2>1
  <2>3. Tail(f)[Len(f) - 1] = f[Len(f)]
    BY <1>1, <2>2
  <2>4. Tail(f) # <<>>
    BY <1>1, <1>e, <2>2
  <2> QED
    BY <1>1, <2>3, <2>4
<1> QED
  BY <1>1, <1>2, <1>3, <1>4 DEF Last

\* What is called on top of a call stack does not change its outermost point.
LEMMA OuterPush ==
  ASSUME NEW f \in Seq(Labels), f # <<>>, NEW l \in Labels
  PROVE  <<l>> \o f # <<>> /\ Last(<<l>> \o f) = Last(f)
<1> DEFINE g == <<l>> \o f
<1>1. Len(f) \in Nat \ {0}
  BY EmptySeq, LenProperties
<1>2. <<l>> \in Seq(Labels) /\ Len(<<l>>) = 1
  OBVIOUS
<1>3. g \in Seq(Labels) /\ Len(g) = 1 + Len(f) /\ \A i \in 1..Len(f) : g[i + 1] = f[i]
  BY <1>1, <1>2, ConcatProperties
<1>4. Len(f) \in 1..Len(f) /\ Len(g) # 0
  BY <1>1, <1>3
<1>5. g[Len(f) + 1] = f[Len(f)] /\ Len(g) = Len(f) + 1
  BY <1>1, <1>3, <1>4
<1> QED
  BY <1>3, <1>4, <1>5, EmptySeq DEF Last

\* A call stack of one point.
LEMMA OuterOne ==
  ASSUME NEW l \in Labels
  PROVE  <<l>> \o <<>> = <<l>> /\ <<l>> # <<>> /\ Last(<<l>>) = l
BY DEF Last

-----------------------------------------------------------------------------
(* Steps that leave semaphores, dead processes and bodies alone             *)

\* Nobody is linked on two queues.
LEMMA OneQueue ==
  ASSUME NEW qs, QType(qs), Once(qs), NEW q \in Queues, NEW r \in Queues,
         NEW p, p \in Members(qs, q), p \in Members(qs, r)
  PROVE  q = r
<1>1. PICK i \in DOMAIN qs[q] : p = qs[q][i]
  BY SeqFacts
<1>2. PICK j \in DOMAIN qs[r] : p = qs[r][j]
  BY SeqFacts
<1> QED
  BY <1>1, <1>2, OnceLemma

\* The running process does not wait in semaphore_P, in a hand-over window or not.
LEMMA CurrentNotWaiting ==
  ASSUME Inv, NEW s \in Sems
  PROVE  current \notin Members(queue, s)
<1>1. /\ RunningOK(queue, current, frames) /\ QType(queue) /\ Once(queue)
      /\ s \in Queues /\ s \notin {"tick_queue", "run_queue"}
      /\ {"tick_queue", "run_queue"} \subseteq Queues
  BY DEF Inv, RunningOK, QueuesOK, Queues, Sems
<1>2. CASE InHandOver(frames, current)
  <2>1. PICK q \in {"tick_queue", "run_queue"} : current \in Members(queue, q)
    BY <1>1, <1>2 DEF RunningOK, InHandOver, HandOver
  <2> QED
    BY <1>1, <2>1, OneQueue
<1>3. CASE ~InHandOver(frames, current)
  BY <1>1, <1>3 DEF RunningOK, Linked
<1> QED
  BY <1>2, <1>3

\* schedule_next_process touches no queue but the run queue.
LEMMA RunQueueOnly ==
  ASSUME NEW qs, QType(qs), ScheduleNext(qs)
  PROVE  \A q \in Queues \ {"run_queue"} : queue'[q] = qs[q]
BY DEF ScheduleNext, Dequeue, QType

\* Bodies, the wait queue of sema and the dead queue as they were.
LEMMA SameCounts ==
  ASSUME NEW qs, NEW cnt, NEW fs, CountsOK(qs, cnt, fs),
         NEW qs2, qs2["sema"] = qs["sema"], qs2["dead_queue"] = qs["dead_queue"],
         NEW fs2, \A p \in Members(qs, "sema") : fs2[p] = fs[p],
         \A p \in Procs : BodyAt(fs2, p, "critical") <=> BodyAt(fs, p, "critical"),
         BodyAt(fs2, Reaper, "reap_take") <=> BodyAt(fs, Reaper, "reap_take")
  PROVE  CountsOK(qs2, cnt, fs2)
<1>1. Inside(fs2) = Inside(fs) /\ Members(qs2, "sema") = Members(qs, "sema")
  BY DEF Inside, Members
<1> QED
  BY <1>1 DEF CountsOK, LockOK, CorpsesOK

\* A step of the running process within a body, or within what its body has called.
LEMMA QuietLemma ==
  ASSUME CountInv, count' = count,
         queue'["sema"] = queue["sema"], queue'["dead_queue"] = queue["dead_queue"],
         NEW g, g # <<>>, frames' = Put(frames, current, g),
         \/ Last(g) = Last(frames[current])
         \/ {Last(g), Last(frames[current])} \cap {"critical", "reap_take"} = {}
  PROVE  CountsOK(queue', count', frames')
<1>1. /\ CountsOK(queue, count, frames) /\ frames \in [Pcb -> Seq(Labels)]
      /\ frames[current] # <<>> /\ QType(queue) /\ current \in Pcb
  BY RunningFacts DEF CountInv, FramesOK, QueuesOK
<1>2. frames'[current] = g /\ \A p \in Pcb : p # current => frames'[p] = frames[p]
  BY <1>1 DEF Put
<1>3. \A p \in Members(queue, "sema") : frames'[p] = frames[p]
  BY <1>1, <1>2, CurrentNotWaiting, MembersPcb DEF CountInv, Sems, Queues
<1>4. \A p \in Pcb, l \in {"critical", "reap_take"} :
        BodyAt(frames', p, l) <=> BodyAt(frames, p, l)
  BY <1>1, <1>2 DEF BodyAt
<1> QED
  BY <1>1, <1>3, <1>4, SameCounts, PcbFacts

\* What calls, returns and moves do to the outermost point of the running process.
LEMMA StackFacts ==
  ASSUME Inv, NEW l \in Labels, NEW f, f = frames[current]
  PROVE  /\ <<l>> \o f # <<>> /\ Last(<<l>> \o f) = Last(f)
         /\ Head(f) \notin Base(current) =>
              /\ <<>> \o Tail(f) # <<>> /\ Last(<<>> \o Tail(f)) = Last(f)
              /\ <<l>> \o Tail(f) # <<>> /\ Last(<<l>> \o Tail(f)) = Last(f)
              /\ \A k \in Labels :
                   <<k, l>> \o Tail(f) # <<>> /\ Last(<<k, l>> \o Tail(f)) = Last(f)
         /\ Head(f) \in Base(current) =>
              /\ <<l>> \o Tail(f) = <<l>> /\ Last(<<l>>) = l /\ Last(f) = Head(f)
              /\ \A k \in Labels : <<k, l>> \o Tail(f) = <<k, l>> /\ Last(<<k, l>>) = l
<1>1. current \in Pcb /\ f # <<>> /\ FrameOK(current, f) /\ f \in Seq(Labels)
      /\ Tail(f) \in Seq(Labels)
  BY RunningFacts, FrameHead
<1>2. <<l>> \o f # <<>> /\ Last(<<l>> \o f) = Last(f)
  BY <1>1, OuterPush
<1>3. ASSUME Head(f) \notin Base(current)
      PROVE  /\ <<>> \o Tail(f) # <<>> /\ Last(<<>> \o Tail(f)) = Last(f)
             /\ <<l>> \o Tail(f) # <<>> /\ Last(<<l>> \o Tail(f)) = Last(f)
             /\ \A k \in Labels :
                  <<k, l>> \o Tail(f) # <<>> /\ Last(<<k, l>> \o Tail(f)) = Last(f)
  <2>1. Tail(f) # <<>> /\ Last(Tail(f)) = Last(f)
    BY <1>1, <1>3, OuterFacts
  <2>2. <<>> \o Tail(f) = Tail(f)
    BY <1>1
  <2>3. <<l>> \o Tail(f) # <<>> /\ Last(<<l>> \o Tail(f)) = Last(f)
    BY <1>1, <2>1, OuterPush
  <2>4. <<l>> \o Tail(f) \in Seq(Labels)
    BY <1>1
  <2>5. ASSUME NEW k \in Labels
        PROVE  <<k, l>> \o Tail(f) # <<>> /\ Last(<<k, l>> \o Tail(f)) = Last(f)
    <3>1. <<k, l>> \o Tail(f) = <<k>> \o (<<l>> \o Tail(f))
      BY <1>1
    <3> QED
      BY <2>3, <2>4, <3>1, OuterPush
  <2> QED
    BY <2>1, <2>2, <2>3, <2>5
<1>4. ASSUME Head(f) \in Base(current)
      PROVE  /\ <<l>> \o Tail(f) = <<l>> /\ Last(<<l>>) = l /\ Last(f) = Head(f)
             /\ \A k \in Labels : <<k, l>> \o Tail(f) = <<k, l>> /\ Last(<<k, l>>) = l
  <2>1. Tail(f) = <<>> /\ Last(f) = Head(f)
    BY <1>1, <1>4, OuterFacts
  <2>2. <<l>> \o <<>> = <<l>> /\ Last(<<l>>) = l
    BY OuterOne
  <2>3. ASSUME NEW k \in Labels
        PROVE  <<k, l>> \o <<>> = <<k, l>> /\ Last(<<k, l>>) = l
    BY DEF Last
  <2> QED
    BY <2>1, <2>2, <2>3
<1> QED
  BY <1>2, <1>3, <1>4

\* What the lemmas below need of CountInv.
LEMMA CountFacts ==
  ASSUME CountInv
  PROVE  /\ Inv /\ CountsOK(queue, count, frames)
         /\ current \in Pcb /\ frames \in [Pcb -> Seq(Labels)] /\ frames[current] # <<>>
         /\ QueuesOK(queue) /\ QType(queue) /\ count \in [Sems -> Int]
BY RunningFacts DEF CountInv, FramesOK, QueuesOK, Inv, ScalarsOK

\* An interrupt, a call, and a step within what the body has called.
LEMMA AboveCounts ==
  ASSUME CountInv, count' = count,
         queue'["sema"] = queue["sema"], queue'["dead_queue"] = queue["dead_queue"],
         NEW l \in Labels, NEW k \in Labels,
         \/ frames' = Calls(l)
         \/ /\ Head(frames[current]) \notin Base(current)
            /\ frames' = Becomes(<<>>) \/ frames' = Becomes(<<l>>) \/ frames' = Becomes(<<k, l>>)
  PROVE  CountsOK(queue', count', frames')
<1> DEFINE f == frames[current]
<1>1. CASE frames' = Calls(l)
  <2>1. frames' = Put(frames, current, <<l>> \o f)
    BY <1>1 DEF Calls, Put
  <2> QED
    BY <2>1, CountFacts, StackFacts, QuietLemma
<1>2. CASE Head(f) \notin Base(current) /\ frames' = Becomes(<<>>)
  <2>1. frames' = Put(frames, current, <<>> \o Tail(f))
    BY <1>2 DEF Becomes, Put
  <2> QED
    BY <1>2, <2>1, CountFacts, StackFacts, QuietLemma
<1>3. CASE Head(f) \notin Base(current) /\ frames' = Becomes(<<l>>)
  <2>1. frames' = Put(frames, current, <<l>> \o Tail(f))
    BY <1>3 DEF Becomes, Put
  <2> QED
    BY <1>3, <2>1, CountFacts, StackFacts, QuietLemma
<1>4. CASE Head(f) \notin Base(current) /\ frames' = Becomes(<<k, l>>)
  <2>1. frames' = Put(frames, current, <<k, l>> \o Tail(f))
    BY <1>4 DEF Becomes, Put
  <2> QED
    BY <1>4, <2>1, CountFacts, StackFacts, QuietLemma
<1> QED
  BY <1>1, <1>2, <1>3, <1>4

\* A step of a body that is neither semaphore_P nor semaphore_V nor the return.
LEMMA BodyCounts ==
  ASSUME CountInv, count' = count,
         queue'["sema"] = queue["sema"], queue'["dead_queue"] = queue["dead_queue"],
         NEW l \in Labels, frames' = Becomes(<<l>>),
         Head(frames[current]) \in Base(current),
         {l, Head(frames[current])} \cap {"critical", "reap_take"} = {}
  PROVE  CountsOK(queue', count', frames')
<1>1. frames' = Put(frames, current, <<l>> \o Tail(frames[current]))
  BY DEF Becomes, Put
<1>2. <<l>> \o Tail(frames[current]) = <<l>> /\ Last(<<l>>) = l /\ <<l>> # <<>>
      /\ Last(frames[current]) = Head(frames[current])
  BY CountFacts, StackFacts, OuterOne
<1> QED
  BY <1>1, <1>2, QuietLemma

\* The boot context.
LEMMA BootCounts ==
  ASSUME CountInv, BootEnable \/ BootStop \/ IdleLoop
  PROVE  CountsOK(queue', count', frames')
<1>0. {"boot_enable", "boot_stop", "idle"} \subseteq BootLabels
      /\ {"boot_enable", "boot_stop", "idle"} \subseteq Labels
      /\ {"sema", "dead_queue"} \subseteq Queues \ {"run_queue"}
  BY DEF BootLabels, Labels, Queues, Sems
<1>1. CASE BootEnable
  <2>1. Head(frames[current]) = "boot_enable" /\ Head(frames[current]) \in Base(current)
    BY <1>0, <1>1, CountFacts, RunningFacts DEF BootEnable, At
  <2> QED
    BY <1>0, <1>1, <2>1, BodyCounts DEF BootEnable
<1>2. CASE BootStop
  <2>1. Head(frames[current]) = "boot_stop" /\ Head(frames[current]) \in Base(current)
    BY <1>0, <1>2, CountFacts, RunningFacts DEF BootStop, At
  <2>2. queue'["sema"] = queue["sema"] /\ queue'["dead_queue"] = queue["dead_queue"]
    BY <1>0, <1>2, CountFacts, RunQueueOnly DEF BootStop
  <2> QED
    BY <1>0, <1>2, <2>1, <2>2, BodyCounts DEF BootStop
<1>3. CASE IdleLoop
  <2>1. queue'["sema"] = queue["sema"] /\ queue'["dead_queue"] = queue["dead_queue"]
    BY <1>0, <1>3, CountFacts, RunQueueOnly DEF IdleLoop
  <2>2. frames' = frames /\ count' = count
    BY <1>3 DEF IdleLoop
  <2> QED
    BY <2>1, <2>2, CountFacts, SameCounts
<1> QED
  BY <1>1, <1>2, <1>3

\* What a body calls, up to where it gives up the CPU, and coming back from it.
LEMMA CallCounts ==
  ASSUME CountInv,
         \/ \E n \in SleepTicks : Sleep(n)
         \/ Yield \/ SleepStop \/ YieldSchedule
         \/ \E level \in BOOLEAN : PReturn(level)
  PROVE  CountsOK(queue', count', frames')
<1>0. /\ {"sleep_stop", "yield_sched"} \subseteq Labels
      /\ {"sema", "dead_queue", "run_queue", "tick_queue"} \subseteq Queues
  BY DEF HandOver, Labels, Queues, Sems
<1>1. CASE Yield \/ \E n \in SleepTicks : Sleep(n)
  <2>1. PICK q \in {"run_queue", "tick_queue"} : queue' = Enqueue(queue, q, current)
    BY <1>1 DEF Yield, Sleep
  <2>2. queue'["sema"] = queue["sema"] /\ queue'["dead_queue"] = queue["dead_queue"]
    BY <1>0, <2>1, CountFacts DEF Enqueue, QType
  <2>3. count' = count /\ \E l \in {"sleep_stop", "yield_sched"} : frames' = Calls(l)
    BY <1>1 DEF Yield, Sleep
  <2> QED
    BY <1>0, <2>2, <2>3, AboveCounts
<1>2. CASE SleepStop \/ YieldSchedule
  <2>1. Head(frames[current]) \notin Base(current)
    BY <1>2, CountFacts, LabelFacts DEF SleepStop, YieldSchedule, At, HandOver
  <2>2. ScheduleNext(queue) /\ frames' = Becomes(<<>>) /\ count' = count
    BY <1>2 DEF SleepStop, YieldSchedule
  <2>3. queue'["sema"] = queue["sema"] /\ queue'["dead_queue"] = queue["dead_queue"]
    BY <1>0, <2>2, CountFacts, RunQueueOnly
  <2> QED
    BY <1>0, <2>1, <2>2, <2>3, AboveCounts
<1>3. CASE \E level \in BOOLEAN : PReturn(level)
  <2>1. Head(frames[current]) \notin Base(current)
    BY <1>3, CountFacts, LabelFacts DEF PReturn, At, PRetLabels
  <2>2. frames' = Becomes(<<>>) /\ UNCHANGED <<queue, count>>
    BY <1>3 DEF PReturn
  <2> QED
    BY <1>0, <2>1, <2>2, AboveCounts
<1> QED
  BY <1>1, <1>2, <1>3

\* The timer interrupt.
LEMMA ClockCounts ==
  ASSUME CountInv,
         IrqEntry \/ ClockEnter \/ ClockAwaken \/ ClockDone \/ ClockYield \/ IrqReturn
  PROVE  CountsOK(queue', count', frames')
<1>0. /\ {"clk_enter", "clk_awaken", "clk_yield", "clk_ret", "yield_sched"} \subseteq Labels
      /\ {"sema", "dead_queue", "run_queue", "tick_queue"} \subseteq Queues
  BY DEF HandOver, ClockLabels, Labels, Queues, Sems
<1>1. CASE IrqEntry
  BY <1>0, <1>1, AboveCounts DEF IrqEntry
<1>2. ASSUME Head(frames[current]) \in ClockLabels PROVE Head(frames[current]) \notin Base(current)
  BY <1>2, CountFacts, LabelFacts
<1>3. CASE ClockEnter \/ ClockDone \/ IrqReturn
  BY <1>0, <1>2, <1>3, AboveCounts DEF ClockEnter, ClockDone, IrqReturn, At, ClockLabels
<1>4. CASE ClockYield
  <2>1. queue'["sema"] = queue["sema"] /\ queue'["dead_queue"] = queue["dead_queue"]
    BY <1>0, <1>4, CountFacts DEF ClockYield, Enqueue, QType
  <2> QED
    BY <1>0, <1>2, <1>4, <2>1, AboveCounts DEF ClockYield, At, ClockLabels
<1>5. CASE ClockAwaken
  <2>1. queue'["sema"] = queue["sema"] /\ queue'["dead_queue"] = queue["dead_queue"]
    BY <1>0, <1>5, CountFacts DEF ClockAwaken, Enqueue, Unlink, QType
  <2> QED
    BY <1>5, <2>1, CountFacts, SameCounts DEF ClockAwaken
<1> QED
  BY <1>1, <1>3, <1>4, <1>5

\* process_fork: a new body starts outside sema.
LEMMA ForkCounts == ASSUME CountInv, NEW c \in Procs, Fork(c) PROVE CountsOK(queue', count', frames')
<1>1. c \in Pcb /\ c \notin pcbs /\ HeapOK(queue, frames, to_free, pcbs, stacks)
  BY CountFacts, PcbFacts DEF Fork, Inv
<1>2. frames[c] = <<>> /\ ~Linked(queue, c) /\ c # Reaper
  BY <1>1, SchedulerAssumption DEF HeapOK
<1>3. /\ frames'[c] = <<"user">> /\ \A p \in Pcb : p # c => frames'[p] = frames[p]
      /\ queue' = Enqueue(queue, "run_queue", c) /\ count' = count
  BY <1>1, CountFacts DEF Fork
<1>4. queue'["sema"] = queue["sema"] /\ queue'["dead_queue"] = queue["dead_queue"]
  BY <1>3, CountFacts DEF Enqueue, QType, Queues, Sems
<1>5. \A p \in Members(queue, "sema") : frames'[p] = frames[p]
  BY <1>2, <1>3, CountFacts, MembersPcb DEF Linked, Queues, Sems
<1>6. Last(<<"user">>) = "user"
  BY OuterOne DEF Labels, UserLabels
<1>7. \A p \in Pcb, l \in {"critical", "reap_take"} :
        BodyAt(frames', p, l) <=> BodyAt(frames, p, l)
  BY <1>2, <1>3, <1>6 DEF BodyAt
<1> QED
  BY <1>3, <1>4, <1>5, <1>7, CountFacts, SameCounts, PcbFacts

\* The reaper frees what it has taken.
LEMMA ReapFreeCounts ==
  ASSUME CountInv, ReapStack \/ ReapPcb
  PROVE  CountsOK(queue', count', frames')
<1>1. {"reap_stack", "reap_pcb", "reap_wait"} \subseteq ReaperLabels \cap Labels
  BY DEF ReaperLabels, Labels
<1>2. PICK l \in {"reap_stack", "reap_pcb"} : At(l)
  BY DEF ReapStack, ReapPcb
<1>3. Head(frames[current]) \in Base(current) /\ Head(frames[current]) = l
  BY <1>1, <1>2, CountFacts, RunningFacts DEF At
<1>4. PICK k \in {"reap_pcb", "reap_wait"} : frames' = Becomes(<<k>>)
  BY DEF ReapStack, ReapPcb
<1>5. UNCHANGED <<queue, count>>
  BY DEF ReapStack, ReapPcb
<1> QED
  BY <1>1, <1>3, <1>4, <1>5, BodyCounts

-----------------------------------------------------------------------------
(* Steps that count                                                         *)

\* A step in which only the running process's stack changes, its body from a to b.
LEMMA BodyMoves ==
  ASSUME CountInv, NEW a, At(a), a \in Base(current), NEW g, NEW b,
         frames' = Put(frames, current, g), g = <<>> \/ Last(g) = b
  PROVE  /\ frames'[current] = g /\ \A p \in Pcb : p # current => frames'[p] = frames[p]
         /\ \A l : BodyAt(frames, current, l) <=> l = a
         /\ \A l : BodyAt(frames', current, l) <=> g # <<>> /\ l = b
<1>1. frames'[current] = g /\ \A p \in Pcb : p # current => frames'[p] = frames[p]
  BY CountFacts DEF Put
<1>2. frames[current] # <<>> /\ Last(frames[current]) = a
  BY CountFacts, RunningFacts, OuterFacts DEF At
<1> QED
  BY <1>1, <1>2 DEF BodyAt

\* The call stacks that semaphore_P leaves.
LEMMA SemPStack ==
  ASSUME CountInv, NEW a, At(a), a \in Base(current), NEW ret \in Labels,
         NEW s \in Sems, SemP(s, ret)
  PROVE  \E g : /\ frames' = Put(frames, current, g) /\ g # <<>> /\ Last(g) = ret
                /\ count[s] - 1 < 0 => Range(g) \cap PRetLabels # {}
<1>1. PRet \in PRetLabels /\ PRet \in Labels
  BY DEF PRet, PRetLabels, Labels
<1>2. Head(frames[current]) \in Base(current)
  BY DEF At
<1>3. <<PRet, ret>> \o Tail(frames[current]) = <<PRet, ret>> /\ Last(<<PRet, ret>>) = ret
      /\ <<ret>> \o Tail(frames[current]) = <<ret>> /\ Last(<<ret>>) = ret
  BY <1>1, <1>2, CountFacts, StackFacts
<1>4. Range(<<PRet, ret>>) \cap PRetLabels # {}
  <2>1. <<PRet, ret>>[1] = PRet /\ 1 \in DOMAIN <<PRet, ret>>
    OBVIOUS
  <2> QED
    BY <1>1, <2>1 DEF Range
<1>5. CASE count[s] - 1 < 0
  <2>0. frames' = Becomes(<<PRet, ret>>)
    BY <1>5, CountFacts DEF SemP
  <2>1. frames' = Put(frames, current, <<PRet, ret>>)
    BY <1>3, <2>0 DEF Becomes, Put
  <2> QED
    BY <1>3, <1>4, <2>1
<1>6. CASE ~(count[s] - 1 < 0)
  <2>1. frames' = Put(frames, current, <<ret>>)
    BY <1>3, <1>6, CountFacts DEF SemP, Becomes, Put
  <2> QED
    BY <1>3, <1>6, <2>1, OuterOne
<1> QED
  BY <1>5, <1>6

\* The queues that semaphore_P leaves: the caller is linked if it is blocked.
LEMMA SemPQueues ==
  ASSUME CountInv, Head(frames[current]) \notin HandOver, NEW s \in Sems, NEW ret, SemP(s, ret)
  PROVE  /\ \A q \in Queues \ {"run_queue", s} : queue'[q] = queue[q]
         /\ Members(queue', s) \subseteq Members(queue, s) \cup {current}
         /\ current \in Members(queue', s) => count[s] - 1 < 0
<1>1. /\ ~Linked(queue, current) /\ QType(queue) /\ Once(queue) /\ current \in Pcb
      /\ s \in Queues /\ s # "run_queue" /\ count[s] \in Int
  BY CountFacts, RunningFacts DEF Inv, RunningOK, QueuesOK, Queues, Sems
<1>2. CASE count[s] - 1 < 0
  <2> DEFINE e == Enqueue(queue, s, current)
  <2>1. /\ QType(e) /\ Members(e, s) = Members(queue, s) \cup {current}
        /\ \A q \in Queues : q # s => e[q] = queue[q]
    BY <1>1, EnqueueLemma
  <2>2. ScheduleNext(e)
    BY <1>1, <1>2 DEF SemP
  <2> HIDE DEF e
  <2>3. \A q \in Queues \ {"run_queue"} : queue'[q] = e[q]
    BY <2>1, <2>2, RunQueueOnly
  <2> QED
    BY <1>1, <1>2, <2>1, <2>3 DEF Members
<1>3. CASE ~(count[s] - 1 < 0)
  <2>1. queue' = queue
    BY <1>1, <1>3 DEF SemP
  <2> QED
    BY <1>1, <2>1 DEF Linked
<1> QED
  BY <1>2, <1>3

\* semaphore_P(sema): one more process is inside, one unit fewer is left.
LEMMA LockCounts == ASSUME CountInv, Lock PROVE CountsOK(queue', count', frames')
<1>0. {"sema", "dead_queue", "dead_queue_semaphore"} \subseteq Queues /\ "sema" \in Sems
      /\ "dead_queue_semaphore" \in Sems /\ "critical" \in Labels
      /\ "user" \in UserLabels /\ "user" \notin HandOver
  BY DEF Queues, Sems, Labels, UserLabels, HandOver
<1>1. /\ At("user") /\ "user" \in Base(current) /\ current \in Procs /\ current # Reaper
      /\ SemP("sema", "critical") /\ Head(frames[current]) \notin HandOver
  BY <1>0, CountFacts, RunningFacts, SchedulerAssumption DEF Lock, At, AtUser
<1>2. PICK g : /\ frames' = Put(frames, current, g) /\ g # <<>> /\ Last(g) = "critical"
               /\ count["sema"] - 1 < 0 => Range(g) \cap PRetLabels # {}
  BY <1>0, <1>1, SemPStack
<1>3. /\ frames'[current] = g /\ \A p \in Pcb : p # current => frames'[p] = frames[p]
      /\ ~BodyAt(frames, current, "critical") /\ BodyAt(frames', current, "critical")
  <2>1. /\ frames'[current] = g /\ \A p \in Pcb : p # current => frames'[p] = frames[p]
        /\ \A l : BodyAt(frames, current, l) <=> l = "user"
        /\ \A l : BodyAt(frames', current, l) <=> g # <<>> /\ l = "critical"
    BY <1>1, <1>2, BodyMoves
  <2> QED
    BY <1>2, <2>1
<1>4. count' = [count EXCEPT !["sema"] = @ - 1]
  BY <1>1 DEF SemP
<1>5. /\ queue'["dead_queue"] = queue["dead_queue"]
      /\ Members(queue', "sema") \subseteq Members(queue, "sema") \cup {current}
      /\ current \in Members(queue', "sema") => count["sema"] - 1 < 0
  BY <1>0, <1>1, SemPQueues
<1>6. Inside(frames') = Inside(frames) \cup {current} /\ current \notin Inside(frames)
  BY <1>1, <1>3, PcbFacts DEF Inside, BodyAt
<1>7. IsFiniteSet(Inside(frames')) /\ Cardinality(Inside(frames')) = SemaInit - count'["sema"]
  <2>1. IsFiniteSet(Inside(frames)) /\ Cardinality(Inside(frames)) = SemaInit - count["sema"]
    BY CountFacts DEF CountsOK, LockOK
  <2>2. count["sema"] \in Int /\ count'["sema"] = count["sema"] - 1
    BY <1>0, <1>4, CountFacts
  <2>3. /\ IsFiniteSet(Inside(frames) \cup {current})
        /\ Cardinality(Inside(frames) \cup {current}) = Cardinality(Inside(frames)) + 1
    BY <1>6, <2>1, FS_AddElement
  <2>4. SemaInit \in Int
    BY SchedulerAssumption
  <2>5. (SemaInit - count["sema"]) + 1 = SemaInit - count'["sema"]
    BY <2>2, <2>4
  <2> QED
    BY <1>6, <2>1, <2>3, <2>5
<1>8. ASSUME NEW p \in Members(queue', "sema")
      PROVE  p \in Inside(frames') /\ Range(frames'[p]) \cap PRetLabels # {}
  <2>1. CASE p = current
    BY <1>2, <1>3, <1>5, <1>6, <2>1
  <2>2. CASE p # current
    <3>1. p \in Members(queue, "sema") /\ p \in Pcb
      BY <1>0, <1>5, <2>2, CountFacts, MembersPcb
    <3> QED
      BY <1>3, <1>6, <2>2, <3>1, CountFacts DEF CountsOK, LockOK
  <2> QED
    BY <2>1, <2>2
<1>9. CorpsesOK(queue', count', frames')
  <2>1. count'["dead_queue_semaphore"] = count["dead_queue_semaphore"]
    BY <1>0, <1>4, CountFacts
  <2>2. frames'[Reaper] = frames[Reaper]
    BY <1>1, <1>3, PcbFacts
  <2> QED
    BY <1>5, <2>1, <2>2, CountFacts DEF CountsOK, CorpsesOK, BodyAt
<1> QED
  BY <1>7, <1>8, <1>9 DEF CountsOK, LockOK

\* semaphore_V, with a queue that it does not deal with, and nobody new to wait.
LEMMA AfterVQueues ==
  ASSUME NEW qs, QType(qs), Once(qs), NEW s \in Sems
  PROVE  /\ QType(AfterV(qs, s))
         /\ \A q \in Queues \ {"run_queue", s} : AfterV(qs, s)[q] = qs[q]
         /\ Members(AfterV(qs, s), s) \subseteq Members(qs, s)
<1>0. s \in Queues /\ s # "run_queue" /\ "run_queue" \in Queues
  BY DEF Queues, Sems
<1>1. CASE qs[s] = <<>>
  BY <1>1 DEF AfterV
<1>2. CASE qs[s] # <<>>
  <2> DEFINE d == Dequeue(qs, s)
  <2>1. /\ QType(d) /\ Members(d, s) \subseteq Members(qs, s) /\ Head(qs[s]) \in Pcb
        /\ \A q \in Queues : q # s => d[q] = qs[q]
    BY <1>0, <1>2, DequeueLemma
  <2>2. AfterV(qs, s) = Enqueue(d, "run_queue", Head(qs[s]))
    BY <1>2 DEF AfterV
  <2> HIDE DEF d
  <2>3. /\ AfterV(qs, s) \in [Queues -> Seq(Pcb)]
        /\ \A q \in Queues : q # "run_queue" => AfterV(qs, s)[q] = d[q]
    BY <1>0, <2>1, <2>2, AppendProperties DEF Enqueue, QType
  <2> QED
    BY <1>0, <2>1, <2>3 DEF QType, Members
<1> QED
  BY <1>1, <1>2

\* semaphore_V(sema): one process fewer is inside, one unit more is left.
LEMMA UnlockCounts == ASSUME CountInv, Unlock PROVE CountsOK(queue', count', frames')
<1>0. /\ {"sema", "dead_queue", "dead_queue_semaphore"} \subseteq Queues /\ "sema" \in Sems
      /\ "dead_queue_semaphore" \in Sems /\ {"critical", "user"} \subseteq UserLabels
      /\ "user" \in Labels
  BY DEF Queues, Sems, Labels, UserLabels
<1>1. /\ At("critical") /\ "critical" \in Base(current) /\ current \in Procs
      /\ current # Reaper /\ frames' = Becomes(<<"user">>)
      /\ Head(frames[current]) \in Base(current)
  BY <1>0, CountFacts, RunningFacts, SchedulerAssumption DEF Unlock, At, AtUser
<1>2. frames' = Put(frames, current, <<"user">>) /\ Last(<<"user">>) = "user"
  <2>1. <<"user">> \o Tail(frames[current]) = <<"user">> /\ Last(<<"user">>) = "user"
    BY <1>0, <1>1, CountFacts, StackFacts
  <2> QED
    BY <1>1, <2>1 DEF Becomes, Put
<1>3. /\ \A p \in Pcb : p # current => frames'[p] = frames[p]
      /\ BodyAt(frames, current, "critical") /\ ~BodyAt(frames', current, "critical")
  <2>1. /\ \A p \in Pcb : p # current => frames'[p] = frames[p]
        /\ \A l : BodyAt(frames, current, l) <=> l = "critical"
        /\ \A l : BodyAt(frames', current, l) <=> <<"user">> # <<>> /\ l = "user"
    BY <1>1, <1>2, BodyMoves
  <2> QED
    BY <2>1
<1>4. count' = [count EXCEPT !["sema"] = @ + 1] /\ queue' = AfterV(queue, "sema")
  BY DEF Unlock
<1>5. queue'["dead_queue"] = queue["dead_queue"]
      /\ Members(queue', "sema") \subseteq Members(queue, "sema")
  <2>1. "dead_queue" \in Queues \ {"run_queue", "sema"}
    BY <1>0
  <2> QED
    BY <1>0, <1>4, <2>1, CountFacts, AfterVQueues DEF QueuesOK
<1>6. Inside(frames') = Inside(frames) \ {current} /\ current \in Inside(frames)
  BY <1>1, <1>3, PcbFacts DEF Inside, BodyAt
<1>7. IsFiniteSet(Inside(frames')) /\ Cardinality(Inside(frames')) = SemaInit - count'["sema"]
  <2>1. IsFiniteSet(Inside(frames)) /\ Cardinality(Inside(frames)) = SemaInit - count["sema"]
    BY CountFacts DEF CountsOK, LockOK
  <2>2. count["sema"] \in Int /\ count'["sema"] = count["sema"] + 1
    BY <1>0, <1>4, CountFacts
  <2>3. /\ IsFiniteSet(Inside(frames) \ {current})
        /\ Cardinality(Inside(frames) \ {current}) = Cardinality(Inside(frames)) - 1
    BY <1>6, <2>1, FS_RemoveElement
  <2>4. SemaInit \in Int
    BY SchedulerAssumption
  <2>5. (SemaInit - count["sema"]) - 1 = SemaInit - count'["sema"]
    BY <2>2, <2>4
  <2> QED
    BY <1>6, <2>1, <2>3, <2>5
<1>8. ASSUME NEW p \in Members(queue', "sema")
      PROVE  p \in Inside(frames') /\ Range(frames'[p]) \cap PRetLabels # {}
  <2>1. p \in Members(queue, "sema") /\ p \in Pcb /\ p # current
    BY <1>0, <1>5, CountFacts, MembersPcb, CurrentNotWaiting
  <2> QED
    BY <1>3, <1>6, <2>1, CountFacts DEF CountsOK, LockOK
<1>9. CorpsesOK(queue', count', frames')
  <2>1. count'["dead_queue_semaphore"] = count["dead_queue_semaphore"]
    BY <1>0, <1>4, CountFacts
  <2>2. frames'[Reaper] = frames[Reaper]
    BY <1>1, <1>3, PcbFacts
  <2> QED
    BY <1>5, <2>1, <2>2, CountFacts DEF CountsOK, CorpsesOK, BodyAt
<1> QED
  BY <1>7, <1>8, <1>9 DEF CountsOK, LockOK

\* Steps that leave sema and the bodies of its users alone.
LEMMA LockSame ==
  ASSUME CountInv, NEW qs, qs["sema"] = queue["sema"],
         NEW cnt, cnt["sema"] = count["sema"],
         NEW fs, \A p \in Pcb : p # current => fs[p] = frames[p],
         current \in Procs =>
           (BodyAt(fs, current, "critical") <=> BodyAt(frames, current, "critical"))
  PROVE  LockOK(qs, cnt, fs)
<1>1. Inside(fs) = Inside(frames)
  BY PcbFacts DEF Inside, BodyAt
<1>2. Members(qs, "sema") = Members(queue, "sema")
  BY DEF Members
<1>3. \A p \in Members(queue, "sema") : fs[p] = frames[p]
  BY CountFacts, MembersPcb, CurrentNotWaiting DEF Queues, Sems
<1> QED
  BY <1>1, <1>2, <1>3, CountFacts DEF CountsOK, LockOK

\* semaphore_P(dead_queue_semaphore): a unit is taken for a dead process that the
\* reaper is about to take.
LEMMA ReapWaitCounts == ASSUME CountInv, ReapWait PROVE CountsOK(queue', count', frames')
<1>0. /\ {"sema", "dead_queue", "dead_queue_semaphore"} \subseteq Queues /\ "sema" \in Sems
      /\ "dead_queue_semaphore" \in Sems /\ {"reap_wait", "reap_take"} \subseteq ReaperLabels
      /\ "reap_take" \in Labels /\ "reap_wait" \notin HandOver
  BY DEF Queues, Sems, Labels, ReaperLabels, HandOver
<1>1. /\ At("reap_wait") /\ "reap_wait" \in Base(current) /\ current = Reaper
      /\ SemP("dead_queue_semaphore", "reap_take") /\ Head(frames[current]) \notin HandOver
  BY <1>0, CountFacts, RunningFacts DEF ReapWait, At
<1>2. PICK g : frames' = Put(frames, current, g) /\ g # <<>> /\ Last(g) = "reap_take"
  BY <1>0, <1>1, SemPStack
<1>3. /\ \A p \in Pcb : p # current => frames'[p] = frames[p]
      /\ \A l : BodyAt(frames, current, l) <=> l = "reap_wait"
      /\ \A l : BodyAt(frames', current, l) <=> g # <<>> /\ l = "reap_take"
  BY <1>1, <1>2, BodyMoves
<1>4. count' = [count EXCEPT !["dead_queue_semaphore"] = @ - 1]
  BY <1>1 DEF SemP
<1>5. queue'["dead_queue"] = queue["dead_queue"] /\ queue'["sema"] = queue["sema"]
  <2>1. {"dead_queue", "sema"} \subseteq Queues \ {"run_queue", "dead_queue_semaphore"}
    BY <1>0
  <2> QED
    BY <1>0, <1>1, <2>1, SemPQueues
<1>6. count["dead_queue_semaphore"] \in Int /\ count'["sema"] = count["sema"]
      /\ count'["dead_queue_semaphore"] = count["dead_queue_semaphore"] - 1
  BY <1>0, <1>4, CountFacts
<1>7. LockOK(queue', count', frames')
  BY <1>1, <1>3, <1>5, <1>6, LockSame, SchedulerAssumption
<1>8. CorpsesOK(queue', count', frames')
  <2>1. ~BodyAt(frames, Reaper, "reap_take") /\ BodyAt(frames', Reaper, "reap_take")
    BY <1>1, <1>2, <1>3
  <2> QED
    BY <1>5, <1>6, <2>1, CountFacts DEF CountsOK, CorpsesOK
<1> QED
  BY <1>7, <1>8 DEF CountsOK

\* The reaper is not woken for nothing.
LEMMA InvReaperHasCorpse ==
  ASSUME CountInv, At("reap_take") PROVE queue["dead_queue"] # <<>>
<1> DEFINE d == "dead_queue_semaphore"
<1>0. d \in Sems /\ d \in Queues /\ "dead_queue" \in Queues /\ "reap_take" \in ReaperLabels
      /\ "reap_take" \notin HandOver
  BY DEF Sems, Queues, ReaperLabels, HandOver
<1>1. current = Reaper /\ Head(frames[current]) \in Base(current)
  BY <1>0, CountFacts, RunningFacts DEF At
<1>2. BodyAt(frames, Reaper, "reap_take")
  BY <1>1, CountFacts, RunningFacts, OuterFacts DEF At, BodyAt
<1>3. count[d] >= 0
  <2>1. SUFFICES ASSUME count[d] < 0 PROVE FALSE
    BY <1>0, CountFacts
  <2>2. Len(queue[d]) = -count[d] /\ count[d] \in Int
    BY <1>0, <2>1, CountFacts DEF Inv, WaitersOK
  <2>3. 1 \in 1..Len(queue[d])
    BY <2>1, <2>2
  <2>4. queue[d][1] \in Members(queue, d)
    BY <1>0, <2>3, CountFacts, SeqFacts
  <2>5. Reaper \in Members(queue, d)
    BY <2>4, CountFacts DEF QueuesOK, PlacesOK
  <2> QED
    BY <1>0, <1>1, <2>5, CountFacts, CurrentNotWaiting
<1>4. Len(queue["dead_queue"]) = count[d] + 1
  BY <1>2, CountFacts DEF CountsOK, CorpsesOK
<1>5. Len(queue["dead_queue"]) # 0
  BY <1>0, <1>3, <1>4, CountFacts
<1> QED
  BY <1>5, EmptySeq

\* The reaper takes the dead process it was woken for.
LEMMA ReapTakeCounts == ASSUME CountInv, ReapTake PROVE CountsOK(queue', count', frames')
<1>0. /\ {"sema", "dead_queue"} \subseteq Queues
      /\ {"reap_take", "reap_stack"} \subseteq ReaperLabels /\ "reap_stack" \in Labels
  BY DEF Queues, Sems, Labels, ReaperLabels
<1>1. /\ At("reap_take") /\ "reap_take" \in Base(current) /\ current = Reaper
      /\ Head(frames[current]) \in Base(current)
  BY <1>0, CountFacts, RunningFacts DEF ReapTake, At
<1>2. queue["dead_queue"] # <<>>
  BY <1>1, InvReaperHasCorpse
<1>3. queue' = Dequeue(queue, "dead_queue") /\ frames' = Becomes(<<"reap_stack">>)
      /\ count' = count
  BY <1>2 DEF ReapTake
<1>4. frames' = Put(frames, current, <<"reap_stack">>) /\ Last(<<"reap_stack">>) = "reap_stack"
  <2>1. /\ <<"reap_stack">> \o Tail(frames[current]) = <<"reap_stack">>
        /\ Last(<<"reap_stack">>) = "reap_stack"
    BY <1>0, <1>1, CountFacts, StackFacts
  <2> QED
    BY <1>3, <2>1 DEF Becomes, Put
<1>5. /\ \A p \in Pcb : p # current => frames'[p] = frames[p]
      /\ \A l : BodyAt(frames, current, l) <=> l = "reap_take"
      /\ \A l : BodyAt(frames', current, l) <=> <<"reap_stack">> # <<>> /\ l = "reap_stack"
  BY <1>1, <1>4, BodyMoves
<1>6. queue'["sema"] = queue["sema"] /\ Len(queue'["dead_queue"]) = Len(queue["dead_queue"]) - 1
  BY <1>0, <1>2, <1>3, CountFacts, DequeueLemma DEF QueuesOK
<1>7. LockOK(queue', count', frames')
  BY <1>1, <1>3, <1>5, <1>6, LockSame, SchedulerAssumption
<1>8. CorpsesOK(queue', count', frames')
  <2>1. BodyAt(frames, Reaper, "reap_take") /\ ~BodyAt(frames', Reaper, "reap_take")
    BY <1>1, <1>5
  <2>2. "dead_queue_semaphore" \in Sems
    BY DEF Sems
  <2> QED
    BY <1>3, <1>6, <2>1, <2>2, CountFacts DEF CountsOK, CorpsesOK
<1> QED
  BY <1>7, <1>8 DEF CountsOK

\* The return of a process: it is one more dead process, and one more unit.
LEMMA ExitCounts == ASSUME CountInv, Exit PROVE CountsOK(queue', count', frames')
<1> DEFINE d == "dead_queue_semaphore"
           e == Enqueue(queue, "dead_queue", current)
           v == AfterV(e, d)
<1>0. /\ {"sema", "dead_queue", d} \subseteq Queues /\ d \in Sems /\ "sema" \in Sems
      /\ "user" \in UserLabels /\ "user" \notin HandOver
      /\ {"sema", "dead_queue"} \subseteq Queues \ {"run_queue", d}
  BY DEF Queues, Sems, UserLabels, HandOver
<1>1. /\ At("user") /\ "user" \in Base(current) /\ current \in Procs /\ current # Reaper
      /\ Head(frames[current]) \notin HandOver
  BY <1>0, CountFacts, RunningFacts, SchedulerAssumption DEF Exit, At, AtUser
<1>2. frames' = Put(frames, current, <<>>) /\ ScheduleNext(v)
      /\ count' = [count EXCEPT ![d] = @ + 1]
  BY DEF Exit, Put
<1>3. /\ \A p \in Pcb : p # current => frames'[p] = frames[p]
      /\ \A l : BodyAt(frames, current, l) <=> l = "user"
      /\ \A l : BodyAt(frames', current, l) <=> <<>> # <<>> /\ l = "user"
  BY <1>1, <1>2, BodyMoves
<1>4. /\ QType(e) /\ Once(e) /\ e["sema"] = queue["sema"]
      /\ Len(e["dead_queue"]) = Len(queue["dead_queue"]) + 1
  <2>1. ~Linked(queue, current) /\ Once(queue)
    BY <1>1, CountFacts, RunningFacts DEF Inv, RunningOK, QueuesOK
  <2> QED
    BY <1>0, <2>1, CountFacts, EnqueueLemma
<1>5. QType(v) /\ v["sema"] = e["sema"] /\ v["dead_queue"] = e["dead_queue"]
  <2> HIDE DEF e
  <2> QED
    BY <1>0, <1>4, AfterVQueues
<1>6. queue'["sema"] = v["sema"] /\ queue'["dead_queue"] = v["dead_queue"]
  <2> HIDE DEF v
  <2> QED
    BY <1>0, <1>2, <1>5, RunQueueOnly
<1> HIDE DEF v, e
<1>7. count[d] \in Int /\ count'[d] = count[d] + 1 /\ count'["sema"] = count["sema"]
  BY <1>0, <1>2, CountFacts
<1>8. LockOK(queue', count', frames')
  BY <1>3, <1>4, <1>5, <1>6, <1>7, LockSame
<1>9. CorpsesOK(queue', count', frames')
  <2>1. frames'[Reaper] = frames[Reaper]
    BY <1>1, <1>3, PcbFacts
  <2> QED
    BY <1>0, <1>4, <1>5, <1>6, <1>7, <2>1, CountFacts DEF CountsOK, CorpsesOK, BodyAt
<1> QED
  BY <1>8, <1>9 DEF CountsOK

-----------------------------------------------------------------------------
(* The invariant                                                            *)

\* At the start nobody is inside and nobody is dead.
LEMMA InitCounts == ASSUME Init PROVE CountInv
<1>1. Main \in Procs /\ Main # Reaper /\ Main # Idle /\ Reaper # Idle /\ Reaper \in Pcb
      /\ {"sema", "dead_queue"} \subseteq Queues /\ Idle \notin Procs /\ Reaper \notin Procs
  BY SchedulerAssumption DEF Pcb, Queues, Sems
<1>2. Last(<<"user">>) = "user" /\ Last(<<"reap_wait">>) = "reap_wait"
  BY OuterOne DEF Labels, UserLabels, ReaperLabels
<1>3. Inside(frames) = {}
  <2>1. ASSUME NEW p \in Procs PROVE ~BodyAt(frames, p, "critical")
    <3>1. CASE p = Main
      BY <1>1, <1>2, <3>1, PcbFacts DEF Init, BodyAt
    <3>2. CASE p # Main
      BY <1>1, <3>2, PcbFacts DEF Init, BodyAt
    <3> QED
      BY <3>1, <3>2
  <2> QED
    BY <2>1 DEF Inside
<1>4. count["sema"] = SemaInit /\ count["dead_queue_semaphore"] = 0
  BY DEF Init, Sems
<1>5. queue["sema"] = <<>> /\ queue["dead_queue"] = <<>>
  BY <1>1 DEF Init
<1>6. LockOK(queue, count, frames)
  <2>1. Members(queue, "sema") = {}
    BY <1>5 DEF Members, Range
  <2> QED
    BY <1>3, <1>4, <2>1, FS_EmptySet, SchedulerAssumption DEF LockOK
<1>7. ~BodyAt(frames, Reaper, "reap_take")
  BY <1>1, <1>2 DEF Init, BodyAt
<1>8. CorpsesOK(queue, count, frames)
  BY <1>4, <1>5, <1>7 DEF CorpsesOK
<1> QED
  BY <1>6, <1>8, InitInv DEF CountInv, CountsOK

\* Every step that is not a timer in a hand-over window keeps what the counts say.
LEMMA NextCounts == ASSUME CountInv, [Next]_vars, ~raced' PROVE CountInv'
<1>1. Inv'
  BY NextInv DEF CountInv
<1> SUFFICES CountsOK(queue', count', frames')
  BY <1>1 DEF CountInv
<1>2. CASE UserStep
  BY <1>2, ForkCounts, CallCounts, LockCounts, UnlockCounts, ExitCounts DEF UserStep
<1>3. CASE SystemStep
  BY <1>3, BootCounts, CallCounts, ReapWaitCounts, ReapTakeCounts, ReapFreeCounts, ClockCounts
     DEF SystemStep
<1>4. CASE IrqEntry
  BY <1>4, ClockCounts
<1>5. CASE UNCHANGED vars
  BY <1>5 DEF vars, CountInv
<1> QED
  BY <1>2, <1>3, <1>4, <1>5 DEF Next, Crossed

\* ... and any step keeps the invariant with the counts, whichever case holds.
LEMMA NextCountRace == ASSUME CountRaceInv, [Next]_vars PROVE CountRaceInv'
<1>1. raced' \in BOOLEAN /\ (raced => raced') /\ (raced' => raced \/ IrqEntry)
  BY History DEF CountRaceInv
<1>2. CASE raced
  BY <1>1, <1>2, RaceGoesOn DEF CountRaceInv
<1>3. CASE ~raced /\ raced'
  BY <1>1, <1>3, RaceBegins DEF CountRaceInv, CountInv
<1>4. CASE ~raced'
  BY <1>1, <1>4, NextCounts DEF CountRaceInv
<1> QED
  BY <1>2, <1>3, <1>4

\* The units of both semaphores are accounted for (synch.c:23-50), until a timer
\* expires in a hand-over window and its handler links a process twice.
THEOREM CountInvHolds == Spec => []CountRaceInv
<1>1. Init => CountRaceInv
  BY InitCounts DEF CountRaceInv, Init
<1>2. CountRaceInv /\ [Next]_vars => CountRaceInv'
  BY NextCountRace
<1> QED
  BY <1>1, <1>2, PTL DEF Spec

\* The reaper always finds the dead process it was woken for (process.c:60-75), if
\* no timer has expired in a hand-over window.
THEOREM ReaperHasCorpseHolds == Spec => []ReaperHasCorpse
<1>1. CountRaceInv => ReaperHasCorpse
  BY InvReaperHasCorpse DEF CountRaceInv, ReaperHasCorpse
<1> QED
  BY <1>1, CountInvHolds, PTL

-----------------------------------------------------------------------------
(* Mutual exclusion                                                         *)

\* As many processes as positions: nobody is linked twice.
LEMMA MembersCount ==
  ASSUME NEW qs, QType(qs), Once(qs), NEW q \in Queues
  PROVE  IsFiniteSet(Members(qs, q)) /\ Cardinality(Members(qs, q)) = Len(qs[q])
<1> DEFINE n == Len(qs[q])
           f == [i \in 1..n |-> qs[q][i]]
<1>1. n \in Nat /\ DOMAIN qs[q] = 1..n
  BY SeqFacts
<1>2. f \in Bijection(1..n, Members(qs, q))
  <2>1. f \in [1..n -> Members(qs, q)]
    BY SeqFacts
  <2>2. \A i, j \in 1..n : f[i] = f[j] => i = j
    BY <1>1, OnceLemma
  <2>3. \A x \in Members(qs, q) : \E i \in 1..n : f[i] = x
    BY SeqFacts
  <2> QED
    BY <2>1, <2>2, <2>3 DEF Bijection, Injection, Surjection, IsInjective
<1>3. ExistsBijection(1..n, Members(qs, q))
  BY <1>2 DEF ExistsBijection
<1>4. IsFiniteSet(1..n) /\ Cardinality(1..n) = n
  BY <1>1, FS_Interval
<1> QED
  BY <1>3, <1>4, FS_Bijection

\* Who is past semaphore_P(sema) is inside, and has left the wait queue.
LEMMA HoldersInside ==
  ASSUME CountInv
  PROVE  Holders \subseteq Inside(frames) \ Members(queue, "sema")
<1> SUFFICES ASSUME NEW p \in Holders PROVE p \in Inside(frames) \ Members(queue, "sema")
  OBVIOUS
<1>1. /\ p \in Pcb /\ frames[p] # <<>> /\ "critical" \in Range(frames[p])
      /\ Range(frames[p]) \cap PRetLabels = {}
  BY DEF Holders
<1>2. FrameOK(p, frames[p])
  BY <1>1, CountFacts, RunningFacts DEF FramesOK
<1>3. Len(frames[p]) \in Nat /\ DOMAIN frames[p] = 1..Len(frames[p])
  BY <1>2, LenProperties DEF FrameOK
<1>4. PICK i \in 1..Len(frames[p]) : frames[p][i] = "critical"
  BY <1>1, <1>3 DEF Range
<1>5. "critical" \in UserLabels /\ "critical" \notin Above
  BY DEF UserLabels, Above, PRetLabels, ClockLabels, HandOver
<1>6. i = Len(frames[p])
  BY <1>2, <1>4, <1>5 DEF FrameOK
<1>7. "critical" \in Base(p)
  BY <1>2, <1>4, <1>6 DEF FrameOK
<1>8. p \in Procs /\ BodyAt(frames, p, "critical")
  BY <1>1, <1>2, <1>4, <1>5, <1>6, <1>7, LabelFacts, OuterFacts DEF BodyAt
<1>9. p \notin Members(queue, "sema")
  BY <1>1 DEF CountInv, CountsOK, LockOK
<1> QED
  BY <1>8, <1>9 DEF Inside

\* The processes inside are SemaInit less the count, those waiting are the missing
\* units, so no more than SemaInit are past semaphore_P.
LEMMA InvMutualExclusion == CountInv => MutualExclusion
<1> SUFFICES ASSUME CountInv PROVE MutualExclusion
  OBVIOUS
<1> DEFINE I == Inside(frames)
           W == Members(queue, "sema")
<1>1. "sema" \in Sems /\ "sema" \in Queues /\ QType(queue) /\ Once(queue)
  BY CountFacts DEF Sems, Queues, QueuesOK
<1>2. count["sema"] \in Int /\ SemaInit \in Nat
  BY <1>1, CountFacts, SchedulerAssumption
<1>3. IsFiniteSet(I) /\ Cardinality(I) = SemaInit - count["sema"] /\ W \subseteq I
  BY DEF CountInv, CountsOK, LockOK
<1>4. Cardinality(W) = IF count["sema"] < 0 THEN -count["sema"] ELSE 0
  BY <1>1, MembersCount DEF CountInv, Inv, WaitersOK
<1>5. IsFiniteSet(I \ W) /\ Cardinality(I \ W) = Cardinality(I) - Cardinality(W)
  <2>1. I \cap W = W
    BY <1>3
  <2> QED
    BY <1>3, <2>1, FS_Difference
<1>6. Cardinality(I \ W) <= SemaInit /\ Cardinality(I \ W) \in Int
  BY <1>2, <1>3, <1>4, <1>5
<1>7. Cardinality(Holders) <= Cardinality(I \ W) /\ Cardinality(Holders) \in Nat
  <2>1. Holders \in SUBSET (I \ W)
    BY HoldersInside
  <2> QED
    BY <1>5, <2>1, FS_Subset, FS_CardinalityType
<1> QED
  BY <1>2, <1>6, <1>7 DEF MutualExclusion

\* `sema` admits at most its initial count of processes at a time (synch.c:23-50), if
\* no timer has expired in a hand-over window.
THEOREM MutualExclusionHolds == Spec => []MutualExclusion
<1>1. CountRaceInv => MutualExclusion
  BY InvMutualExclusion DEF CountRaceInv, MutualExclusion
<1> QED
  BY <1>1, CountInvHolds, PTL

-----------------------------------------------------------------------------
(* First come, first served.  This needs no more of the state than its      *)
(* types.                                                                   *)

\* semaphore_V takes its first waiter to the end of the run queue.
LEMMA WakeKeeps ==
  ASSUME NEW qs, QType(qs), NEW s \in Sems, NEW w, w = AfterV(qs, s)
  PROVE  /\ QType(w)
         /\ \A r \in Queues : \A i \in DOMAIN qs[r] : Kept(qs, w, r, i) \/ (r = s /\ i = 1)
         /\ \A i \in DOMAIN qs["run_queue"] : Stays(qs, w, "run_queue", i)
<1>0. s \in Queues /\ "run_queue" \in Queues /\ s # "run_queue"
  BY DEF Queues, Sems
<1>1. CASE qs[s] = <<>>
  <2>1. w = qs
    BY <1>1 DEF AfterV
  <2>2. \A r \in Queues : \A i \in DOMAIN qs[r] : Stays(qs, w, r, i)
    BY <2>1 DEF Stays
  <2> QED
    BY <1>0, <2>1, <2>2, StaysKept
<1>2. CASE qs[s] # <<>>
  <2> DEFINE d == Dequeue(qs, s)  p == Head(qs[s])
  <2>1. /\ QType(d) /\ p \in Pcb
        /\ \A r \in Queues : \A i \in DOMAIN qs[r] : Kept(qs, d, r, i) \/ (r = s /\ i = 1)
        /\ d["run_queue"] = qs["run_queue"]
    BY <1>0, <1>2, DequeueKeeps DEF Dequeue, QType
  <2>2. w = Enqueue(d, "run_queue", p)
    BY <1>2 DEF AfterV
  <2> HIDE DEF d, p
  <2>3. QType(w) /\ \A r \in Queues : \A i \in DOMAIN d[r] : Stays(d, w, r, i)
    BY <1>0, <2>1, <2>2, EnqueueKeeps
  <2>4. ASSUME NEW r \in Queues, NEW i \in DOMAIN qs[r], ~(r = s /\ i = 1)
        PROVE  Kept(qs, w, r, i)
    <3>1. Kept(qs, d, r, i) /\ \A k \in DOMAIN d[r] : Kept(d, w, r, k)
      BY <2>1, <2>3, <2>4, StaysKept
    <3> QED
      BY <2>1, <2>3, <3>1, KeptTwice
  <2>5. \A i \in DOMAIN qs["run_queue"] : Stays(qs, w, "run_queue", i)
    BY <1>0, <2>1, <2>3 DEF Stays
  <2> QED
    BY <2>3, <2>4, <2>5
<1> QED
  BY <1>1, <1>2

\* What NoOvertaking says of a step.
Served ==
  \A q \in Queues : \A i \in DOMAIN queue[q] :
    \/ Kept(queue, queue', q, i)
    \/ q = "tick_queue" /\ awaken_tick[queue[q][i]] <= ticks
    \/ q # "tick_queue" /\ i = 1 /\ (q = "run_queue" => current' = queue[q][i])

\* The types that NoOvertaking needs.
Linkable == QType(queue) /\ current \in Pcb

\* A step that leaves the queues alone.
LEMMA QuietServed ==
  ASSUME Linkable, UNCHANGED queue, current' \in Pcb
  PROVE  Linkable' /\ Served
<1>1. QType(queue')
  BY DEF Linkable
<1>2. \A q \in Queues : \A i \in DOMAIN queue[q] : Kept(queue, queue', q, i)
  BY StaysKept DEF Linkable, Stays
<1> QED
  BY <1>1, <1>2 DEF Linkable, Served

\* A step that appends a process.
LEMMA JoinServed ==
  ASSUME Linkable, NEW q \in Queues, NEW p \in Pcb, queue' = Enqueue(queue, q, p), UNCHANGED current
  PROVE  Linkable' /\ Served
<1>1. QType(queue') /\ \A r \in Queues : \A i \in DOMAIN queue[r] : Stays(queue, queue', r, i)
  BY EnqueueKeeps DEF Linkable
<1>2. \A r \in Queues : \A i \in DOMAIN queue[r] : Kept(queue, queue', r, i)
  BY <1>1, StaysKept DEF Linkable
<1> QED
  BY <1>1, <1>2 DEF Linkable, Served

\* schedule_next_process runs the first of the run queue it finds, which is the
\* first of the run queue there was unless that was empty.
LEMMA ScheduleServed ==
  ASSUME Linkable, NEW qs, QType(qs), ScheduleNext(qs),
         \A q \in Queues : \A i \in DOMAIN queue[q] :
           Kept(queue, qs, q, i) \/ (q \notin {"tick_queue", "run_queue"} /\ i = 1),
         \A i \in DOMAIN queue["run_queue"] : Stays(queue, qs, "run_queue", i)
  PROVE  Linkable' /\ Served
<1>0. "run_queue" \in Queues /\ QType(queue) /\ Idle \in Pcb
  BY PcbFacts DEF Queues, Linkable
<1>1. CASE qs["run_queue"] = <<>>
  <2>1. queue' = qs /\ current' = Idle
    BY <1>1 DEF ScheduleNext
  <2>2. \A i \in DOMAIN queue["run_queue"] : Kept(queue, queue', "run_queue", i)
    BY <1>0, <2>1
  <2> QED
    BY <1>0, <2>1, <2>2 DEF Linkable, Served
<1>2. CASE qs["run_queue"] # <<>>
  <2>1. queue' = Dequeue(qs, "run_queue") /\ current' = Head(qs["run_queue"])
    BY <1>2 DEF ScheduleNext
  <2>2. /\ QType(queue') /\ current' \in Pcb /\ current' = qs["run_queue"][1]
        /\ \A r \in Queues : \A i \in DOMAIN qs[r] :
             Kept(qs, queue', r, i) \/ (r = "run_queue" /\ i = 1)
    BY <1>0, <1>2, <2>1, DequeueKeeps
  <2>3. ASSUME NEW q \in Queues, q # "run_queue", NEW i \in DOMAIN queue[q], Kept(queue, qs, q, i)
        PROVE  Kept(queue, queue', q, i)
    BY <1>0, <2>2, <2>3, KeptTwice
  <2>4. ASSUME NEW i \in DOMAIN queue["run_queue"]
        PROVE  \/ Kept(queue, queue', "run_queue", i)
               \/ i = 1 /\ current' = queue["run_queue"][i]
    <3>1. i \in DOMAIN qs["run_queue"] /\ qs["run_queue"][i] = queue["run_queue"][i]
      BY DEF Stays
    <3>2. CASE i = 1
      BY <2>2, <3>1, <3>2
    <3>3. CASE i # 1
      <4>1. Kept(qs, queue', "run_queue", i)
        BY <1>0, <2>2, <3>1, <3>3
      <4> QED
        BY <3>1, <4>1 DEF Kept
    <3> QED
      BY <3>2, <3>3
  <2> QED
    BY <2>2, <2>3, <2>4 DEF Linkable, Served
<1> QED
  BY <1>1, <1>2

\* semaphore_P, of whichever semaphore.
LEMMA SemPServed ==
  ASSUME Linkable, NEW s \in Sems, NEW ret, SemP(s, ret)
  PROVE  Linkable' /\ Served
<1>0. s \in Queues /\ s \notin {"tick_queue", "run_queue"} /\ QType(queue) /\ current \in Pcb
  BY DEF Queues, Sems, Linkable
<1>1. CASE ScheduleNext(Enqueue(queue, s, current))
  <2> DEFINE qs == Enqueue(queue, s, current)
  <2>1. QType(qs) /\ \A r \in Queues : \A i \in DOMAIN queue[r] : Stays(queue, qs, r, i)
    BY <1>0, EnqueueKeeps
  <2>2. ScheduleNext(qs) /\ "run_queue" \in Queues
    BY <1>1 DEF Queues
  <2> HIDE DEF qs
  <2>3. \A r \in Queues : \A i \in DOMAIN queue[r] : Kept(queue, qs, r, i)
    BY <1>0, <2>1, StaysKept
  <2> QED
    BY <2>1, <2>2, <2>3, ScheduleServed
<1>2. CASE UNCHANGED <<current, queue>>
  BY <1>0, <1>2, QuietServed
<1> QED
  BY <1>1, <1>2 DEF SemP

\* The steps that end in schedule_next_process and queue nobody before it.
LEMMA SwitchServed ==
  ASSUME Linkable, ScheduleNext(queue)
  PROVE  Linkable' /\ Served
<1>1. QType(queue) /\ \A q \in Queues : \A i \in DOMAIN queue[q] :
                        Kept(queue, queue, q, i) /\ Stays(queue, queue, q, i)
  BY StaysKept DEF Linkable, Stays
<1>2. "run_queue" \in Queues
  BY DEF Queues
<1> QED
  BY <1>1, <1>2, ScheduleServed

LEMMA ExitServed ==
  ASSUME Linkable, Exit
  PROVE  Linkable' /\ Served
<1> DEFINE e == Enqueue(queue, "dead_queue", current)
           w == AfterV(e, "dead_queue_semaphore")
<1>0. /\ "dead_queue" \in Queues /\ "run_queue" \in Queues
      /\ "dead_queue_semaphore" \in Sems
      /\ "dead_queue_semaphore" \notin {"tick_queue", "run_queue"}
      /\ QType(queue) /\ current \in Pcb
  BY DEF Queues, Sems, Linkable
<1>1. ScheduleNext(w)
  BY DEF Exit
<1>2. QType(e) /\ \A r \in Queues : \A i \in DOMAIN queue[r] : Stays(queue, e, r, i)
  BY <1>0, EnqueueKeeps
<1>3. w = AfterV(e, "dead_queue_semaphore")
  OBVIOUS
<1> HIDE DEF e, w
<1>4. /\ QType(w)
      /\ \A r \in Queues : \A i \in DOMAIN e[r] :
           Kept(e, w, r, i) \/ (r = "dead_queue_semaphore" /\ i = 1)
      /\ \A i \in DOMAIN e["run_queue"] : Stays(e, w, "run_queue", i)
  BY <1>0, <1>2, <1>3, WakeKeeps
<1>5. \A i \in DOMAIN queue["run_queue"] : Stays(queue, w, "run_queue", i)
  BY <1>0, <1>2, <1>4 DEF Stays
<1>6. ASSUME NEW q \in Queues, NEW i \in DOMAIN queue[q]
      PROVE  Kept(queue, w, q, i) \/ (q \notin {"tick_queue", "run_queue"} /\ i = 1)
  <2>1. i \in DOMAIN e[q] /\ e[q][i] = queue[q][i]
    BY <1>2 DEF Stays
  <2>2. CASE q = "dead_queue_semaphore" /\ i = 1
    BY <1>0, <2>2
  <2>3. CASE Kept(e, w, q, i)
    BY <2>1, <2>3 DEF Kept
  <2> QED
    BY <1>4, <2>1, <2>2, <2>3
<1> QED
  BY <1>1, <1>4, <1>5, <1>6, ScheduleServed

LEMMA UnlockServed ==
  ASSUME Linkable, Unlock
  PROVE  Linkable' /\ Served
<1>1. /\ "sema" \in Sems /\ "sema" \notin {"tick_queue", "run_queue"}
      /\ queue' = AfterV(queue, "sema") /\ UNCHANGED current
  BY DEF Unlock, Sems
<1>2. /\ QType(queue')
      /\ \A r \in Queues : \A i \in DOMAIN queue[r] :
           Kept(queue, queue', r, i) \/ (r = "sema" /\ i = 1)
  BY <1>1, WakeKeeps DEF Linkable
<1> QED
  BY <1>1, <1>2 DEF Linkable, Served

LEMMA ReapTakeServed ==
  ASSUME Linkable, ReapTake
  PROVE  Linkable' /\ Served
<1>1. CASE queue["dead_queue"] = <<>>
  BY <1>1, QuietServed DEF ReapTake, Linkable
<1>2. CASE queue["dead_queue"] # <<>>
  <2>1. /\ "dead_queue" \in Queues /\ "dead_queue" \notin {"tick_queue", "run_queue"}
        /\ queue' = Dequeue(queue, "dead_queue") /\ UNCHANGED current
    BY <1>2 DEF ReapTake, Queues
  <2>2. /\ QType(queue')
        /\ \A r \in Queues : \A i \in DOMAIN queue[r] :
             Kept(queue, queue', r, i) \/ (r = "dead_queue" /\ i = 1)
    BY <1>2, <2>1, DequeueKeeps DEF Linkable
  <2> QED
    BY <2>1, <2>2 DEF Linkable, Served
<1> QED
  BY <1>1, <1>2

\* The clock handler takes a sleeper that is due, from wherever he is.
LEMMA AwakenServed ==
  ASSUME Linkable, ClockAwaken
  PROVE  Linkable' /\ Served
<1>1. PICK m \in Due :
        queue' = Enqueue(Unlink(queue, "tick_queue", m), "run_queue", queue["tick_queue"][m])
  BY DEF ClockAwaken
<1> DEFINE d == Unlink(queue, "tick_queue", m)  p == queue["tick_queue"][m]
<1>2. /\ m \in DOMAIN queue["tick_queue"] /\ awaken_tick[p] <= ticks
      /\ "tick_queue" \in Queues /\ "run_queue" \in Queues /\ QType(queue)
      /\ UNCHANGED current /\ current \in Pcb
  BY DEF Due, Queues, Linkable, ClockAwaken
<1>3. m \in 1..Len(queue["tick_queue"]) /\ p \in Pcb
  BY <1>2, SeqFacts
<1>4. Dropped(queue, "tick_queue", m, d)
  BY <1>2, UnlinkDrops
<1>5. QType(d) /\ \A r \in Queues : \A i \in DOMAIN queue[r] :
        Kept(queue, d, r, i) \/ (r = "tick_queue" /\ i = m)
  BY <1>2, <1>3, <1>4, DropKeeps DEF Dropped
<1>6. queue' = Enqueue(d, "run_queue", p)
  BY <1>1
<1> HIDE DEF d
<1>7. QType(queue') /\ \A r \in Queues : \A i \in DOMAIN d[r] : Stays(d, queue', r, i)
  BY <1>2, <1>3, <1>5, <1>6, EnqueueKeeps
<1>8. ASSUME NEW r \in Queues, NEW i \in DOMAIN queue[r], Kept(queue, d, r, i)
      PROVE  Kept(queue, queue', r, i)
  <2>1. \A k \in DOMAIN d[r] : Kept(d, queue', r, k)
    BY <1>5, <1>7, StaysKept
  <2> QED
    BY <1>2, <1>5, <1>7, <1>8, <2>1, KeptTwice
<1> QED
  BY <1>2, <1>5, <1>7, <1>8 DEF Linkable, Served

LEMMA StepServed == Linkable /\ [Next]_vars => Linkable' /\ (Served \/ UNCHANGED vars)
<1> SUFFICES ASSUME Linkable, [Next]_vars PROVE Linkable' /\ (Served \/ UNCHANGED vars)
  OBVIOUS
<1>0. current \in Pcb /\ "run_queue" \in Queues /\ "tick_queue" \in Queues /\ Procs \subseteq Pcb
  BY PcbFacts DEF Linkable, Queues
<1>1. CASE \E c \in Procs : Fork(c)
  BY <1>0, <1>1, JoinServed DEF Fork
<1>2. CASE \/ \E n \in SleepTicks : Sleep(n)
           \/ Yield \/ ClockYield
  BY <1>0, <1>2, JoinServed DEF Sleep, Yield, ClockYield
<1>3. CASE Lock \/ ReapWait
  BY <1>3, SemPServed DEF Lock, ReapWait, Sems
<1>4. CASE Unlock
  BY <1>4, UnlockServed
<1>5. CASE Exit
  BY <1>5, ExitServed
<1>6. CASE BootStop \/ IdleLoop \/ SleepStop \/ YieldSchedule
  BY <1>6, SwitchServed DEF BootStop, IdleLoop, SleepStop, YieldSchedule
<1>7. CASE ReapTake
  BY <1>7, ReapTakeServed
<1>8. CASE ClockAwaken
  BY <1>8, AwakenServed
<1>9. CASE \/ BootEnable \/ ReapStack \/ ReapPcb \/ ClockEnter \/ ClockDone \/ IrqReturn
           \/ IrqEntry \/ \E level \in BOOLEAN : PReturn(level)
  <2>1. UNCHANGED queue /\ current' \in Pcb
    BY <1>0, <1>9 DEF BootEnable, ReapStack, ReapPcb, ClockEnter, ClockDone, IrqReturn,
                      IrqEntry, PReturn
  <2> QED
    BY <2>1, QuietServed
<1>10. CASE UNCHANGED vars
  BY <1>10 DEF vars, Linkable
<1> QED
  BY <1>1, <1>2, <1>3, <1>4, <1>5, <1>6, <1>7, <1>8, <1>9, <1>10 DEF Next, UserStep, SystemStep, Crossed

\* Nobody on a queue is overtaken, the run queue is left to run only, and sleepers
\* are taken only when they are due: the part of round robin that needs no fairness.
\* It is said of steps that leave nobody linked twice, which all do but those of a
\* handler that has interrupted a hand-over window (process.c:133, 145, 220; synch.c:27, 44).
THEOREM NoOvertakingHolds == Spec => NoOvertaking
<1>1. Init => Linkable
  <2> SUFFICES ASSUME Init PROVE Linkable
    OBVIOUS
  <2>1. Idle \in Pcb /\ Reaper \in Pcb /\ Main \in Pcb
    BY PcbFacts, SchedulerAssumption
  <2>2. <<Reaper, Main>> \in Seq(Pcb) /\ <<>> \in Seq(Pcb)
    BY <2>1, EmptySeq
  <2> QED
    BY <2>1, <2>2 DEF Init, Linkable, QType
<1>2. Linkable /\ [Next]_vars => Linkable'
  BY StepServed
<1>3. Linkable /\ [Next]_vars =>
        [Once(queue') =>
           \A q \in Queues : \A i \in DOMAIN queue[q] :
             \/ \E j \in DOMAIN queue'[q] : j <= i /\ queue'[q][j] = queue[q][i]
             \/ q = "tick_queue" /\ awaken_tick[queue[q][i]] <= ticks
             \/ q # "tick_queue" /\ i = 1 /\ (q = "run_queue" => current' = queue[q][i])]_vars
  BY StepServed DEF Served, Kept
<1> QED
  BY <1>1, <1>2, <1>3, PTL DEF Spec, NoOvertaking

===============================================================================
