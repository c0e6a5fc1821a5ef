------------------------ MODULE IntrusiveQueueProofs ------------------------
(***************************************************************************)
(* Proofs about src/queue.c, for any finite set of items and any heap: the *)
(* links of every queue are a ring, no block is lost, and the calls        *)
(* implement the sequences of AbstractQueues.                              *)
(***************************************************************************)
EXTENDS IntrusiveQueue, NatLemmas, TLAPS, SequenceTheorems, FiniteSetTheorems

-----------------------------------------------------------------------------
(* Rings                                                                    *)

\* The places of a ring are different, but that the last one is the first again.
LEMMA PlaceFacts ==
  ASSUME NEW s \in Blocks, NEW c \in Seq(Items), IsInjective(c)
  PROVE  /\ Len(c) \in Nat /\ DOMAIN c = 1..Len(c)
         /\ Place(s, c, 0) = s /\ Place(s, c, Len(c) + 1) = s
         /\ \A k \in 1..Len(c) : Place(s, c, k) = c[k] /\ c[k] \in Items /\ c[k] # s
         /\ \A k \in 0..(Len(c) + 1) : Place(s, c, k) \in Items \cup {s}
         /\ \A j, k \in 0..Len(c) : Place(s, c, j) = Place(s, c, k) => j = k
         /\ \A j, k \in 1..(Len(c) + 1) : Place(s, c, j) = Place(s, c, k) => j = k
<1>1. Len(c) \in Nat /\ DOMAIN c = 1..Len(c) /\ \A k \in 1..Len(c) : c[k] \in Items
  BY LenProperties, ElementOfSeq
<1>2. \A j, k \in 1..Len(c) : c[j] = c[k] => j = k
  BY <1>1 DEF IsInjective
<1>3. s \notin Items
  BY QueueAssumption
<1> QED
  BY <1>1, <1>2, <1>3 DEF Place

\* A ring holds every item at most once.
LEMMA RingSize ==
  ASSUME NEW c \in Seq(Items), IsInjective(c)
  PROVE  Len(c) <= Cardinality(Items) /\ Cardinality(Items) \in Nat
<1>1. /\ Len(c) \in Nat /\ DOMAIN c = 1..Len(c) /\ c \in [1..Len(c) -> Items]
  BY LenProperties
<1>2. IsFiniteSet(Items) /\ Cardinality(Items) \in Nat
  BY QueueAssumption, FS_CardinalityType
<1>3. IsFiniteSet(1..Len(c)) /\ Cardinality(1..Len(c)) = Len(c)
  <2>1. 1 \in Int /\ Len(c) \in Int
    BY <1>1
  <2>2. Cardinality(1..Len(c)) = IF 1 > Len(c) THEN 0 ELSE Len(c) - 1 + 1
    BY <2>1, FS_Interval
  <2> QED
    BY <1>1, <2>1, <2>2, FS_Interval
<1>4. ASSUME Cardinality(Items) < Len(c) PROVE FALSE
  <2>1. \E x, y \in 1..Len(c) : x # y /\ c[x] = c[y]
    BY <1>1, <1>2, <1>3, <1>4, FS_PigeonHole
  <2> QED
    BY <1>1, <2>1 DEF IsInjective
<1> QED
  BY <1>1, <1>2, <1>4

\* Remainders go round.
LEMMA ModNext ==
  ASSUME NEW c \in Nat \ {0}, NEW m \in Nat
  PROVE  /\ m % c \in 0..(c - 1)
         /\ (m + 1) % c = IF m % c = c - 1 THEN 0 ELSE (m % c) + 1
         /\ m < c => m % c = m
         /\ c % c = 0
<1>1. \A k \in Nat : k = c * (k \div c) + (k % c) /\ k % c \in 0..(c - 1) /\ k \div c \in Nat
  OBVIOUS
<1>2. \A k \in Nat \ {0} : c * k >= c
  OBVIOUS
<1>3. ASSUME NEW q \in Nat, NEW d \in Nat, NEW r \in 0..(c - 1), NEW s \in 0..(c - 1),
             c * q + r = c * d + s
      PROVE  r = s
  <2>1. CASE q > d
    <3>1. c * (q - d) >= c /\ c * q - c * d = c * (q - d)
      BY <1>2, <2>1
    <3> QED
      BY <1>3, <2>1, <3>1
  <2>2. CASE q < d
    <3>1. c * (d - q) >= c /\ c * d - c * q = c * (d - q)
      BY <1>2, <2>2
    <3> QED
      BY <1>3, <2>2, <3>1
  <2>3. CASE q = d
    BY <1>3, <2>3
  <2> QED
    BY <2>1, <2>2, <2>3
<1>7. m < c => m % c = m
  <2>1. m < c => c * (m \div c) + (m % c) = c * 0 + m /\ m \in 0..(c - 1) /\ 0 \in Nat
    BY <1>1
  <2> QED
    BY <1>1, <1>3, <2>1
<1>8. c % c = 0
  <2>1. c * (c \div c) + (c % c) = c * 1 + 0 /\ 0 \in 0..(c - 1) /\ 1 \in Nat /\ c \in Nat
    BY <1>1
  <2> QED
    BY <1>1, <1>3, <2>1
<1> DEFINE q == m \div c
           r == m % c
           d == (m + 1) \div c
           s == (m + 1) % c
<1>4. /\ m = c * q + r /\ r \in 0..(c - 1) /\ q \in Nat
      /\ m + 1 = c * d + s /\ s \in 0..(c - 1) /\ d \in Nat
  BY <1>1
<1> HIDE DEF q, r, d, s
<1>5. CASE r = c - 1
  <2>1. c * (q + 1) + 0 = c * d + s /\ q + 1 \in Nat /\ 0 \in 0..(c - 1)
    BY <1>4, <1>5
  <2>2. s = 0
    BY <1>3, <1>4, <2>1
  <2> QED
    BY <1>4, <1>5, <2>2 DEF r, s
<1>6. CASE r # c - 1
  <2>1. c * q + (r + 1) = c * d + s /\ r + 1 \in 0..(c - 1)
    BY <1>4, <1>6
  <2>2. s = r + 1
    BY <1>3, <1>4, <2>1
  <2> QED
    BY <1>4, <1>6, <2>2 DEF r, s
<1> QED
  BY <1>4, <1>5, <1>6, <1>7, <1>8 DEF r

\* From any place of a ring the links lead to the places after it.
LEMMA AheadFacts ==
  ASSUME NEW nx, NEW s \in Blocks, NEW c \in Seq(Items), IsInjective(c),
         \A k \in 0..Len(c) : nx[Place(s, c, k)] = Place(s, c, k + 1),
         NEW p \in 1..(Len(c) + 1)
  PROVE  /\ DOMAIN Ahead(nx, Place(s, c, p)) = 0..Cardinality(Items)
         /\ \A k \in 0..(Len(c) + 1 - p) :
              Ahead(nx, Place(s, c, p))[k] = Place(s, c, p + k)
<1> DEFINE N == Cardinality(Items)
           L == Len(c)
           P(k) == Place(s, c, k)
           n == P(p)
           at == Ahead(nx, n)
           w == [k \in 0..N |-> P((p + k) % (L + 1))]
<1>1. L \in Nat /\ N \in Nat /\ L <= N /\ P(0) = s /\ P(L + 1) = s /\ p \in 1..(L + 1)
  BY PlaceFacts, RingSize
<1> HIDE DEF N, L, P
<1>2. \A k \in 0..L : nx[P(k)] = P(k + 1)
  BY DEF L, P
<1>3. w[0] = n
  <2>1. p % (L + 1) = IF p = L + 1 THEN 0 ELSE p
    <3>1. p \in Nat /\ L + 1 \in Nat \ {0} /\ (p < L + 1 \/ p = L + 1)
      BY <1>1
    <3>2. p < L + 1 => p % (L + 1) = p
      BY <3>1, ModNext
    <3>3. (L + 1) % (L + 1) = 0
      BY <3>1, ModNext
    <3> QED
      BY <3>1, <3>2, <3>3
  <2> QED
    BY <1>1, <2>1
<1>4. ASSUME NEW k \in (0..N) \ {0} PROVE w[k] = nx[w[k - 1]]
  <2>1. p + (k - 1) \in Nat /\ (p + (k - 1)) + 1 = p + k /\ L + 1 \in Nat \ {0} /\ (L + 1) - 1 = L
        /\ k - 1 \in 0..N
    BY <1>1
  <2> DEFINE j == (p + (k - 1)) % (L + 1)
  <2>2. j \in 0..L /\ (p + k) % (L + 1) = IF j = L THEN 0 ELSE j + 1
    BY <2>1, ModNext
  <2> HIDE DEF j
  <2>3. w[k - 1] = P(j)
    BY <2>1 DEF j
  <2>4. w[k] = IF j = L THEN P(0) ELSE P(j + 1)
    BY <2>2
  <2> QED
    BY <1>1, <1>2, <2>2, <2>3, <2>4
<1>5. w = [k \in 0..N |-> IF k = 0 THEN n ELSE nx[w[k - 1]]]
  BY <1>1, <1>3, <1>4
<1>6. at = [k \in 0..N |-> IF k = 0 THEN n ELSE nx[at[k - 1]]]
  <2> HIDE DEF w, n
  <2>1. at = CHOOSE f : f = [k \in 0..N |-> IF k = 0 THEN n ELSE nx[f[k - 1]]]
    BY DEF Ahead, N
  <2> QED
    BY <1>5, <2>1
<1>7. DOMAIN at = 0..N /\ at[0] = n /\ \A k \in (0..N) \ {0} : at[k] = nx[at[k - 1]]
  <2> HIDE DEF at, n
  <2> QED
    BY <1>1, <1>6
<1> HIDE DEF at, w
<1> DEFINE M == L + 1 - p
           H == {k \in 0..M : k <= N /\ at[k] = P(p + k)}
<1>8. M \in Nat /\ M <= L
  BY <1>1
<1>9. 0 \in H
  BY <1>1, <1>7, <1>8
<1>10. ASSUME NEW k \in 0..(M - 1), k \in H PROVE k + 1 \in H
  <2>1. k + 1 \in (0..N) \ {0} /\ (k + 1) - 1 = k /\ p + k \in 0..L /\ p + (k + 1) = (p + k) + 1
        /\ k + 1 \in 0..M
    BY <1>1, <1>8
  <2>2. at[k + 1] = nx[P(p + k)]
    BY <1>7, <1>10, <2>1
  <2> QED
    BY <1>2, <2>1, <2>2
<1>11. \A k \in 0..M : k \in H
  <2> HIDE DEF M, H
  <2> QED
    BY <1>8, <1>9, <1>10, UpTo
<1> QED
  BY <1>7, <1>11 DEF L, N, P, at

\* A walk from any place of a ring visits the items from there on.
LEMMA WalkFacts ==
  ASSUME NEW nx, NEW s \in Blocks, NEW c \in Seq(Items), IsInjective(c),
         \A k \in 0..Len(c) : nx[Place(s, c, k)] = Place(s, c, k + 1),
         NEW p \in 1..(Len(c) + 1)
  PROVE  Walk(nx, Place(s, c, p), s) = [k \in 1..(Len(c) + 1 - p) |-> c[p + k - 1]]
<1> DEFINE n == Place(s, c, p)
           at == Ahead(nx, n)
           M == Len(c) + 1 - p
           back == {k \in DOMAIN at : at[k] = s}
<1>1. Len(c) \in Nat /\ p \in 1..(Len(c) + 1) /\ M \in Nat /\ p + M = Len(c) + 1
  BY PlaceFacts
<1>2. DOMAIN at = 0..Cardinality(Items) /\ \A k \in 0..M : at[k] = Place(s, c, p + k)
  BY AheadFacts
<1>3. Cardinality(Items) \in Nat /\ Len(c) <= Cardinality(Items)
  BY RingSize
<1> HIDE DEF at
<1>4. M \in back
  BY <1>1, <1>2, <1>3, PlaceFacts
<1>5. ASSUME NEW k \in 0..(M - 1) PROVE at[k] = c[p + k] /\ k \notin back
  <2>1. p + k \in 1..Len(c) /\ k \in 0..M
    BY <1>1
  <2>2. at[k] = Place(s, c, p + k)
    BY <1>2, <2>1
  <2> QED
    BY <2>1, <2>2, PlaceFacts
<1>6. \A k \in back : M <= k
  <2>1. \A k \in back : k \in Nat /\ k \notin 0..(M - 1)
    BY <1>2, <1>5
  <2> QED
    BY <1>1, <2>1
<1>7. Min(back) = M
  <2>1. back \in SUBSET Nat /\ back # {}
    BY <1>2, <1>4
  <2> HIDE DEF back
  <2>2. Min(back) \in back /\ Min(back) <= M /\ Min(back) \in Nat
    BY <1>4, <2>1, LeastNat
  <2> QED
    BY <1>1, <1>6, <2>2
<1>8. Walk(nx, n, s) = [k \in 1..M |-> at[k - 1]]
  <2>1. back # {}
    BY <1>4
  <2> QED
    BY <1>7, <2>1 DEF Walk, at
<1>9. ASSUME NEW k \in 1..M PROVE at[k - 1] = c[p + k - 1]
  <2>1. k - 1 \in 0..(M - 1) /\ p + (k - 1) = p + k - 1
    BY <1>1
  <2> QED
    BY <1>5, <2>1
<1> QED
  BY <1>8, <1>9

Links == [Nodes -> Nodes \cup {Null}]

\* d is c with i after place p, or without the item at place p.
Inserted(c, p, i, d) ==
  /\ d \in Seq(Items) /\ Len(d) = Len(c) + 1 /\ d[p + 1] = i
  /\ \A k \in 1..p : d[k] = c[k]
  /\ \A k \in (p + 1)..Len(c) : d[k + 1] = c[k]
Removed(c, p, d) ==
  /\ d \in Seq(Items) /\ Len(d) = Len(c) - 1
  /\ \A k \in 1..(p - 1) : d[k] = c[k]
  /\ \A k \in (p + 1)..Len(c) : d[k - 1] = c[k]

\* What LinkBefore and Unlink do to the links of the ring of s and c: the item i is
\* linked after place p, or the item i at place p is unlinked.
LinksIn(nx, pv, s, c, p, i, nx2, pv2) ==
  LET n == Place(s, c, p + 1)
  IN  /\ nx \in Links /\ pv \in Links /\ s \in Blocks /\ IsRing(nx, pv, s, c)
      /\ p \in 0..Len(c) /\ i \in Items /\ i \notin Range(c)
      /\ nx2 = [nx EXCEPT ![i] = n, ![pv[n]] = i]
      /\ pv2 = [pv EXCEPT ![i] = pv[n], ![n] = i]
LinksOut(nx, pv, s, c, p, i, nx2, pv2) ==
  /\ nx \in Links /\ pv \in Links /\ s \in Blocks /\ IsRing(nx, pv, s, c)
  /\ p \in 1..Len(c) /\ i = c[p]
  /\ nx2 = [nx EXCEPT ![pv[i]] = nx[i]]
  /\ pv2 = [pv EXCEPT ![nx[i]] = pv[i]]

\* The ring of s and c has become the ring of s and d.
Becomes(nx, pv, s, c, d, nx2, pv2) ==
  /\ nx2 \in Links /\ pv2 \in Links /\ IsRing(nx2, pv2, s, d)
  /\ \A x \in Nodes : x \notin Range(c) \cup Range(d) \cup {s} => nx2[x] = nx[x] /\ pv2[x] = pv[x]

\* Linking item i into a ring, after place p.
LEMMA InsertRing ==
  ASSUME NEW nx, NEW pv, NEW s, NEW c, NEW p, NEW i, NEW nx2, NEW pv2,
         LinksIn(nx, pv, s, c, p, i, nx2, pv2), NEW d, Inserted(c, p, i, d)
  PROVE  Becomes(nx, pv, s, c, d, nx2, pv2) /\ Range(d) = Range(c) \cup {i}
<1> USE DEF Inserted, LinksIn
<1> DEFINE n == Place(s, c, p + 1)
           P(k) == Place(s, c, k)
           L == Len(c)
           a == P(p)
<1>1. c \in Seq(Items) /\ IsInjective(c)
  BY DEF IsRing
<1>2. /\ L \in Nat /\ DOMAIN c = 1..L /\ P(0) = s /\ P(L + 1) = s
      /\ \A k \in 1..L : P(k) = c[k] /\ c[k] \in Items
      /\ \A k \in 0..(L + 1) : P(k) \in Items \cup {s}
      /\ \A j, k \in 0..L : P(j) = P(k) => j = k
      /\ \A j, k \in 1..(L + 1) : P(j) = P(k) => j = k
  BY <1>1, PlaceFacts
<1>3. \A k \in 0..L : nx[P(k)] = P(k + 1) /\ pv[P(k + 1)] = P(k)
  BY DEF IsRing
<1>4. \A k \in 0..(L + 1) : P(k) # i /\ P(k) \in Range(c) \cup {s} /\ P(k) \in Nodes
  <2>1. s # i /\ Items \subseteq Nodes /\ s \in Nodes
    BY QueueAssumption DEF Nodes
  <2>2. \A k \in 1..L : c[k] # i /\ c[k] \in Range(c)
    BY <1>2 DEF Range
  <2>3. \A k \in 0..(L + 1) : k \in 1..L \/ P(k) = s
    BY <1>2
  <2> QED
    BY <1>2, <2>1, <2>2, <2>3
<1>5. p \in 0..L /\ p + 1 \in 1..(L + 1) /\ n = P(p + 1) /\ pv[n] = a
  BY <1>2, <1>3
<1>6. DOMAIN d = 1..(L + 1) /\ Len(d) = L + 1
  BY LenProperties
<1> HIDE DEF P, L
<1>7. /\ a # i /\ n # i /\ i \in Nodes /\ a \in Nodes /\ n \in Nodes
      /\ a \in Range(c) \cup {s} /\ n \in Range(c) \cup {s}
  BY <1>2, <1>4, <1>5 DEF Nodes
<1>8. /\ nx2 = [nx EXCEPT ![i] = n, ![a] = i] /\ pv2 = [pv EXCEPT ![i] = a, ![n] = i]
      /\ nx \in Links /\ pv \in Links
  BY <1>5
<1> HIDE DEF a, n, LinksIn
<1>9. /\ nx2[i] = n /\ nx2[a] = i /\ \A x \in Nodes \ {i, a} : nx2[x] = nx[x]
      /\ pv2[i] = a /\ pv2[n] = i /\ \A x \in Nodes \ {i, n} : pv2[x] = pv[x]
  BY <1>7, <1>8 DEF Links
<1>10. nx2 \in Links /\ pv2 \in Links
  BY <1>7, <1>8 DEF Links
<1> DEFINE D(k) == Place(s, d, k)
<1>11. /\ \A k \in 0..p : D(k) = P(k)
       /\ D(p + 1) = i
       /\ \A k \in (p + 1)..(L + 1) : D(k + 1) = P(k)
  <2>1. ASSUME NEW k \in 0..p PROVE D(k) = P(k)
    <3>1. k = 0 \/ (k \in 1..p /\ k \in 1..L /\ k \in 1..(L + 1))
      BY <1>2, <1>5
    <3> QED
      BY <1>2, <1>6, <3>1 DEF Place
  <2>2. D(p + 1) = i
    BY <1>2, <1>5, <1>6 DEF Place
  <2>3. ASSUME NEW k \in (p + 1)..(L + 1) PROVE D(k + 1) = P(k)
    <3>1. CASE k = L + 1
      BY <1>2, <1>6, <3>1 DEF Place
    <3>2. CASE k \in (p + 1)..L
      <4>1. k + 1 \in 1..(L + 1) /\ k \in 1..L
        BY <1>2, <1>5, <3>2
      <4> QED
        BY <1>2, <1>6, <3>2, <4>1 DEF Place, L
    <3> QED
      BY <1>2, <1>5, <3>1, <3>2
  <2> QED
    BY <2>1, <2>2, <2>3
<1> HIDE DEF D
<1>12. IsInjective(d)
  <2>1. SUFFICES ASSUME NEW j \in 1..(L + 1), NEW k \in 1..(L + 1), d[j] = d[k] PROVE j = k
    BY <1>6 DEF IsInjective
  <2>2. \A h \in 1..(L + 1) : \/ h \in 1..p /\ h \in 0..L /\ d[h] = P(h)
                              \/ h = p + 1 /\ d[h] = i
                              \/ h - 1 \in (p + 1)..L /\ h - 1 \in 0..L /\ d[h] = P(h - 1)
    <3>1. TAKE h \in 1..(L + 1)
    <3>2. d[h] = D(h)
      BY <1>6 DEF D, Place
    <3>3. CASE h <= p
      BY <1>2, <1>5, <1>11, <3>2, <3>3
    <3>4. CASE h = p + 1
      BY <1>11, <3>2, <3>4
    <3>5. CASE h > p + 1
      <4>1. h - 1 \in (p + 1)..L /\ h - 1 \in 0..L /\ (h - 1) + 1 = h /\ h - 1 \in (p + 1)..(L + 1)
        BY <1>2, <1>5, <3>5
      <4> QED
        BY <1>11, <3>2, <4>1
    <3> QED
      BY <1>2, <1>5, <3>3, <3>4, <3>5
  <2>3. \A h \in 0..L : P(h) # i
    BY <1>2, <1>4
  <2> QED
    BY <1>2, <1>5, <2>1, <2>2, <2>3
<1>13. ASSUME NEW k \in 0..(L + 1)
       PROVE  nx2[D(k)] = D(k + 1) /\ pv2[D(k + 1)] = D(k)
  <2>1. CASE k < p
    <3>1. k \in 0..p /\ k + 1 \in 0..p /\ k \in 0..L /\ k # p /\ k + 1 # p + 1 /\ k + 1 \in 1..(L + 1)
          /\ k \in 0..(L + 1) /\ k + 1 \in 0..(L + 1)
      BY <1>2, <1>5, <2>1
    <3>2. P(k) \in Nodes \ {i, a} /\ P(k + 1) \in Nodes \ {i, n}
      BY <1>2, <1>4, <1>5, <3>1 DEF a
    <3>3. nx[P(k)] = P(k + 1) /\ pv[P(k + 1)] = P(k)
      BY <1>3, <3>1 DEF L, P
    <3>4. D(k) = P(k) /\ D(k + 1) = P(k + 1)
      BY <1>11, <3>1
    <3> QED
      BY <1>9, <3>2, <3>3, <3>4
  <2>2. CASE k = p
    BY <1>5, <1>9, <1>11, <2>2 DEF a
  <2>3. CASE k = p + 1
    <3>1. p + 1 \in (p + 1)..(L + 1)
      BY <1>2, <1>5
    <3> QED
      BY <1>5, <1>9, <1>11, <2>3, <3>1
  <2>4. CASE k > p + 1
    <3>1. /\ k - 1 \in (p + 1)..(L + 1) /\ (k - 1) + 1 = k /\ k \in (p + 1)..(L + 1)
          /\ k - 1 \in 0..L /\ k - 1 # p /\ k \in 1..(L + 1) /\ k # p + 1 /\ k - 1 \in 0..(L + 1)
      BY <1>2, <1>5, <2>4
    <3>2. P(k - 1) \in Nodes \ {i, a} /\ P(k) \in Nodes \ {i, n}
      BY <1>2, <1>4, <1>5, <3>1 DEF a
    <3>3. nx[P(k - 1)] = P(k) /\ pv[P(k)] = P(k - 1)
      BY <1>3, <3>1 DEF L, P
    <3>4. D(k) = P(k - 1) /\ D(k + 1) = P(k)
      BY <1>11, <3>1
    <3> QED
      BY <1>9, <3>2, <3>3, <3>4
  <2> QED
    BY <1>2, <1>5, <2>1, <2>2, <2>3, <2>4
<1>14. IsRing(nx2, pv2, s, d)
  BY <1>6, <1>12, <1>13 DEF IsRing, D
<1>15. Range(d) = Range(c) \cup {i}
  <2>1. ASSUME NEW x \in Range(d) PROVE x \in Range(c) \cup {i}
    <3>1. PICK k \in 1..(L + 1) : x = d[k]
      BY <1>6 DEF Range
    <3>2. CASE k <= p
      <4>1. k \in 1..p /\ k \in 1..L
        BY <1>2, <1>5, <3>2
      <4> QED
        BY <1>2, <3>1, <4>1 DEF Range
    <3>3. CASE k = p + 1
      BY <3>1, <3>3
    <3>4. CASE k > p + 1
      <4>1. k - 1 \in (p + 1)..Len(c) /\ (k - 1) + 1 = k /\ k - 1 \in 1..L
        BY <1>2, <1>5, <3>4 DEF L
      <4>2. d[(k - 1) + 1] = c[k - 1]
        BY <4>1
      <4> QED
        BY <1>2, <3>1, <4>1, <4>2 DEF Range
    <3> QED
      BY <1>2, <1>5, <3>2, <3>3, <3>4
  <2>2. ASSUME NEW x \in Range(c) PROVE x \in Range(d)
    <3>1. PICK k \in 1..L : x = c[k]
      BY <1>2 DEF Range
    <3>2. CASE k <= p
      <4>1. k \in 1..p /\ k \in 1..(L + 1)
        BY <1>2, <1>5, <3>2
      <4> QED
        BY <1>6, <3>1, <4>1 DEF Range
    <3>3. CASE k > p
      <4>1. k \in (p + 1)..Len(c) /\ k + 1 \in 1..(L + 1)
        BY <1>2, <1>5, <3>3 DEF L
      <4>2. d[k + 1] = c[k]
        BY <4>1
      <4> QED
        BY <1>6, <3>1, <4>1, <4>2 DEF Range
    <3> QED
      BY <1>2, <1>5, <3>2, <3>3
  <2>3. i \in Range(d)
    BY <1>2, <1>5, <1>6 DEF Range
  <2> QED
    BY <2>1, <2>2, <2>3
<1>16. \A x \in Nodes : x \notin Range(c) \cup {s, i} => nx2[x] = nx[x] /\ pv2[x] = pv[x]
  BY <1>7, <1>9
<1> QED
  BY <1>10, <1>14, <1>15, <1>16 DEF Becomes

\* Unlinking the item at place p of a ring.
LEMMA RemoveRing ==
  ASSUME NEW nx, NEW pv, NEW s, NEW c, NEW p, NEW n, NEW nx2, NEW pv2,
         LinksOut(nx, pv, s, c, p, n, nx2, pv2), NEW d, Removed(c, p, d)
  PROVE  /\ Becomes(nx, pv, s, c, d, nx2, pv2) /\ Range(d) = Range(c) \ {n}
         /\ nx2[n] = Place(s, d, p)
<1> USE DEF Removed, LinksOut
<1> DEFINE P(k) == Place(s, c, k)
           L == Len(c)
           a == P(p - 1)
           b == P(p + 1)
<1>1. c \in Seq(Items) /\ IsInjective(c)
  BY DEF IsRing
<1>2. /\ L \in Nat /\ DOMAIN c = 1..L /\ P(0) = s /\ P(L + 1) = s
      /\ \A k \in 1..L : P(k) = c[k] /\ c[k] \in Items
      /\ \A k \in 0..(L + 1) : P(k) \in Items \cup {s}
      /\ \A j, k \in 0..L : P(j) = P(k) => j = k
      /\ \A j, k \in 1..(L + 1) : P(j) = P(k) => j = k
  BY <1>1, PlaceFacts
<1>3. \A k \in 0..L : nx[P(k)] = P(k + 1) /\ pv[P(k + 1)] = P(k)
  BY DEF IsRing
<1>4. \A k \in 0..(L + 1) : P(k) \in Range(c) \cup {s} /\ P(k) \in Nodes
  <2>1. Items \subseteq Nodes /\ s \in Nodes
    BY DEF Nodes
  <2>2. \A k \in 1..L : c[k] \in Range(c)
    BY <1>2 DEF Range
  <2>3. \A k \in 0..(L + 1) : k \in 1..L \/ P(k) = s
    BY <1>2
  <2> QED
    BY <1>2, <2>1, <2>2, <2>3
<1>5. /\ p \in 1..L /\ p - 1 \in 0..L /\ p + 1 \in 1..(L + 1) /\ p \in 0..(L + 1)
      /\ p - 1 \in 0..(L + 1) /\ p + 1 \in 0..(L + 1) /\ (p - 1) + 1 = p
      /\ n = P(p)
  BY <1>2
<1>6. DOMAIN d = 1..(L - 1) /\ Len(d) = L - 1
  BY LenProperties
<1>7. nx[n] = b /\ pv[n] = a
  <2>1. p \in 0..L
    BY <1>5
  <2> QED
    BY <1>3, <1>5, <2>1
<1> HIDE DEF P, L
<1>8. /\ nx2 = [nx EXCEPT ![a] = b] /\ pv2 = [pv EXCEPT ![b] = a]
      /\ nx \in Links /\ pv \in Links /\ n = c[p]
  BY <1>7
<1> HIDE DEF LinksOut
<1>9. a \in Nodes /\ b \in Nodes /\ a \in Range(c) \cup {s} /\ b \in Range(c) \cup {s}
  BY <1>4, <1>5
<1> HIDE DEF a, b
<1>10. nx2 \in Links /\ pv2 \in Links
  <2>1. [nx EXCEPT ![a] = b] \in Links
    BY <1>8, <1>9 DEF Links
  <2>2. [pv EXCEPT ![b] = a] \in Links
    BY <1>8, <1>9 DEF Links
  <2> QED
    BY <1>8, <2>1, <2>2
<1>11. /\ nx2[a] = b /\ \A x \in Nodes \ {a} : nx2[x] = nx[x]
       /\ pv2[b] = a /\ \A x \in Nodes \ {b} : pv2[x] = pv[x]
  BY <1>8, <1>9 DEF Links
<1> DEFINE D(k) == Place(s, d, k)
<1>12. /\ \A k \in 0..(p - 1) : D(k) = P(k)
       /\ \A k \in p..L : D(k) = P(k + 1)
  <2>1. ASSUME NEW k \in 0..(p - 1) PROVE D(k) = P(k)
    <3>1. k = 0 \/ (k \in 1..(p - 1) /\ k \in 1..L /\ k \in 1..(L - 1))
      BY <1>2, <1>5
    <3> QED
      BY <1>2, <1>6, <3>1 DEF Place
  <2>2. ASSUME NEW k \in p..L PROVE D(k) = P(k + 1)
    <3>1. CASE k = L
      BY <1>2, <1>6, <3>1 DEF Place
    <3>2. CASE k # L
      <4>1. k + 1 \in (p + 1)..Len(c) /\ (k + 1) - 1 = k /\ k \in 1..(L - 1) /\ k + 1 \in 1..L
        BY <1>2, <1>5, <3>2 DEF L
      <4>2. d[(k + 1) - 1] = c[k + 1]
        BY <4>1
      <4> QED
        BY <1>2, <1>6, <4>1, <4>2 DEF Place
    <3> QED
      BY <3>1, <3>2
  <2> QED
    BY <2>1, <2>2
<1> HIDE DEF D
<1>13. \A h \in 1..(L - 1) : \/ h \in 1..(p - 1) /\ h \in 0..L /\ d[h] = P(h)
                             \/ h \in p..(L - 1) /\ h + 1 \in 0..L /\ d[h] = P(h + 1)
  <2>1. TAKE h \in 1..(L - 1)
  <2>2. d[h] = D(h)
    BY <1>6 DEF D, Place
  <2>3. CASE h < p
    <3>1. h \in 0..(p - 1) /\ h \in 1..(p - 1) /\ h \in 0..L
      BY <1>2, <1>5, <2>3
    <3> QED
      BY <1>12, <2>2, <3>1
  <2>4. CASE h >= p
    <3>1. h \in p..L /\ h \in p..(L - 1) /\ h + 1 \in 0..L
      BY <1>2, <1>5, <2>4
    <3> QED
      BY <1>12, <2>2, <3>1
  <2> QED
    BY <1>5, <2>3, <2>4
<1>14. IsInjective(d)
  <2>1. SUFFICES ASSUME NEW j \in 1..(L - 1), NEW k \in 1..(L - 1), d[j] = d[k] PROVE j = k
    BY <1>6 DEF IsInjective
  <2>2. PICK e \in 0..L : d[j] = P(e) /\ e = IF j < p THEN j ELSE j + 1
    BY <1>5, <1>13
  <2>3. PICK f \in 0..L : d[k] = P(f) /\ f = IF k < p THEN k ELSE k + 1
    BY <1>5, <1>13
  <2>4. e = f
    BY <1>2, <2>1, <2>2, <2>3
  <2> QED
    BY <1>5, <2>2, <2>3, <2>4
<1>15. ASSUME NEW k \in 0..(L - 1)
       PROVE  nx2[D(k)] = D(k + 1) /\ pv2[D(k + 1)] = D(k)
  <2>1. CASE k < p - 1
    <3>1. /\ k \in 0..(p - 1) /\ k + 1 \in 0..(p - 1) /\ k \in 0..L /\ k # p - 1
          /\ k + 1 # p + 1 /\ k + 1 \in 1..(L + 1) /\ k \in 0..(L + 1) /\ k + 1 \in 0..(L + 1)
      BY <1>2, <1>5, <2>1
    <3>2. P(k) \in Nodes \ {a} /\ P(k + 1) \in Nodes \ {b}
      BY <1>2, <1>4, <1>5, <3>1 DEF a, b
    <3>3. nx[P(k)] = P(k + 1) /\ pv[P(k + 1)] = P(k)
      BY <1>3, <3>1 DEF L, P
    <3>4. D(k) = P(k) /\ D(k + 1) = P(k + 1)
      BY <1>12, <3>1
    <3> QED
      BY <1>11, <3>2, <3>3, <3>4
  <2>2. CASE k = p - 1
    <3>1. p - 1 \in 0..(p - 1) /\ p \in p..L
      BY <1>2, <1>5
    <3>2. D(k) = a /\ D(k + 1) = b
      BY <1>5, <1>12, <2>2, <3>1 DEF a, b
    <3> QED
      BY <1>11, <3>2
  <2>3. CASE k >= p
    <3>1. /\ k \in p..L /\ k + 1 \in p..L /\ k + 1 \in 0..L /\ k + 1 # p - 1
          /\ (k + 1) + 1 # p + 1 /\ (k + 1) + 1 \in 1..(L + 1) /\ k + 1 \in 0..(L + 1)
          /\ (k + 1) + 1 \in 0..(L + 1)
      BY <1>2, <1>5, <2>3
    <3>2. P(k + 1) \in Nodes \ {a} /\ P((k + 1) + 1) \in Nodes \ {b}
      BY <1>2, <1>4, <1>5, <3>1 DEF a, b
    <3>3. nx[P(k + 1)] = P((k + 1) + 1) /\ pv[P((k + 1) + 1)] = P(k + 1)
      BY <1>3, <3>1 DEF L, P
    <3>4. D(k) = P(k + 1) /\ D(k + 1) = P((k + 1) + 1)
      BY <1>12, <3>1
    <3> QED
      BY <1>11, <3>2, <3>3, <3>4
  <2> QED
    BY <1>2, <1>5, <2>1, <2>2, <2>3
<1>16. IsRing(nx2, pv2, s, d)
  BY <1>6, <1>14, <1>15 DEF IsRing, D
<1>17. Range(d) = Range(c) \ {n}
  <2>1. ASSUME NEW x \in Range(d) PROVE x \in Range(c) \ {n}
    <3>1. PICK h \in 1..(L - 1) : x = d[h]
      BY <1>6 DEF Range
    <3>2. PICK j \in 1..L : x = P(j) /\ j # p
      <4>1. CASE h \in 1..(p - 1) /\ d[h] = P(h)
        BY <1>2, <1>5, <3>1, <4>1
      <4>2. CASE h \in p..(L - 1) /\ d[h] = P(h + 1)
        <5>1. h + 1 \in 1..L /\ h + 1 # p
          BY <1>2, <1>5, <4>2
        <5> QED
          BY <3>1, <4>2, <5>1
      <4> QED
        BY <1>13, <4>1, <4>2
    <3>3. j \in 0..L /\ p \in 0..L
      BY <1>2, <1>5
    <3>4. x # n
      BY <1>2, <1>5, <3>2, <3>3
    <3> QED
      BY <1>2, <3>2, <3>4 DEF Range
  <2>2. ASSUME NEW x \in Range(c), x # n PROVE x \in Range(d)
    <3>1. PICK k \in 1..L : x = c[k]
      BY <1>2 DEF Range
    <3>2. k # p
      BY <1>8, <2>2, <3>1
    <3>3. CASE k < p
      <4>1. k \in 1..(p - 1) /\ k \in 1..(L - 1)
        BY <1>2, <1>5, <3>3
      <4> QED
        BY <1>6, <3>1, <4>1 DEF Range
    <3>4. CASE k > p
      <4>1. k \in (p + 1)..Len(c) /\ k - 1 \in 1..(L - 1)
        BY <1>2, <1>5, <3>4 DEF L
      <4>2. d[k - 1] = c[k]
        BY <4>1
      <4> QED
        BY <1>6, <3>1, <4>1, <4>2 DEF Range
    <3> QED
      BY <1>5, <3>2, <3>3, <3>4
  <2> QED
    BY <2>1, <2>2
<1>18. nx2[n] = nx[n]
  <2>1. p \in 0..L /\ p # p - 1
    BY <1>2, <1>5
  <2>2. n # a /\ n \in Nodes
    BY <1>2, <1>4, <1>5, <2>1 DEF a
  <2> QED
    BY <1>11, <2>2
<1>19. \A x \in Nodes : x \notin Range(c) \cup {s} => nx2[x] = nx[x] /\ pv2[x] = pv[x]
  BY <1>9, <1>11
<1>20. nx[n] = Place(s, d, p)
  BY <1>2, <1>5, <1>7, <1>12 DEF D, b
<1> QED
  BY <1>10, <1>16, <1>17, <1>18, <1>19, <1>20 DEF Becomes

\* A ring is not disturbed by changes to the links of other nodes.
LEMMA FrameRing ==
  ASSUME NEW nx, NEW pv, NEW nx2, NEW pv2, NEW s \in Blocks, NEW c, IsRing(nx, pv, s, c),
         \A x \in Range(c) \cup {s} : nx2[x] = nx[x] /\ pv2[x] = pv[x]
  PROVE  IsRing(nx2, pv2, s, c)
<1>1. c \in Seq(Items) /\ IsInjective(c)
  BY DEF IsRing
<1>2. Len(c) \in Nat /\ DOMAIN c = 1..Len(c)
  BY <1>1, PlaceFacts
<1>3. \A k \in 0..(Len(c) + 1) : Place(s, c, k) \in Range(c) \cup {s}
  BY <1>2 DEF Place, Range
<1>4. ASSUME NEW k \in 0..Len(c)
      PROVE  nx2[Place(s, c, k)] = Place(s, c, k + 1) /\ pv2[Place(s, c, k + 1)] = Place(s, c, k)
  <2>1. k \in 0..(Len(c) + 1) /\ k + 1 \in 0..(Len(c) + 1)
    BY <1>2
  <2>2. nx[Place(s, c, k)] = Place(s, c, k + 1) /\ pv[Place(s, c, k + 1)] = Place(s, c, k)
    BY DEF IsRing
  <2> QED
    BY <1>3, <2>1, <2>2
<1> QED
  BY <1>1, <1>4 DEF IsRing

\* The items of a ring are found by walking from its sentinel.
LEMMA RingContents ==
  ASSUME NEW nx, NEW pv, NEW s \in Blocks, NEW c, IsRing(nx, pv, s, c)
  PROVE  Walk(nx, nx[s], s) = c /\ nx[s] = Place(s, c, 1) /\ pv[s] = Place(s, c, Len(c))
<1>1. c \in Seq(Items) /\ IsInjective(c)
  BY DEF IsRing
<1>2. /\ Len(c) \in Nat /\ DOMAIN c = 1..Len(c)
      /\ Place(s, c, 0) = s /\ Place(s, c, Len(c) + 1) = s
  BY <1>1, PlaceFacts
<1>3. \A k \in 0..Len(c) : /\ nx[Place(s, c, k)] = Place(s, c, k + 1)
                           /\ pv[Place(s, c, k + 1)] = Place(s, c, k)
  BY DEF IsRing
<1>4. nx[s] = Place(s, c, 1) /\ pv[s] = Place(s, c, Len(c))
  <2>1. 0 \in 0..Len(c) /\ Len(c) \in 0..Len(c) /\ 0 + 1 = 1
    BY <1>2
  <2> QED
    BY <1>2, <1>3, <2>1
<1>5. Walk(nx, Place(s, c, 1), s) = [k \in 1..(Len(c) + 1 - 1) |-> c[1 + k - 1]]
  <2>1. 1 \in 1..(Len(c) + 1)
    BY <1>2
  <2> QED
    BY <1>1, <1>3, <2>1, WalkFacts
<1>6. c = [k \in 1..Len(c) |-> c[k]]
  BY <1>1, LenProperties
<1>7. [k \in 1..(Len(c) + 1 - 1) |-> c[1 + k - 1]] = [k \in 1..Len(c) |-> c[k]]
  <2>1. Len(c) + 1 - 1 = Len(c) /\ \A k \in 1..Len(c) : 1 + k - 1 = k
    BY <1>2
  <2> QED
    BY <2>1
<1> QED
  BY <1>4, <1>5, <1>6, <1>7

-----------------------------------------------------------------------------
(* Sequences                                                                *)

\* queue_prepend
LEMMA ConsFacts ==
  ASSUME NEW c \in Seq(Items), NEW i \in Items
  PROVE  /\ <<i>> \o c \in Seq(Items) /\ Len(<<i>> \o c) = Len(c) + 1
         /\ (<<i>> \o c)[1] = i /\ \A k \in 1..Len(c) : (<<i>> \o c)[k + 1] = c[k]
<1>1. Len(c) \in Nat
  BY LenProperties
<1>2. <<i>> \in Seq(Items) /\ Len(<<i>>) = 1 /\ <<i>>[1] = i
  OBVIOUS
<1> QED
  BY <1>1, <1>2, ConcatProperties

\* The sequence without the item at place p
LEMMA RemoveAtFacts ==
  ASSUME NEW c \in Seq(Items), NEW p \in 1..Len(c)
  PROVE  /\ RemoveAt(c, p) \in Seq(Items) /\ Len(RemoveAt(c, p)) = Len(c) - 1
         /\ \A k \in 1..(p - 1) : RemoveAt(c, p)[k] = c[k]
         /\ \A k \in (p + 1)..Len(c) : RemoveAt(c, p)[k - 1] = c[k]
<1>1. Len(c) \in Nat /\ p \in Nat /\ DOMAIN c = 1..Len(c)
  BY LenProperties
<1>2. \A k \in 1..Len(c) : c[k] \in Items
  BY ElementOfSeq
<1> DEFINE a == SubSeq(c, 1, p - 1)
           b == SubSeq(c, p + 1, Len(c))
<1>3. /\ a \in Seq(Items) /\ Len(a) = p - 1 /\ \A k \in 1..(p - 1) : a[k] = c[k]
  <2>1. 1 \in Int /\ p - 1 \in Int /\ \A k \in 1..(p - 1) : c[k] \in Items
    BY <1>1, <1>2
  <2>2. /\ a \in Seq(Items)
        /\ Len(a) = IF 1 <= p - 1 THEN p - 1 - 1 + 1 ELSE 0
        /\ \A k \in 1..(p - 1 - 1 + 1) : a[k] = c[1 + k - 1]
    BY <2>1, SubSeqProperties
  <2> HIDE DEF a
  <2> QED
    BY <1>1, <2>2
<1>4. /\ b \in Seq(Items) /\ Len(b) = Len(c) - p /\ \A k \in 1..(Len(c) - p) : b[k] = c[p + k]
  <2>1. p + 1 \in Int /\ Len(c) \in Int /\ \A k \in (p + 1)..Len(c) : c[k] \in Items
    BY <1>1, <1>2
  <2>2. /\ b \in Seq(Items)
        /\ Len(b) = IF p + 1 <= Len(c) THEN Len(c) - (p + 1) + 1 ELSE 0
        /\ \A k \in 1..(Len(c) - (p + 1) + 1) : b[k] = c[p + 1 + k - 1]
    BY <2>1, SubSeqProperties
  <2> HIDE DEF b
  <2>3. Len(b) = Len(c) - p
    <3>1. Len(b) = IF p + 1 <= Len(c) THEN Len(c) - (p + 1) + 1 ELSE 0
      BY <2>2
    <3>2. p + 1 <= Len(c) \/ p = Len(c)
      <4>1. \A m, n \in Nat : m <= n => m + 1 <= n \/ m = n
        OBVIOUS
      <4>2. p <= Len(c)
        BY <1>1
      <4> QED
        BY <1>1, <4>1, <4>2
    <3>3. Len(c) - (p + 1) + 1 = Len(c) - p /\ ~(Len(c) + 1 <= Len(c)) /\ Len(c) - Len(c) = 0
      BY <1>1
    <3> QED
      BY <3>1, <3>2, <3>3
  <2>4. ASSUME NEW k \in 1..(Len(c) - p) PROVE b[k] = c[p + k]
    <3>1. k \in 1..(Len(c) - (p + 1) + 1) /\ p + 1 + k - 1 = p + k
      BY <1>1
    <3> QED
      BY <2>2, <3>1
  <2> QED
    BY <2>2, <2>3, <2>4
<1>5. RemoveAt(c, p) = a \o b
  BY DEF RemoveAt
<1> HIDE DEF a, b
<1>6. /\ a \o b \in Seq(Items) /\ Len(a \o b) = Len(a) + Len(b)
      /\ \A k \in 1..(Len(a) + Len(b)) : (a \o b)[k] = IF k <= Len(a) THEN a[k] ELSE b[k - Len(a)]
  BY <1>3, <1>4, ConcatProperties
<1>7. Len(a \o b) = Len(c) - 1
  BY <1>1, <1>3, <1>4, <1>6
<1>8. ASSUME NEW k \in 1..(p - 1) PROVE (a \o b)[k] = c[k]
  <2>1. k \in 1..(Len(a) + Len(b)) /\ k <= Len(a)
    BY <1>1, <1>3, <1>4
  <2> QED
    BY <1>3, <1>6, <2>1
<1>9. ASSUME NEW k \in (p + 1)..Len(c) PROVE (a \o b)[k - 1] = c[k]
  <2>1. /\ k - 1 \in 1..(Len(a) + Len(b)) /\ ~(k - 1 <= Len(a))
        /\ (k - 1) - Len(a) = k - p /\ k - p \in 1..(Len(c) - p) /\ p + (k - p) = k
    BY <1>1, <1>3, <1>4
  <2> QED
    BY <1>4, <1>6, <2>1
<1> QED
  BY <1>5, <1>6, <1>7, <1>8, <1>9

\* The only place of an item is the one that RemoveFirst looks for.
LEMMA RemoveFirstFacts ==
  ASSUME NEW c \in Seq(Items), IsInjective(c), NEW p \in 1..Len(c)
  PROVE  RemoveFirst(c, c[p]) = RemoveAt(c, p)
<1>1. Len(c) \in Nat /\ DOMAIN c = 1..Len(c)
  BY LenProperties
<1>2. {i \in 1..Len(c) : c[i] = c[p]} = {p}
  BY <1>1 DEF IsInjective
<1>3. Min({p}) = p
  BY <1>1 DEF Min
<1>4. SelectInSeq(c, LAMBDA v : v = c[p]) = p
  BY <1>2, <1>3 DEF SelectInSeq
<1> QED
  BY <1>4 DEF RemoveFirst

-----------------------------------------------------------------------------
(* The queues in a state that satisfies the invariant                       *)

LEMMA QueueFacts ==
  ASSUME QueueInv, NEW q \in handles
  PROVE  /\ next \in Links /\ prev \in Links /\ length \in [Blocks -> Nat] /\ q \in Blocks
         /\ sentinal[q] \in Blocks /\ sentinal[q] \in heap \ handles
         /\ Contents(q) \in Seq(Items) /\ IsInjective(Contents(q))
         /\ Len(Contents(q)) \in Nat /\ DOMAIN Contents(q) = 1..Len(Contents(q))
         /\ length[q] = Len(Contents(q))
         /\ IsRing(next, prev, sentinal[q], Contents(q))
         /\ Range(Contents(q)) = {Contents(q)[k] : k \in 1..Len(Contents(q))}
         /\ Range(Contents(q)) \subseteq Items /\ sentinal[q] \notin Items
         /\ Contents(q) = <<>> <=> Len(Contents(q)) = 0
<1>1. /\ next \in Links /\ prev \in Links /\ length \in [Blocks -> Nat] /\ q \in Blocks
      /\ heap \subseteq Blocks
  BY DEF QueueInv, TypeOK, Links
<1>2. /\ sentinal[q] \in heap \ handles /\ length[q] = Len(Contents(q))
      /\ IsRing(next, prev, sentinal[q], Contents(q))
  BY DEF QueueInv, RingsOK
<1>3. Contents(q) \in Seq(Items) /\ IsInjective(Contents(q))
  BY <1>2 DEF IsRing
<1>4. /\ Len(Contents(q)) \in Nat /\ DOMAIN Contents(q) = 1..Len(Contents(q))
      /\ \A k \in 1..Len(Contents(q)) : Contents(q)[k] \in Items
  BY <1>3, LenProperties, ElementOfSeq
<1>5. Range(Contents(q)) = {Contents(q)[k] : k \in 1..Len(Contents(q))}
  BY <1>4 DEF Range
<1>6. Range(Contents(q)) \subseteq Items
  BY <1>4, <1>5
<1>7. sentinal[q] \in Blocks /\ sentinal[q] \notin Items
  BY <1>1, <1>2, QueueAssumption
<1>8. Contents(q) = <<>> <=> Len(Contents(q)) = 0
  BY <1>3, EmptySeq
<1> QED
  BY <1>1, <1>2, <1>3, <1>4, <1>5, <1>6, <1>7, <1>8

LEMMA OtherFacts ==
  ASSUME QueueInv, NEW q \in handles, NEW r \in handles, q # r
  PROVE  /\ sentinal[q] # sentinal[r]
         /\ Range(Contents(q)) \cap Range(Contents(r)) = {}
BY DEF QueueInv, RingsOK

\* The other queues stay as they are.
OthersKept(q) == \A r \in handles \ {q} : Contents(r)' = Contents(r)

\* When the links of one queue have become those of d, the rest of the invariant
\* about the queues is kept.
LEMMA Relinked ==
  ASSUME QueueInv, NEW q \in handles, NEW d, UNCHANGED <<sentinal, heap, handles>>,
         IsRing(next', prev', sentinal[q], d),
         length' \in [Blocks -> Nat], length'[q] = Len(d),
         \A r \in handles \ {q} : length'[r] = length[r] /\ Range(d) \cap Range(Contents(r)) = {},
         \A x \in Nodes : x \notin Range(Contents(q)) \cup Range(d) \cup {sentinal[q]} =>
                            next'[x] = next[x] /\ prev'[x] = prev[x]
  PROVE  Contents(q)' = d /\ OthersKept(q) /\ RingsOK' /\ NoLeak' /\ IsFiniteSet(heap)'
<1>1. Contents(q)' = d
  <2>1. sentinal[q] \in Blocks
    BY QueueFacts
  <2> QED
    BY <2>1, RingContents DEF Contents
<1>2. ASSUME NEW r \in handles \ {q}
      PROVE  Contents(r)' = Contents(r) /\ IsRing(next', prev', sentinal[r], Contents(r))
  <2>1. /\ sentinal[r] \in Blocks /\ sentinal[r] \notin Items /\ Range(Contents(r)) \subseteq Items
        /\ sentinal[q] \notin Items /\ Range(Contents(q)) \subseteq Items
        /\ IsRing(next, prev, sentinal[r], Contents(r))
    BY QueueFacts
  <2>2. sentinal[q] # sentinal[r] /\ Range(Contents(q)) \cap Range(Contents(r)) = {}
    BY OtherFacts
  <2>3. Range(d) \subseteq Items
    <3>1. d \in Seq(Items)
      BY DEF IsRing
    <3> QED
      BY <3>1, LenProperties, ElementOfSeq DEF Range
  <2>4. \A x \in Range(Contents(r)) \cup {sentinal[r]} : next'[x] = next[x] /\ prev'[x] = prev[x]
    BY <2>1, <2>2, <2>3 DEF Nodes
  <2>5. IsRing(next', prev', sentinal[r], Contents(r))
    BY <2>1, <2>4, FrameRing
  <2>6. \A s \in Blocks : \A e : IsRing(next', prev', s, e) => Walk(next', next'[s], s) = e
    BY RingContents
  <2>7. Walk(next', next'[sentinal[r]], sentinal[r]) = Contents(r)
    BY <2>1, <2>5, <2>6
  <2> QED
    BY <2>5, <2>6, <2>7 DEF Contents
<1>3. RingsOK'
  <2>1. ASSUME NEW r \in handles
        PROVE  /\ sentinal[r] \in heap \ handles /\ length'[r] = Len(Contents(r)')
               /\ IsRing(next', prev', sentinal[r], Contents(r)')
    BY <1>1, <1>2, QueueFacts
  <2>2. ASSUME NEW r \in handles, NEW u \in handles, r # u
        PROVE  /\ sentinal[r] # sentinal[u]
               /\ Range(Contents(r)') \cap Range(Contents(u)') = {}
    BY <1>1, <1>2, <2>2, OtherFacts
  <2>3. /\ \A r \in handles : (Contents(r))' = Contents(r)'
        /\ \A r \in handles : Range(Contents(r))' = Range(Contents(r)')
    OBVIOUS
  <2> QED
    BY <2>1, <2>2, <2>3 DEF RingsOK
<1>4. NoLeak' /\ IsFiniteSet(heap)'
  BY DEF QueueInv, NoLeak
<1> QED
  BY <1>1, <1>2, <1>3, <1>4 DEF OthersKept

\* A call that leaves the queues alone.
LEMMA Untouched ==
  ASSUME QueueInv, UNCHANGED <<links, fields, heap, handles>>
  PROVE  /\ \A r \in handles : Contents(r)' = Contents(r)
         /\ RingsOK' /\ NoLeak' /\ IsFiniteSet(heap)'
<1>1. UNCHANGED <<next, prev, sentinal, length, heap, handles>>
  BY DEF links, fields
<1>2. \A r \in handles : Contents(r)' = Contents(r)
  BY <1>1 DEF Contents
<1>3. RingsOK'
  BY <1>1, <1>2 DEF QueueInv, RingsOK
<1>4. NoLeak' /\ IsFiniteSet(heap)'
  BY <1>1 DEF QueueInv, NoLeak
<1> QED
  BY <1>2, <1>3, <1>4

LEMMA UntouchedInv ==
  ASSUME QueueInv, UNCHANGED <<links, fields, heap, handles, iter>>,
         ret' \in {-1, Null} \cup Nat \cup Blocks, item' \in Items \cup {Null}
  PROVE  QueueInv'
<1>1. UNCHANGED <<next, prev, sentinal, length, heap, handles, on, cur>>
  BY DEF links, fields, iter
<1>2. TypeOK'
  BY <1>1 DEF QueueInv, TypeOK
<1>3. IterateOK'
  BY <1>1, Untouched DEF QueueInv, IterateOK, TypeOK
<1> QED
  BY <1>2, <1>3, Untouched DEF QueueInv

-----------------------------------------------------------------------------
(* The steps                                                                *)

\* Linking an item that is on no queue: queue q becomes d.
LEMMA LinkedInv ==
  ASSUME QueueInv, NEW q \in handles, NEW i \in Items, i \notin Linked, on = Null,
         NEW p \in 0..Len(Contents(q)), NEW n, n = Place(sentinal[q], Contents(q), p + 1),
         LinkBefore(q, i, n), NEW d, Inserted(Contents(q), p, i, d)
  PROVE  QueueInv' /\ Contents(q)' = d /\ OthersKept(q)
<1>1. /\ next \in Links /\ prev \in Links /\ length \in [Blocks -> Nat] /\ q \in Blocks
      /\ sentinal[q] \in Blocks /\ IsRing(next, prev, sentinal[q], Contents(q))
      /\ length[q] = Len(Contents(q)) /\ Len(Contents(q)) \in Nat
  BY QueueFacts
<1>2. i \notin Range(Contents(q)) /\ \A r \in handles : i \notin Range(Contents(r))
  BY DEF Linked
<1>3. /\ next' = [next EXCEPT ![i] = n, ![prev[n]] = i]
      /\ prev' = [prev EXCEPT ![i] = prev[n], ![n] = i]
      /\ length' = [length EXCEPT ![q] = @ + 1]
      /\ ret' = 0 /\ item' = Null /\ UNCHANGED <<on, cur, sentinal, heap, handles>>
  BY DEF LinkBefore, Returns, iter
<1>4. \E c : c = Contents(q)
  OBVIOUS
<1>5. PICK c : c = Contents(q)
  BY <1>4
<1>6. Becomes(next, prev, sentinal[q], c, d, next', prev') /\ Range(d) = Range(c) \cup {i}
  <2>1. LinksIn(next, prev, sentinal[q], c, p, i, next', prev')
    BY <1>1, <1>2, <1>3, <1>5 DEF LinksIn
  <2>2. Inserted(c, p, i, d)
    BY <1>5
  <2> QED
    BY <2>1, <2>2, InsertRing
<1>7. length' \in [Blocks -> Nat] /\ length'[q] = Len(d) /\ \A r \in handles \ {q} : length'[r] = length[r]
  <2>1. handles \subseteq Blocks
    BY DEF QueueInv, TypeOK
  <2>2. length[q] + 1 = Len(d) /\ length[q] + 1 \in Nat
    BY <1>1 DEF Inserted
  <2> QED
    BY <1>1, <1>3, <2>1, <2>2
<1>8. \A r \in handles \ {q} : Range(d) \cap Range(Contents(r)) = {}
  BY <1>2, <1>5, <1>6, OtherFacts
<1>9. \A x \in Nodes : x \notin Range(Contents(q)) \cup Range(d) \cup {sentinal[q]} =>
                         next'[x] = next[x] /\ prev'[x] = prev[x]
  BY <1>5, <1>6 DEF Becomes
<1>10. Contents(q)' = d /\ OthersKept(q) /\ RingsOK' /\ NoLeak' /\ IsFiniteSet(heap)'
  BY <1>3, <1>6, <1>7, <1>8, <1>9, Relinked DEF Becomes
<1>11. TypeOK'
  BY <1>3, <1>6, <1>7 DEF QueueInv, TypeOK, Links, Becomes
<1>12. IterateOK'
  BY <1>3 DEF IterateOK
<1> QED
  BY <1>10, <1>11, <1>12 DEF QueueInv

\* Unlinking the item at place p of queue q.
LEMMA Unlinked ==
  ASSUME QueueInv, NEW q \in handles, NEW p \in 1..Len(Contents(q)), Unlink(q, Contents(q)[p])
  PROVE  /\ Contents(q)' = RemoveAt(Contents(q), p) /\ OthersKept(q)
         /\ RingsOK' /\ NoLeak' /\ IsFiniteSet(heap)'
         /\ next' \in Links /\ prev' \in Links /\ length' \in [Blocks -> Nat]
         /\ UNCHANGED <<sentinal, heap, handles>>
         /\ next'[Contents(q)[p]] = Place(sentinal[q], RemoveAt(Contents(q), p), p)
<1>1. /\ next \in Links /\ prev \in Links /\ length \in [Blocks -> Nat] /\ q \in Blocks
      /\ sentinal[q] \in Blocks /\ IsRing(next, prev, sentinal[q], Contents(q))
      /\ length[q] = Len(Contents(q)) /\ Len(Contents(q)) \in Nat /\ Contents(q) \in Seq(Items)
  BY QueueFacts
<1>2. \E c, d, n : c = Contents(q) /\ d = RemoveAt(Contents(q), p) /\ n = Contents(q)[p]
  OBVIOUS
<1>3. PICK c, d, n : c = Contents(q) /\ d = RemoveAt(Contents(q), p) /\ n = Contents(q)[p]
  BY <1>2
<1>4. /\ next' = [next EXCEPT ![prev[n]] = next[n]]
      /\ prev' = [prev EXCEPT ![next[n]] = prev[n]]
      /\ length' = [length EXCEPT ![q] = @ - 1] /\ UNCHANGED <<sentinal, heap, handles>>
  BY <1>3 DEF Unlink
<1>5. Removed(c, p, d)
  <2>1. \A e \in Seq(Items) : \A j \in 1..Len(e) : Removed(e, j, RemoveAt(e, j))
    BY RemoveAtFacts DEF Removed
  <2> QED
    BY <1>1, <1>3, <2>1
<1>6. LinksOut(next, prev, sentinal[q], c, p, n, next', prev')
  BY <1>1, <1>3, <1>4 DEF LinksOut
<1>7. /\ Becomes(next, prev, sentinal[q], c, d, next', prev') /\ Range(d) = Range(c) \ {n}
      /\ next'[n] = Place(sentinal[q], d, p)
  BY <1>5, <1>6, RemoveRing
<1>8. length' \in [Blocks -> Nat] /\ length'[q] = Len(d) /\ \A r \in handles \ {q} : length'[r] = length[r]
  <2>1. handles \subseteq Blocks
    BY DEF QueueInv, TypeOK
  <2>2. length[q] - 1 = Len(d) /\ length[q] - 1 \in Nat
    BY <1>1, <1>3, <1>5 DEF Removed
  <2> QED
    BY <1>1, <1>4, <2>1, <2>2
<1>9. \A r \in handles \ {q} : Range(d) \cap Range(Contents(r)) = {}
  BY <1>3, <1>7, OtherFacts
<1>10. \A x \in Nodes : x \notin Range(Contents(q)) \cup Range(d) \cup {sentinal[q]} =>
                          next'[x] = next[x] /\ prev'[x] = prev[x]
  BY <1>3, <1>7 DEF Becomes
<1>11. Contents(q)' = d /\ OthersKept(q) /\ RingsOK' /\ NoLeak' /\ IsFiniteSet(heap)'
  BY <1>4, <1>7, <1>8, <1>9, <1>10, Relinked DEF Becomes
<1> QED
  BY <1>3, <1>4, <1>7, <1>8, <1>11 DEF Becomes

\* A queue whose nodes keep their links.
LEMMA Kept ==
  ASSUME QueueInv, NEW r \in handles, sentinal'[r] = sentinal[r],
         \A x \in Items \cup heap : next'[x] = next[x] /\ prev'[x] = prev[x]
  PROVE  Contents(r)' = Contents(r) /\ IsRing(next', prev', sentinal[r], Contents(r))
<1>1. /\ sentinal[r] \in Blocks /\ sentinal[r] \in heap /\ Range(Contents(r)) \subseteq Items
      /\ IsRing(next, prev, sentinal[r], Contents(r))
  BY QueueFacts
<1>2. IsRing(next', prev', sentinal[r], Contents(r))
  BY <1>1, FrameRing
<1>3. \A s \in Blocks : \A e : IsRing(next', prev', s, e) => Walk(next', next'[s], s) = e
  BY RingContents
<1>4. Walk(next', next'[sentinal[r]], sentinal[r]) = Contents(r)
  BY <1>1, <1>2, <1>3
<1> QED
  BY <1>2, <1>4 DEF Contents

\* The ring of a sentinel that points at itself is empty.
LEMMA EmptyRing ==
  ASSUME NEW nx, NEW pv, NEW s, nx[s] = s, pv[s] = s
  PROVE  IsRing(nx, pv, s, <<>>)
<1>1. <<>> \in Seq(Items) /\ Len(<<>>) = 0 /\ DOMAIN <<>> = {} /\ IsInjective(<<>>)
  BY EmptySeq DEF IsInjective
<1>2. \A k \in 0..0 : Place(s, <<>>, k) = s /\ Place(s, <<>>, k + 1) = s
  BY <1>1 DEF Place
<1> QED
  BY <1>1, <1>2 DEF IsRing

LEMMA InitInv == Init => QueueInv
<1> SUFFICES ASSUME Init PROVE QueueInv
  OBVIOUS
<1> USE DEF Init
<1>1. TypeOK
  BY DEF TypeOK
<1>2. NoLeak /\ IsFiniteSet(heap)
  BY FS_EmptySet DEF NoLeak
<1>3. RingsOK /\ IterateOK
  BY DEF RingsOK, IterateOK
<1> QED
  BY <1>1, <1>2, <1>3 DEF QueueInv

\* queue_new: the new queue is empty.
LEMMA CreateInv ==
  ASSUME QueueInv, on = Null, NEW q \in Blocks \ heap, NEW s \in Blocks \ heap, q # s,
         heap' = heap \cup {q, s}, handles' = handles \cup {q},
         next' = [next EXCEPT ![s] = s], prev' = [prev EXCEPT ![s] = s],
         sentinal' = [sentinal EXCEPT ![q] = s], length' = [length EXCEPT ![q] = 0],
         Returns(q, Null)
  PROVE  QueueInv' /\ Contents(q)' = <<>> /\ \A r \in handles : Contents(r)' = Contents(r)
<1>1. /\ next \in Links /\ prev \in Links /\ length \in [Blocks -> Nat]
      /\ sentinal \in [Blocks -> Blocks \cup {Null}]
      /\ heap \subseteq Blocks /\ handles \subseteq heap
  BY DEF QueueInv, TypeOK, Links
<1>2. q \in Blocks /\ s \in Blocks /\ s \in Nodes /\ q \notin handles /\ s \notin Items \cup heap
  BY <1>1, QueueAssumption DEF Nodes
<1>3. /\ next'[s] = s /\ prev'[s] = s
      /\ \A x \in Items \cup heap : next'[x] = next[x] /\ prev'[x] = prev[x]
      /\ sentinal'[q] = s /\ length'[q] = 0
      /\ \A r \in handles : sentinal'[r] = sentinal[r] /\ length'[r] = length[r]
  BY <1>1, <1>2 DEF Nodes, Links
<1>4. IsRing(next', prev', s, <<>>) /\ Len(<<>>) = 0 /\ Range(<<>>) = {}
  <2>1. Len(<<>>) = 0 /\ DOMAIN <<>> = {}
    BY EmptySeq
  <2>2. Range(<<>>) = {}
    BY <2>1 DEF Range
  <2>3. IsRing(next', prev', s, <<>>)
    BY <1>3, EmptyRing
  <2> QED
    BY <2>1, <2>2, <2>3
<1>5. Contents(q)' = <<>>
  <2>1. \A b \in Blocks : \A e : IsRing(next', prev', b, e) => Walk(next', next'[b], b) = e
    BY RingContents
  <2> QED
    BY <1>2, <1>3, <1>4, <2>1 DEF Contents
<1>6. ASSUME NEW r \in handles
      PROVE  Contents(r)' = Contents(r) /\ IsRing(next', prev', sentinal[r], Contents(r))
  BY <1>3, Kept
<1>7. RingsOK'
  <2>1. ASSUME NEW r \in handles'
        PROVE  /\ sentinal'[r] \in heap' \ handles' /\ length'[r] = Len(Contents(r)')
               /\ IsRing(next', prev', sentinal'[r], Contents(r)')
    <3>1. CASE r = q
      BY <1>1, <1>2, <1>3, <1>4, <1>5, <3>1
    <3>2. CASE r \in handles
      <4>1. sentinal[r] \in heap \ handles /\ length[r] = Len(Contents(r))
        BY <3>2, QueueFacts
      <4>2. sentinal[r] # q /\ sentinal'[r] = sentinal[r] /\ length'[r] = length[r]
        BY <1>3, <3>2, <4>1
      <4>3. sentinal[r] \in heap' \ handles'
        BY <4>1, <4>2
      <4>4. Contents(r)' = Contents(r) /\ IsRing(next', prev', sentinal[r], Contents(r))
        BY <1>6, <3>2
      <4> QED
        BY <4>1, <4>2, <4>3, <4>4
    <3> QED
      BY <3>1, <3>2
  <2>2. ASSUME NEW r \in handles', NEW u \in handles', r # u
        PROVE  /\ sentinal'[r] # sentinal'[u]
               /\ Range(Contents(r)') \cap Range(Contents(u)') = {}
    <3>1. CASE r \in handles /\ u \in handles
      BY <1>3, <1>6, <2>2, <3>1, OtherFacts
    <3>2. CASE r = q /\ u \in handles
      <4>1. sentinal[u] \in heap
        BY <3>2, QueueFacts
      <4> QED
        BY <1>2, <1>3, <1>4, <1>5, <3>2, <4>1
    <3>3. CASE u = q /\ r \in handles
      <4>1. sentinal[r] \in heap
        BY <3>3, QueueFacts
      <4> QED
        BY <1>2, <1>3, <1>4, <1>5, <3>3, <4>1
    <3> QED
      BY <2>2, <3>1, <3>2, <3>3
  <2>3. /\ \A r \in handles' : (Contents(r))' = Contents(r)'
        /\ \A r \in handles' : Range(Contents(r))' = Range(Contents(r)')
    OBVIOUS
  <2> QED
    BY <2>1, <2>2, <2>3 DEF RingsOK
<1>8. NoLeak' /\ IsFiniteSet(heap)'
  <2>1. /\ heap = handles \cup {sentinal[r] : r \in handles}
        /\ Cardinality(heap) = 2 * Cardinality(handles) /\ IsFiniteSet(heap)
    BY DEF QueueInv, NoLeak
  <2>2. heap' = handles' \cup {sentinal'[r] : r \in handles'}
    BY <1>2, <1>3, <2>1
  <2>3. IsFiniteSet(handles) /\ Cardinality(handles) \in Nat
    BY <1>1, <2>1, FS_Subset, FS_CardinalityType
  <2>4. Cardinality(handles \cup {q}) = Cardinality(handles) + 1
    BY <1>2, <2>3, FS_AddElement
  <2>5. IsFiniteSet(heap \cup {q}) /\ Cardinality(heap \cup {q}) = Cardinality(heap) + 1
    BY <2>1, FS_AddElement
  <2>6. /\ IsFiniteSet((heap \cup {q}) \cup {s})
        /\ Cardinality((heap \cup {q}) \cup {s}) = Cardinality(heap \cup {q}) + 1
    <3>1. s \notin heap \cup {q}
      OBVIOUS
    <3> QED
      BY <2>5, <3>1, FS_AddElement
  <2>7. heap' = (heap \cup {q}) \cup {s}
    OBVIOUS
  <2>8. Cardinality(heap') = 2 * Cardinality(handles')
    <3>1. Cardinality(handles') = Cardinality(handles) + 1
      BY <2>4
    <3>2. Cardinality(heap') = Cardinality(heap \cup {q}) + 1
      BY <2>6, <2>7
    <3>3. Cardinality(heap \cup {q}) = 2 * Cardinality(handles) + 1
      BY <2>1, <2>5
    <3> QED
      BY <2>3, <3>1, <3>2, <3>3
  <2> QED
    BY <2>2, <2>6, <2>7, <2>8 DEF NoLeak
<1>9. TypeOK'
  BY <1>1, <1>2 DEF QueueInv, TypeOK, Links, Returns, iter, Nodes
<1>10. IterateOK'
  BY DEF IterateOK, Returns, iter
<1> QED
  BY <1>5, <1>6, <1>7, <1>8, <1>9, <1>10 DEF QueueInv

\* queue_free: the other queues stay as they are.
LEMMA FreedInv ==
  ASSUME QueueInv, on = Null, NEW q \in handles, length[q] = 0,
         heap' = heap \ {sentinal[q], q}, handles' = handles \ {q}, Returns(0, Null),
         UNCHANGED <<links, fields>>
  PROVE  QueueInv' /\ OthersKept(q)
<1>1. /\ next \in Links /\ prev \in Links /\ length \in [Blocks -> Nat]
      /\ sentinal \in [Blocks -> Blocks \cup {Null}]
      /\ heap \subseteq Blocks /\ handles \subseteq heap
  BY DEF QueueInv, TypeOK, Links
<1>2. UNCHANGED <<next, prev, sentinal, length>>
  BY DEF links, fields
<1>3. \A r \in handles : Contents(r)' = Contents(r)
  BY <1>2 DEF Contents
<1>4. RingsOK'
  <2>1. ASSUME NEW r \in handles, r # q
        PROVE  /\ sentinal[r] \in heap' \ handles' /\ length[r] = Len(Contents(r))
               /\ IsRing(next, prev, sentinal[r], Contents(r))
    <3>1. /\ sentinal[r] \in heap \ handles /\ length[r] = Len(Contents(r))
          /\ IsRing(next, prev, sentinal[r], Contents(r))
      BY QueueFacts
    <3>2. sentinal[r] # sentinal[q]
      BY <2>1, OtherFacts
    <3> QED
      BY <3>1, <3>2
  <2>2. \A r, u \in handles : r # u => /\ sentinal[r] # sentinal[u]
                                       /\ Range(Contents(r)) \cap Range(Contents(u)) = {}
    BY OtherFacts
  <2>3. handles' \subseteq handles /\ q \notin handles'
    OBVIOUS
  <2> QED
    BY <1>2, <1>3, <2>1, <2>2, <2>3 DEF RingsOK
<1>5. NoLeak' /\ IsFiniteSet(heap)'
  <2>1. /\ heap = handles \cup {sentinal[r] : r \in handles}
        /\ Cardinality(heap) = 2 * Cardinality(handles) /\ IsFiniteSet(heap)
    BY DEF QueueInv, NoLeak
  <2>2. sentinal[q] \in heap /\ sentinal[q] \notin handles /\ q \in heap
    BY <1>1, QueueFacts
  <2>3. \A r \in handles : r # q => sentinal[r] # sentinal[q]
    BY OtherFacts
  <2>4. heap' = handles' \cup {sentinal'[r] : r \in handles'}
    <3>1. \A r \in handles : sentinal[r] \notin handles
      BY QueueFacts
    <3>2. heap \ {sentinal[q], q} = (handles \ {q}) \cup {sentinal[r] : r \in handles \ {q}}
      BY <2>1, <2>2, <2>3, <3>1
    <3> QED
      BY <1>2, <3>2
  <2>5. IsFiniteSet(handles) /\ Cardinality(handles) \in Nat
    BY <1>1, <2>1, FS_Subset, FS_CardinalityType
  <2>6. Cardinality(handles \ {q}) = Cardinality(handles) - 1
    BY <2>5, FS_RemoveElement
  <2>7. IsFiniteSet(heap \ {q}) /\ Cardinality(heap \ {q}) = Cardinality(heap) - 1
    BY <2>1, <2>2, FS_RemoveElement
  <2>8. /\ IsFiniteSet((heap \ {q}) \ {sentinal[q]})
        /\ Cardinality((heap \ {q}) \ {sentinal[q]}) = Cardinality(heap \ {q}) - 1
    <3>1. sentinal[q] \in heap \ {q}
      BY <2>2
    <3> QED
      BY <2>7, <3>1, FS_RemoveElement
  <2>9. heap' = (heap \ {q}) \ {sentinal[q]}
    OBVIOUS
  <2>10. Cardinality(heap') = 2 * Cardinality(handles')
    <3>1. Cardinality(handles') = Cardinality(handles) - 1
      BY <2>6
    <3>2. Cardinality(heap') = Cardinality(heap \ {q}) - 1
      BY <2>8, <2>9
    <3>3. Cardinality(heap \ {q}) = 2 * Cardinality(handles) - 1
      BY <2>1, <2>7
    <3> QED
      BY <2>5, <3>1, <3>2, <3>3
  <2> QED
    BY <2>4, <2>8, <2>9, <2>10 DEF NoLeak
<1>6. TypeOK'
  <2>1. handles' \subseteq heap'
    BY <1>1, QueueFacts
  <2> QED
    BY <1>1, <1>2, <2>1 DEF QueueInv, TypeOK, Links, Returns, iter
<1>7. IterateOK'
  BY DEF IterateOK, Returns, iter
<1> QED
  BY <1>3, <1>4, <1>5, <1>6, <1>7 DEF QueueInv, OthersKept

-----------------------------------------------------------------------------
(* What queue_iterate has still to visit                                    *)

\* The items of c from place p on.
From(c, p) == [k \in 1..(Len(c) + 1 - p) |-> c[p + k - 1]]

LEMMA FromFacts ==
  ASSUME NEW c \in Seq(Items)
  PROVE  /\ From(c, 1) = c /\ From(c, Len(c) + 1) = <<>>
         /\ \A p \in 1..Len(c) :
              /\ From(c, p) # <<>> /\ Head(From(c, p)) = c[p]
              /\ Tail(From(c, p)) = From(c, p + 1)
              /\ From(RemoveAt(c, p), p) = From(c, p + 1)
<1>1. Len(c) \in Nat /\ DOMAIN c = 1..Len(c) /\ c = [k \in 1..Len(c) |-> c[k]]
      /\ \A k \in 1..Len(c) : c[k] \in Items
  BY LenProperties, ElementOfSeq
<1>2. From(c, 1) = c
  <2>1. Len(c) + 1 - 1 = Len(c) /\ \A k \in 1..Len(c) : 1 + k - 1 = k
    BY <1>1
  <2>2. From(c, 1) = [k \in 1..Len(c) |-> c[k]]
    BY <2>1 DEF From
  <2> QED
    BY <1>1, <2>2
<1>3. ASSUME NEW p \in 1..(Len(c) + 1)
      PROVE  From(c, p) \in Seq(Items) /\ Len(From(c, p)) = Len(c) + 1 - p
  <2>1. \A k \in 1..(Len(c) + 1 - p) : c[p + k - 1] \in Items
    <3>1. TAKE k \in 1..(Len(c) + 1 - p)
    <3>2. p + k - 1 \in 1..Len(c)
      BY <1>1
    <3> QED
      BY <1>1, <3>2
  <2>2. Len(c) + 1 - p \in Nat
    BY <1>1
  <2>3. From(c, p) \in [1..(Len(c) + 1 - p) -> Items]
    BY <2>1 DEF From
  <2> QED
    <3>1. From(c, p) \in Seq(Items) /\ DOMAIN From(c, p) = 1..(Len(c) + 1 - p)
      BY <2>2, <2>3, SeqDef
    <3>2. Len(From(c, p)) \in Nat /\ DOMAIN From(c, p) = 1..Len(From(c, p))
      BY <3>1, LenProperties
    <3>3. \A m, n \in Nat : 1..m = 1..n => m = n
      <4>1. ASSUME NEW m \in Nat, NEW n \in Nat, m < n PROVE 1..m # 1..n
        <5>1. n \in 1..n /\ n \notin 1..m
          BY <4>1
        <5> QED
          BY <5>1
      <4> QED
        BY <4>1
    <3> QED
      BY <2>2, <3>1, <3>2, <3>3
<1>4. From(c, Len(c) + 1) = <<>>
  <2>1. Len(c) + 1 \in 1..(Len(c) + 1) /\ Len(c) + 1 - (Len(c) + 1) = 0
    BY <1>1
  <2> QED
    BY <1>3, <2>1, EmptySeq
<1>5. ASSUME NEW p \in 1..Len(c)
      PROVE  /\ From(c, p) # <<>> /\ Head(From(c, p)) = c[p]
             /\ Tail(From(c, p)) = From(c, p + 1)
             /\ From(RemoveAt(c, p), p) = From(c, p + 1)
  <2> DEFINE f == From(c, p)
             g == From(c, p + 1)
  <2>1. /\ f \in Seq(Items) /\ Len(f) = Len(c) + 1 - p /\ Len(f) >= 1
        /\ g \in Seq(Items) /\ Len(g) = Len(c) - p
    <3>1. p \in 1..(Len(c) + 1) /\ p + 1 \in 1..(Len(c) + 1)
          /\ Len(c) + 1 - (p + 1) = Len(c) - p /\ Len(c) + 1 - p >= 1
      BY <1>1
    <3> QED
      BY <1>3, <3>1
  <2>2. /\ \A k \in 1..(Len(c) + 1 - p) : f[k] = c[p + k - 1]
        /\ \A k \in 1..(Len(c) - p) : g[k] = c[p + k]
    <3>1. Len(c) + 1 - (p + 1) = Len(c) - p /\ \A k \in Int : p + 1 + k - 1 = p + k
      BY <1>1
    <3> QED
      BY <3>1 DEF From
  <2> HIDE DEF f, g
  <2>3. f # <<>>
    BY <2>1, EmptySeq
  <2>4. Head(f) = c[p]
    <3>1. Head(f) = f[1] /\ 1 \in 1..(Len(c) + 1 - p) /\ p + 1 - 1 = p
      BY <1>1, <2>1, <2>3, HeadTailProperties
    <3> QED
      BY <2>2, <3>1
  <2>5. Tail(f) = g
    <3>1. /\ Tail(f) \in Seq(Items) /\ Len(Tail(f)) = Len(f) - 1
          /\ \A k \in 1..Len(Tail(f)) : Tail(f)[k] = f[k + 1]
      BY <2>1, <2>3, HeadTailProperties
    <3>2. Len(Tail(f)) = Len(g)
      BY <1>1, <2>1, <3>1
    <3>3. ASSUME NEW k \in 1..Len(Tail(f)) PROVE Tail(f)[k] = g[k]
      <4>1. k \in 1..(Len(c) - p) /\ k + 1 \in 1..(Len(c) + 1 - p) /\ p + (k + 1) - 1 = p + k
        BY <1>1, <2>1, <3>1
      <4> QED
        BY <2>2, <3>1, <4>1
    <3> QED
      BY <2>1, <3>1, <3>2, <3>3, SeqEqual
  <2>6. From(RemoveAt(c, p), p) = g
    <3> DEFINE d == RemoveAt(c, p)
    <3>1. d \in Seq(Items) /\ Len(d) = Len(c) - 1 /\ \A k \in (p + 1)..Len(c) : d[k - 1] = c[k]
      BY RemoveAtFacts
    <3> HIDE DEF d
    <3>2. From(d, p) = [k \in 1..(Len(c) - p) |-> d[p + k - 1]]
      <4>1. Len(d) + 1 - p = Len(c) - p
        BY <1>1, <3>1
      <4> QED
        BY <4>1 DEF From
    <3>3. ASSUME NEW k \in 1..(Len(c) - p) PROVE d[p + k - 1] = c[p + k]
      <4>1. p + k \in (p + 1)..Len(c) /\ (p + k) - 1 = p + k - 1
        BY <1>1
      <4> QED
        BY <3>1, <4>1
    <3>4. From(d, p) = [k \in 1..(Len(c) - p) |-> c[p + k]]
      BY <3>2, <3>3
    <3>5. g = [k \in 1..(Len(c) - p) |-> c[p + k]]
      <4>1. Len(c) + 1 - (p + 1) = Len(c) - p /\ \A k \in 1..(Len(c) - p) : p + 1 + k - 1 = p + k
        BY <1>1
      <4> QED
        BY <4>1 DEF From, g
    <3> QED
      BY <3>4, <3>5 DEF d
  <2> QED
    BY <2>3, <2>4, <2>5, <2>6 DEF f, g
<1> QED
  BY <1>2, <1>4, <1>5

\* Dequeuing takes the first place.
LEMMA TailFacts ==
  ASSUME NEW c \in Seq(Items), c # <<>>
  PROVE  RemoveAt(c, 1) = Tail(c) /\ Head(c) = c[1] /\ 1 \in 1..Len(c)
<1>1. 1 \in 1..Len(c)
  BY EmptySeq, LenProperties
<1>2. Tail(c) = From(c, 2) /\ From(RemoveAt(c, 1), 1) = From(c, 2) /\ Head(c) = c[1]
  <2>1. 1 + 1 = 2
    OBVIOUS
  <2> QED
    BY <1>1, <2>1, FromFacts
<1>3. RemoveAt(c, 1) \in Seq(Items)
  BY <1>1, RemoveAtFacts
<1>4. From(RemoveAt(c, 1), 1) = RemoveAt(c, 1)
  BY <1>3, FromFacts
<1> QED
  BY <1>1, <1>2, <1>4

\* A queue of the abstract specification is the items of one here; what is left of
\* an iteration is the items from its place on.
LEMMA RestFacts ==
  ASSUME QueueInv, NEW q \in handles
  PROVE  \A p \in 1..(Len(Contents(q)) + 1) :
           Walk(next, Place(sentinal[q], Contents(q), p), sentinal[q]) = From(Contents(q), p)
<1>1. /\ sentinal[q] \in Blocks /\ Contents(q) \in Seq(Items) /\ IsInjective(Contents(q))
      /\ IsRing(next, prev, sentinal[q], Contents(q))
  BY QueueFacts
<1>2. \A k \in 0..Len(Contents(q)) :
        next[Place(sentinal[q], Contents(q), k)] = Place(sentinal[q], Contents(q), k + 1)
  BY <1>1 DEF IsRing
<1>3. \E c, s : c = Contents(q) /\ s = sentinal[q]
  OBVIOUS
<1>4. PICK c, s : c = Contents(q) /\ s = sentinal[q]
  BY <1>3
<1>5. ASSUME NEW p \in 1..(Len(c) + 1)
      PROVE  Walk(next, Place(s, c, p), s) = From(c, p)
  <2>1. s \in Blocks /\ c \in Seq(Items) /\ IsInjective(c)
    BY <1>1, <1>4
  <2>2. \A k \in 0..Len(c) : next[Place(s, c, k)] = Place(s, c, k + 1)
    BY <1>2, <1>4
  <2>3. Walk(next, Place(s, c, p), s) = [k \in 1..(Len(c) + 1 - p) |-> c[p + k - 1]]
    BY <2>1, <2>2, WalkFacts
  <2> QED
    BY <2>3 DEF From
<1> QED
  BY <1>4, <1>5

\* The iteration stands at a place of its queue, the sentinel's when it is over.
LEMMA CurFacts ==
  ASSUME QueueInv, on # Null
  PROVE  /\ on \in handles
         /\ \E p \in 1..(Len(Contents(on)) + 1) :
              /\ cur = Place(sentinal[on], Contents(on), p)
              /\ cur # sentinal[on] <=> p \in 1..Len(Contents(on))
<1>1. on \in handles
  BY DEF QueueInv, TypeOK
<1>2. cur \in Range(Contents(on)) \cup {sentinal[on]}
  BY DEF QueueInv, IterateOK
<1>3. /\ Len(Contents(on)) \in Nat /\ DOMAIN Contents(on) = 1..Len(Contents(on))
      /\ Range(Contents(on)) = {Contents(on)[k] : k \in 1..Len(Contents(on))}
      /\ Range(Contents(on)) \subseteq Items /\ sentinal[on] \notin Items
  BY <1>1, QueueFacts
<1>4. CASE cur = sentinal[on]
  <2>1. Len(Contents(on)) + 1 \in 1..(Len(Contents(on)) + 1) /\ Len(Contents(on)) + 1 \notin 1..Len(Contents(on))
    BY <1>3
  <2>2. cur = Place(sentinal[on], Contents(on), Len(Contents(on)) + 1)
    BY <1>3, <1>4, <2>1 DEF Place
  <2> QED
    BY <1>1, <1>4, <2>1, <2>2
<1>5. CASE cur # sentinal[on]
  <2>1. PICK p \in 1..Len(Contents(on)) : cur = Contents(on)[p]
    BY <1>2, <1>3, <1>5
  <2>2. cur = Place(sentinal[on], Contents(on), p) /\ p \in 1..(Len(Contents(on)) + 1)
    BY <1>3, <2>1 DEF Place
  <2> QED
    BY <1>1, <1>5, <2>1, <2>2
<1> QED
  BY <1>4, <1>5

-----------------------------------------------------------------------------
(* Every step keeps the invariant and is a step of AbstractQueues           *)

LEMMA AbstractState ==
  /\ AQ!Queues = handles
  /\ AQ!Linked = Linked
<1>1. \A f : AQ!Range(f) = Range(f)
  BY DEF AQ!Range, Range
<1> QED
  BY <1>1 DEF AQ!Queues, AQ!Linked, Linked

\* A call that makes d of the items of q.
LEMMA AbstractBecomes ==
  ASSUME NEW q \in handles, on = Null, NEW d, NEW r, NEW x,
         Contents(q)' = d, OthersKept(q), handles' = handles, Returns(r, x)
  PROVE  AQ!Becomes(q, d, r, x)
<1>1. on' = on /\ ret' = r /\ item' = x
  BY DEF Returns, iter
<1>2. [u \in handles |-> Contents(u)]' = [[u \in handles |-> Contents(u)] EXCEPT ![q] = d]
  <2>1. [u \in handles |-> Contents(u)]' = [u \in handles |-> Contents(u)']
    OBVIOUS
  <2>2. \A u \in handles : Contents(u)' = IF u = q THEN d ELSE Contents(u)
    BY DEF OthersKept
  <2>3. [[u \in handles |-> Contents(u)] EXCEPT ![q] = d] = [u \in handles |-> IF u = q THEN d ELSE Contents(u)]
    OBVIOUS
  <2> QED
    BY <2>1, <2>2, <2>3
<1> QED
  BY <1>1, <1>2 DEF AQ!Becomes

\* A call that changes no queue.
LEMMA AbstractSame ==
  ASSUME QueueInv, on = Null, NEW r, NEW x, r \in {-1} \cup Nat, x \in Items \cup {Null},
         Returns(r, x), UNCHANGED <<links, fields, heap, handles>>
  PROVE  /\ QueueInv'
         /\ [u \in handles |-> Contents(u)]' = [u \in handles |-> Contents(u)]
         /\ on' = on /\ ret' = r /\ item' = x
<1>1. UNCHANGED iter /\ ret' = r /\ item' = x
  BY DEF Returns
<1>2. QueueInv'
  BY <1>1, UntouchedInv
<1>3. \A u \in handles : Contents(u)' = Contents(u)
  BY Untouched
<1> QED
  BY <1>1, <1>2, <1>3 DEF iter

LEMMA RefuseStep ==
  ASSUME QueueInv, Refuse
  PROVE  QueueInv' /\ AQ!Refuse(Null)
<1>1. /\ on = Null /\ Returns(-1, Null) /\ UNCHANGED <<links, fields, heap, handles>>
  BY DEF Refuse
<1>2. /\ QueueInv' /\ on' = on /\ ret' = -1 /\ item' = Null
      /\ [u \in handles |-> Contents(u)]' = [u \in handles |-> Contents(u)]
  BY <1>1, AbstractSame
<1> QED
  BY <1>1, <1>2 DEF AQ!Refuse

LEMMA NewStep ==
  ASSUME QueueInv, New
  PROVE  QueueInv' /\ AQ!New
<1>1. CASE on = Null /\ Create
  <2>1. PICK q \in Blocks \ heap, s \in Blocks \ heap :
          /\ q # s
          /\ heap' = heap \cup {q, s} /\ handles' = handles \cup {q}
          /\ next' = [next EXCEPT ![s] = s] /\ prev' = [prev EXCEPT ![s] = s]
          /\ sentinal' = [sentinal EXCEPT ![q] = s] /\ length' = [length EXCEPT ![q] = 0]
          /\ Returns(q, Null)
    BY <1>1 DEF Create
  <2>2. QueueInv' /\ Contents(q)' = <<>> /\ \A r \in handles : Contents(r)' = Contents(r)
    BY <1>1, <2>1, CreateInv
  <2>3. q \notin handles /\ on' = on /\ ret' = q /\ item' = Null
    BY <2>1 DEF QueueInv, TypeOK, Returns, iter
  <2>4. [u \in handles |-> Contents(u)]' =
          [r \in handles \cup {q} |-> IF r = q THEN <<>> ELSE [u \in handles |-> Contents(u)][r]]
    <3>1. [u \in handles |-> Contents(u)]' = [u \in handles \cup {q} |-> Contents(u)']
      BY <2>1
    <3>2. \A u \in handles \cup {q} :
            Contents(u)' = IF u = q THEN <<>> ELSE [v \in handles |-> Contents(v)][u]
      BY <2>2, <2>3
    <3> QED
      BY <3>1, <3>2
  <2> QED
    BY <1>1, <2>2, <2>3, <2>4, AbstractState DEF AQ!New
<1>2. CASE /\ on = Null /\ (NoQueue \/ NoSentinal) /\ Returns(Null, Null)
           /\ UNCHANGED <<links, fields, handles>>
  <2>1. UNCHANGED iter /\ ret' = Null /\ item' = Null
    BY <1>2 DEF Returns
  <2>2. heap' = heap
    BY <1>2 DEF NoQueue, NoSentinal
  <2>3. QueueInv'
    BY <1>2, <2>1, <2>2, UntouchedInv
  <2>4. \A u \in handles : Contents(u)' = Contents(u)
    BY <1>2, <2>2, Untouched
  <2>5. [u \in handles |-> Contents(u)]' = [u \in handles |-> Contents(u)]
    BY <1>2, <2>4
  <2> QED
    BY <1>2, <2>1, <2>3, <2>5 DEF AQ!New, iter
<1> QED
  BY <1>1, <1>2 DEF New

LEMMA PrependStep ==
  ASSUME QueueInv, NEW q \in handles, NEW i \in Items, Prepend(q, i)
  PROVE  QueueInv' /\ AQ!Prepend(q, i)
<1>1. /\ on = Null /\ i \notin Linked /\ LinkBefore(q, i, next[sentinal[q]])
      /\ Returns(0, Null) /\ handles' = handles
  BY DEF Prepend, LinkBefore
<1>2. next[sentinal[q]] = Place(sentinal[q], Contents(q), 0 + 1) /\ 0 \in 0..Len(Contents(q))
  <2>1. \A s \in Blocks : \A c : IsRing(next, prev, s, c) => next[s] = Place(s, c, 1)
    BY RingContents
  <2>2. next[sentinal[q]] = Place(sentinal[q], Contents(q), 1)
    BY <2>1, QueueFacts
  <2> QED
    BY <2>2, QueueFacts
<1>3. Inserted(Contents(q), 0, i, <<i>> \o Contents(q))
  <2>1. \A c \in Seq(Items) : Inserted(c, 0, i, <<i>> \o c)
    BY ConsFacts DEF Inserted
  <2> QED
    BY <2>1, QueueFacts
<1>4. QueueInv' /\ Contents(q)' = <<i>> \o Contents(q) /\ OthersKept(q)
  BY <1>1, <1>2, <1>3, LinkedInv
<1>5. AQ!Becomes(q, <<i>> \o Contents(q), 0, Null)
  BY <1>1, <1>4, AbstractBecomes
<1> QED
  BY <1>1, <1>4, <1>5, AbstractState DEF AQ!Prepend

LEMMA AppendStep ==
  ASSUME QueueInv, NEW q \in handles, NEW i \in Items, QueueAppend(q, i)
  PROVE  QueueInv' /\ AQ!Append_(q, i)
<1>1. /\ on = Null /\ i \notin Linked /\ LinkBefore(q, i, sentinal[q])
      /\ Returns(0, Null) /\ handles' = handles
  BY DEF QueueAppend, LinkBefore
<1>2. /\ sentinal[q] = Place(sentinal[q], Contents(q), Len(Contents(q)) + 1)
      /\ Len(Contents(q)) \in 0..Len(Contents(q))
  BY QueueFacts, PlaceFacts
<1>3. Inserted(Contents(q), Len(Contents(q)), i, Append(Contents(q), i))
  <2>1. \A c \in Seq(Items) : Inserted(c, Len(c), i, Append(c, i))
    BY AppendProperties, LenProperties DEF Inserted
  <2> QED
    BY <2>1, QueueFacts
<1>4. QueueInv' /\ Contents(q)' = Append(Contents(q), i) /\ OthersKept(q)
  BY <1>1, <1>2, <1>3, LinkedInv
<1>5. AQ!Becomes(q, Append(Contents(q), i), 0, Null)
  BY <1>1, <1>4, AbstractBecomes
<1> QED
  BY <1>1, <1>4, <1>5, AbstractState DEF AQ!Append_

\* A call that unlinks the item at place p and returns.
LEMMA UnlinkStep ==
  ASSUME QueueInv, NEW q \in handles, NEW p \in 1..Len(Contents(q)), on = Null,
         Unlink(q, Contents(q)[p]), NEW x \in Items \cup {Null}, Returns(0, x)
  PROVE  QueueInv' /\ AQ!Becomes(q, RemoveAt(Contents(q), p), 0, x)
<1>1. /\ Contents(q)' = RemoveAt(Contents(q), p) /\ OthersKept(q)
      /\ RingsOK' /\ NoLeak' /\ IsFiniteSet(heap)'
      /\ next' \in Links /\ prev' \in Links /\ length' \in [Blocks -> Nat]
      /\ UNCHANGED <<sentinal, heap, handles>>
  BY Unlinked
<1>2. on' = on /\ cur' = cur /\ ret' = 0 /\ item' = x
  BY DEF Returns, iter
<1>3. TypeOK' /\ IterateOK'
  BY <1>1, <1>2 DEF QueueInv, TypeOK, Links, IterateOK
<1> QED
  BY <1>1, <1>3, AbstractBecomes DEF QueueInv

\* The library operators are the same there as here.
LEMMA SameOperators ==
  /\ \A f : AQ!Range(f) = Range(f)
  /\ \A c, x : AQ!RemoveFirst(c, x) = RemoveFirst(c, x)
<1>1. \A f : AQ!Range(f) = Range(f)
  BY DEF AQ!Range, Range
<1>2. \A S : AQ!Min(S) = Min(S)
  BY DEF AQ!Min, Min
<1>3. \A c, x : AQ!SelectInSeq(c, LAMBDA v : v = x) = SelectInSeq(c, LAMBDA v : v = x)
  BY <1>2 DEF AQ!SelectInSeq, SelectInSeq
<1>4. \A c, k : AQ!RemoveAt(c, k) = RemoveAt(c, k)
  BY DEF AQ!RemoveAt, RemoveAt
<1>5. \A c, x : AQ!RemoveFirst(c, x) = RemoveFirst(c, x)
  BY <1>3, <1>4 DEF AQ!RemoveFirst, RemoveFirst
<1> QED
  BY <1>1, <1>5

LEMMA DequeueStep ==
  ASSUME QueueInv, NEW q \in handles, Dequeue(q)
  PROVE  QueueInv' /\ AQ!Dequeue(q)
<1>1. /\ Contents(q) \in Seq(Items) /\ length[q] = Len(Contents(q)) /\ sentinal[q] \in Blocks
      /\ IsRing(next, prev, sentinal[q], Contents(q))
      /\ Contents(q) = <<>> <=> Len(Contents(q)) = 0
      /\ DOMAIN Contents(q) = 1..Len(Contents(q))
  BY QueueFacts
<1>2. [u \in handles |-> Contents(u)][q] = Contents(q)
  OBVIOUS
<1>3. CASE Contents(q) = <<>>
  <2>1. Refuse
    BY <1>1, <1>3 DEF Dequeue
  <2>2. QueueInv' /\ AQ!Refuse(Null)
    BY <2>1, RefuseStep
  <2> QED
    BY <1>2, <1>3, <2>2 DEF AQ!Dequeue
<1>4. CASE Contents(q) # <<>>
  <2>1. on = Null /\ Unlink(q, next[sentinal[q]]) /\ Returns(0, next[sentinal[q]])
    BY <1>1, <1>4 DEF Dequeue
  <2>2. /\ RemoveAt(Contents(q), 1) = Tail(Contents(q)) /\ Head(Contents(q)) = Contents(q)[1]
        /\ 1 \in 1..Len(Contents(q))
    <3>1. \A c \in Seq(Items) : c # <<>> => RemoveAt(c, 1) = Tail(c) /\ Head(c) = c[1] /\ 1 \in 1..Len(c)
      BY TailFacts
    <3> QED
      BY <1>1, <1>4, <3>1
  <2>3. next[sentinal[q]] = Contents(q)[1] /\ Contents(q)[1] \in Items
    <3>1. \A s \in Blocks : \A c : IsRing(next, prev, s, c) => next[s] = Place(s, c, 1)
      BY RingContents
    <3>2. next[sentinal[q]] = Place(sentinal[q], Contents(q), 1)
      BY <1>1, <3>1
    <3> QED
      BY <1>1, <2>2, <3>2, ElementOfSeq DEF Place
  <2>4. Unlink(q, Contents(q)[1]) /\ Returns(0, Contents(q)[1])
    BY <2>1, <2>3
  <2>5. QueueInv' /\ AQ!Becomes(q, RemoveAt(Contents(q), 1), 0, Contents(q)[1])
    BY <2>1, <2>2, <2>3, <2>4, UnlinkStep
  <2> QED
    BY <1>2, <1>4, <2>2, <2>5 DEF AQ!Dequeue
<1> QED
  BY <1>3, <1>4

\* queue_delete and queue_delete_fast of an item that is on the queue.
LEMMA DeletedStep ==
  ASSUME QueueInv, NEW q \in handles, NEW i \in Range(Contents(q)), on = Null,
         Unlink(q, i), Returns(0, Null)
  PROVE  QueueInv' /\ AQ!Delete(q, i)
<1>1. /\ Contents(q) \in Seq(Items) /\ IsInjective(Contents(q))
      /\ Range(Contents(q)) = {Contents(q)[k] : k \in 1..Len(Contents(q))}
  BY QueueFacts
<1>2. PICK p \in 1..Len(Contents(q)) : i = Contents(q)[p]
  BY <1>1
<1>3. QueueInv' /\ AQ!Becomes(q, RemoveAt(Contents(q), p), 0, Null)
  <2>1. Unlink(q, Contents(q)[p])
    BY <1>2
  <2> QED
    BY <2>1, UnlinkStep
<1>4. RemoveFirst(Contents(q), i) = RemoveAt(Contents(q), p)
  <2>1. \A c \in Seq(Items) : IsInjective(c) =>
          \A k \in 1..Len(c) : RemoveFirst(c, c[k]) = RemoveAt(c, k)
    BY RemoveFirstFacts
  <2> QED
    BY <1>1, <1>2, <2>1
<1>5. [u \in handles |-> Contents(u)][q] = Contents(q)
  OBVIOUS
<1> QED
  BY <1>3, <1>4, <1>5, SameOperators DEF AQ!Delete

LEMMA DeleteStep ==
  ASSUME QueueInv, NEW q \in handles, NEW i \in Items, Delete(q, i)
  PROVE  QueueInv' /\ AQ!Delete(q, i)
<1>1. CASE i \in Range(Contents(q))
  <2>1. on = Null /\ Unlink(q, i) /\ Returns(0, Null)
    BY <1>1 DEF Delete
  <2> QED
    BY <1>1, <2>1, DeletedStep
<1>2. CASE i \notin Range(Contents(q))
  <2>1. QueueInv' /\ AQ!Refuse(Null)
    BY <1>2, RefuseStep DEF Delete
  <2>2. [u \in handles |-> Contents(u)][q] = Contents(q)
    OBVIOUS
  <2> QED
    BY <1>2, <2>1, <2>2, SameOperators DEF AQ!Delete
<1> QED
  BY <1>1, <1>2

LEMMA FindStep ==
  ASSUME QueueInv, NEW q \in handles, NEW s \in SUBSET Items, Find(q, s)
  PROVE  QueueInv' /\ AQ!Find(q, s)
<1> DEFINE k == SelectInSeq(Contents(q), LAMBDA n : n \in s)
<1>1. /\ Contents(q) \in Seq(Items) /\ DOMAIN Contents(q) = 1..Len(Contents(q))
      /\ Len(Contents(q)) \in Nat
  BY QueueFacts
<1>2. AQ!SelectInSeq([u \in handles |-> Contents(u)][q], LAMBDA n : n \in s) = k
  <2>1. [u \in handles |-> Contents(u)][q] = Contents(q)
    OBVIOUS
  <2>2. \A S : AQ!Min(S) = Min(S)
    BY DEF AQ!Min, Min
  <2> QED
    BY <2>1, <2>2 DEF AQ!SelectInSeq, SelectInSeq
<1>3. k = 0 \/ k \in 1..Len(Contents(q))
  <2> DEFINE I == {j \in 1..Len(Contents(q)) : Contents(q)[j] \in s}
  <2>1. I # {} => Min(I) \in I
    <3>1. I \in SUBSET Nat
      BY <1>1
    <3> HIDE DEF I
    <3> QED
      BY <3>1, LeastNat
  <2>2. k = IF I = {} THEN 0 ELSE Min(I)
    BY DEF SelectInSeq
  <2> QED
    BY <2>1, <2>2
<1>4. CASE k = 0
  <2>1. Refuse
    BY <1>4 DEF Find
  <2> QED
    BY <1>2, <1>4, <2>1, RefuseStep DEF AQ!Find
<1>5. CASE k # 0
  <2>1. on = Null /\ Returns(0, Contents(q)[k]) /\ UNCHANGED <<links, fields, heap, handles>>
    BY <1>5 DEF Find
  <2>2. Contents(q)[k] \in Items
    BY <1>1, <1>3, <1>5, ElementOfSeq
  <2> HIDE DEF k
  <2>3. /\ QueueInv' /\ [u \in handles |-> Contents(u)]' = [u \in handles |-> Contents(u)]
        /\ on' = on /\ ret' = 0 /\ item' = Contents(q)[k]
    BY <2>1, <2>2, AbstractSame
  <2>4. AQ!Becomes(q, Contents(q), 0, Contents(q)[k])
    BY <2>1, <2>3 DEF AQ!Becomes
  <2> QED
    BY <1>2, <1>5, <2>3, <2>4 DEF AQ!Find
<1> QED
  BY <1>4, <1>5

LEMMA LengthStep ==
  ASSUME QueueInv, NEW q \in handles, Length(q)
  PROVE  QueueInv' /\ AQ!Length(q)
<1>1. /\ Len(Contents(q)) \in Nat /\ length[q] = Len(Contents(q))
  BY QueueFacts
<1>2. on = Null /\ Returns(Len(Contents(q)), Null) /\ UNCHANGED <<links, fields, heap, handles>>
  BY <1>1 DEF Length
<1>3. /\ QueueInv' /\ [u \in handles |-> Contents(u)]' = [u \in handles |-> Contents(u)]
      /\ on' = on /\ ret' = Len(Contents(q)) /\ item' = Null
  BY <1>1, <1>2, AbstractSame
<1> QED
  BY <1>2, <1>3 DEF AQ!Length, AQ!Becomes

LEMMA FreeStep ==
  ASSUME QueueInv, NEW q \in handles, Free(q)
  PROVE  QueueInv' /\ AQ!Free(q)
<1>1. /\ length[q] = Len(Contents(q))
      /\ Contents(q) = <<>> <=> Len(Contents(q)) = 0
  BY QueueFacts
<1>2. [u \in handles |-> Contents(u)][q] = Contents(q)
  OBVIOUS
<1>3. CASE Contents(q) # <<>>
  <2>1. QueueInv' /\ AQ!Refuse(Null)
    BY <1>1, <1>3, RefuseStep DEF Free
  <2> QED
    BY <1>2, <1>3, <2>1 DEF AQ!Free
<1>4. CASE Contents(q) = <<>>
  <2>1. /\ on = Null /\ length[q] = 0 /\ heap' = heap \ {sentinal[q], q}
        /\ handles' = handles \ {q} /\ Returns(0, Null) /\ UNCHANGED <<links, fields>>
    BY <1>1, <1>4 DEF Free
  <2>2. QueueInv' /\ OthersKept(q)
    BY <2>1, FreedInv
  <2>3. [u \in handles |-> Contents(u)]' = [r \in handles \ {q} |-> [u \in handles |-> Contents(u)][r]]
    BY <2>1, <2>2 DEF OthersKept
  <2>4. on' = on /\ ret' = 0 /\ item' = Null
    BY <2>1 DEF Returns, iter
  <2> QED
    BY <1>2, <1>4, <2>1, <2>2, <2>3, <2>4, AbstractState DEF AQ!Free
<1> QED
  BY <1>3, <1>4

LEMMA IterateCallStep ==
  ASSUME QueueInv, NEW q \in handles, IterateCall(q)
  PROVE  QueueInv' /\ AQ!IterateCall(q)
<1>1. /\ on = Null /\ on' = q /\ cur' = next[sentinal[q]] /\ item' = Null /\ ret' = ret
      /\ UNCHANGED <<links, fields, heap, handles>>
      /\ UNCHANGED <<next, prev, sentinal, length, heap, handles>>
  BY DEF IterateCall, links, fields
<1>2. /\ \A r \in handles : Contents(r)' = Contents(r)
      /\ RingsOK' /\ NoLeak' /\ IsFiniteSet(heap)'
  BY <1>1, Untouched
<1>3. /\ Contents(q) \in Seq(Items) /\ sentinal[q] \in Blocks
      /\ DOMAIN Contents(q) = 1..Len(Contents(q)) /\ Len(Contents(q)) \in Nat
      /\ IsRing(next, prev, sentinal[q], Contents(q))
      /\ Range(Contents(q)) = {Contents(q)[k] : k \in 1..Len(Contents(q))}
      /\ Range(Contents(q)) \subseteq Items
  BY QueueFacts
<1>4. next[sentinal[q]] = Place(sentinal[q], Contents(q), 1)
  <2>1. \A s \in Blocks : \A c : IsRing(next, prev, s, c) => next[s] = Place(s, c, 1)
    BY RingContents
  <2> QED
    BY <1>3, <2>1
<1>5. cur' \in Range(Contents(q)) \cup {sentinal[q]}
  BY <1>1, <1>3, <1>4 DEF Place
<1>6. IterateOK'
  <2>1. IterateOK' = (on' # Null => cur' \in Range(Contents(on)') \cup {sentinal'[on']})
    BY DEF IterateOK
  <2>2. Contents(on)' = Contents(q)'
    BY <1>1 DEF Contents
  <2>3. Contents(q)' = Contents(q)
    BY <1>2
  <2> QED
    BY <1>1, <1>5, <2>1, <2>2, <2>3
<1>7. TypeOK'
  <2>1. cur' \in Nodes
    BY <1>3, <1>5 DEF Nodes
  <2> QED
    BY <1>1, <2>1 DEF QueueInv, TypeOK
<1>8. (IF on = Null THEN <<>> ELSE Walk(next, cur, sentinal[on]))' = Contents(q)
  <2>1. q # Null
    BY QueueAssumption DEF QueueInv, TypeOK
  <2>2. Walk(next', cur', sentinal'[on']) = Contents(q)
    BY <1>1 DEF Contents
  <2> QED
    BY <1>1, <2>1, <2>2
<1>9. [u \in handles |-> Contents(u)]' = [u \in handles |-> Contents(u)]
  BY <1>1, <1>2
<1>10. AQ!IterateCall(q)
  BY <1>1, <1>8, <1>9 DEF AQ!IterateCall
<1> QED
  BY <1>2, <1>6, <1>7, <1>10 DEF QueueInv

LEMMA IterateVisitStep ==
  ASSUME QueueInv, IterateVisit
  PROVE  QueueInv' /\ AQ!IterateVisit
<1> DEFINE visits == [u \in handles |-> Contents(u)]
           rest == IF on = Null THEN <<>> ELSE Walk(next, cur, sentinal[on])
<1>1. /\ on # Null /\ cur # sentinal[on] /\ on \in handles
      /\ item' = cur /\ cur' = next'[cur] /\ on' = on /\ ret' = ret
  BY DEF IterateVisit, QueueInv, TypeOK
<1>2. \E q, c, s : q = on /\ c = Contents(on) /\ s = sentinal[on]
  OBVIOUS
<1>3. PICK q, c, s : q = on /\ c = Contents(on) /\ s = sentinal[on]
  BY <1>2
<1>4. /\ c \in Seq(Items) /\ IsInjective(c) /\ DOMAIN c = 1..Len(c) /\ Len(c) \in Nat
      /\ s \in Blocks /\ s \in heap \ handles /\ IsRing(next, prev, s, c)
      /\ \A k \in 1..Len(c) : c[k] \in Items
      /\ q \in handles /\ c = Contents(q) /\ s = sentinal[q]
  BY <1>1, <1>3, QueueFacts, ElementOfSeq
<1>5. PICK p \in 1..Len(c) : cur = Place(s, c, p)
  <2>1. \E p \in 1..(Len(c) + 1) : cur = Place(s, c, p) /\ (cur # s <=> p \in 1..Len(c))
    BY <1>1, <1>3, CurFacts
  <2> QED
    BY <1>1, <1>3, <2>1
<1>6. cur = c[p] /\ cur \in Items
  BY <1>4, <1>5 DEF Place
<1>7. rest = From(c, p)
  <2>1. p \in 1..(Len(c) + 1)
    BY <1>4
  <2> QED
    BY <1>1, <1>3, <1>4, <1>5, <2>1, RestFacts
<1>8. From(c, p) # <<>> /\ Head(From(c, p)) = c[p] /\ Tail(From(c, p)) = From(c, p + 1)
      /\ From(RemoveAt(c, p), p) = From(c, p + 1)
  BY <1>4, FromFacts
<1>9. CASE UNCHANGED <<links, fields, heap, handles>>
  <2>1. UNCHANGED <<next, prev, sentinal, length, heap, handles>>
    BY <1>9 DEF links, fields
  <2>2. /\ \A r \in handles : Contents(r)' = Contents(r)
        /\ RingsOK' /\ NoLeak' /\ IsFiniteSet(heap)'
    BY <1>9, Untouched
  <2>3. p + 1 \in 1..(Len(c) + 1) /\ cur' = Place(s, c, p + 1)
    <3>1. \A k \in 0..Len(c) : next[Place(s, c, k)] = Place(s, c, k + 1)
      BY <1>4 DEF IsRing
    <3>2. p \in 0..Len(c)
      BY <1>4
    <3> QED
      BY <1>1, <1>4, <1>5, <2>1, <3>1, <3>2
  <2>4. rest' = From(c, p + 1)
    <3>1. Walk(next, Place(s, c, p + 1), s) = From(c, p + 1)
      BY <1>4, <2>3, RestFacts
    <3>2. rest' = Walk(next', cur', sentinal'[on'])
      BY <1>1
    <3> QED
      BY <1>1, <1>3, <2>1, <2>3, <3>1, <3>2
  <2>5. visits' = visits
    BY <2>1, <2>2
  <2>6. AQ!IterateVisit
    BY <1>1, <1>6, <1>7, <1>8, <2>4, <2>5 DEF AQ!IterateVisit
  <2>7. cur' \in Range(c) \cup {s}
    BY <1>4, <2>3 DEF Place, Range
  <2>8. IterateOK'
    <3>1. Contents(on)' = c
      BY <1>1, <1>3, <2>2
    <3> QED
      BY <1>1, <1>3, <2>1, <2>7, <3>1 DEF IterateOK
  <2>9. TypeOK'
    <3>1. cur' \in Nodes
      BY <1>4, <2>7 DEF Nodes, Range
    <3> QED
      BY <1>1, <1>6, <2>1, <3>1 DEF QueueInv, TypeOK
  <2> QED
    BY <2>2, <2>6, <2>8, <2>9 DEF QueueInv
<1>10. CASE Unlink(on, cur)
  <2>1. Unlink(q, Contents(q)[p]) /\ p \in 1..Len(Contents(q))
    BY <1>3, <1>4, <1>6, <1>10
  <2>2. \E d : d = RemoveAt(c, p)
    OBVIOUS
  <2>3. PICK d : d = RemoveAt(c, p)
    BY <2>2
  <2>4. /\ Contents(q)' = d /\ OthersKept(q) /\ RingsOK' /\ NoLeak' /\ IsFiniteSet(heap)'
        /\ next' \in Links /\ prev' \in Links /\ length' \in [Blocks -> Nat]
        /\ UNCHANGED <<sentinal, heap, handles>>
        /\ next'[cur] = Place(s, d, p)
    BY <1>4, <1>6, <2>1, <2>3, Unlinked
  <2>5. d \in Seq(Items) /\ Len(d) = Len(c) - 1 /\ DOMAIN d = 1..Len(d) /\ p \in 1..(Len(d) + 1)
    <3>1. d \in Seq(Items) /\ Len(d) = Len(c) - 1
      BY <1>4, <2>3, RemoveAtFacts
    <3>2. DOMAIN d = 1..Len(d)
      BY <3>1, LenProperties
    <3>3. p \in 1..(Len(d) + 1)
      BY <1>4, <3>1
    <3> QED
      BY <3>1, <3>2, <3>3
  <2>6. cur' = Place(s, d, p) /\ cur' \in Range(d) \cup {s}
    BY <1>1, <2>4, <2>5 DEF Place, Range
  <2>7. rest' = From(d, p)
    <3>1. IsRing(next', prev', s, d)
      <4>1. RingsOK' => \A r \in handles' : IsRing(next', prev', sentinal'[r], Contents(r)')
        BY DEF RingsOK
      <4> QED
        BY <1>4, <2>4, <4>1
    <3>2. IsInjective(d) /\ \A k \in 0..Len(d) : next'[Place(s, d, k)] = Place(s, d, k + 1)
      BY <3>1 DEF IsRing
    <3>3. Walk(next', Place(s, d, p), s) = From(d, p)
      <4>1. \E nx : nx = next'
        OBVIOUS
      <4>2. PICK nx : nx = next'
        BY <4>1
      <4>3. \A k \in 0..Len(d) : nx[Place(s, d, k)] = Place(s, d, k + 1)
        BY <3>2, <4>2
      <4>4. s \in Blocks /\ d \in Seq(Items) /\ IsInjective(d) /\ p \in 1..(Len(d) + 1)
        BY <1>4, <2>5, <3>2
      <4>5. ASSUME NEW e \in 1..(Len(d) + 1)
            PROVE  Walk(nx, Place(s, d, e), s) = [k \in 1..(Len(d) + 1 - e) |-> d[e + k - 1]]
        BY <4>3, <4>4, WalkFacts
      <4>6. Walk(nx, Place(s, d, p), s) = From(d, p)
        BY <4>4, <4>5 DEF From
      <4> QED
        BY <4>2, <4>6
    <3>4. rest' = Walk(next', cur', sentinal'[on'])
      BY <1>1
    <3> QED
      BY <1>1, <1>3, <2>4, <2>6, <3>3, <3>4
  <2>8. visits' = [visits EXCEPT ![on] = RemoveFirst(@, Head(rest))]
    <3>1. RemoveFirst(c, c[p]) = d
      BY <1>4, <2>3, RemoveFirstFacts
    <3>2. visits[on] = c /\ Head(rest) = c[p]
      BY <1>1, <1>3, <1>7, <1>8
    <3>3. \A u \in handles : Contents(u)' = IF u = on THEN d ELSE Contents(u)
      BY <1>3, <2>4 DEF OthersKept
    <3>4. visits' = [u \in handles |-> Contents(u)']
      BY <2>4
    <3>5. [visits EXCEPT ![on] = d] = [u \in handles |-> IF u = on THEN d ELSE Contents(u)]
      OBVIOUS
    <3>6. RemoveFirst(visits[on], Head(rest)) = d
      BY <3>1, <3>2
    <3> QED
      BY <3>3, <3>4, <3>5, <3>6
  <2>9. AQ!IterateVisit
    <3>1. visits' = [visits EXCEPT ![on] = AQ!RemoveFirst(@, Head(rest))]
      BY <2>8, SameOperators
    <3>2. rest # <<>> /\ item' = Head(rest) /\ rest' = Tail(rest)
      BY <1>1, <1>6, <1>7, <1>8, <2>3, <2>7
    <3> QED
      BY <1>1, <3>1, <3>2 DEF AQ!IterateVisit
  <2>10. IterateOK'
    <3>1. Contents(on)' = Contents(q)'
      BY <1>1, <1>3 DEF Contents
    <3> QED
      BY <1>1, <1>3, <2>4, <2>6, <3>1 DEF IterateOK
  <2>11. TypeOK'
    <3>1. cur' \in Nodes
      BY <1>4, <2>5, <2>6, ElementOfSeq DEF Nodes, Range
    <3> QED
      BY <1>1, <1>6, <2>4, <3>1 DEF QueueInv, TypeOK, Links
  <2> QED
    BY <2>4, <2>9, <2>10, <2>11 DEF QueueInv
<1> QED
  BY <1>9, <1>10 DEF IterateVisit

LEMMA IterateReturnStep ==
  ASSUME QueueInv, IterateReturn
  PROVE  QueueInv' /\ AQ!IterateReturn
<1> DEFINE rest == IF on = Null THEN <<>> ELSE Walk(next, cur, sentinal[on])
<1>1. /\ on # Null /\ cur = sentinal[on] /\ on \in handles
      /\ on' = Null /\ cur' = Null /\ ret' = 0 /\ item' = item
      /\ UNCHANGED <<links, fields, heap, handles>>
      /\ UNCHANGED <<next, prev, sentinal, length, heap, handles>>
  BY DEF IterateReturn, QueueInv, TypeOK, links, fields
<1>2. /\ \A r \in handles : Contents(r)' = Contents(r)
      /\ RingsOK' /\ NoLeak' /\ IsFiniteSet(heap)'
  BY <1>1, Untouched
<1>3. rest = <<>>
  <2>1. PICK p \in 1..(Len(Contents(on)) + 1) :
          /\ cur = Place(sentinal[on], Contents(on), p)
          /\ cur # sentinal[on] <=> p \in 1..Len(Contents(on))
    BY <1>1, CurFacts
  <2>2. Len(Contents(on)) \in Nat /\ Contents(on) \in Seq(Items)
    BY <1>1, QueueFacts
  <2>3. p = Len(Contents(on)) + 1
    BY <1>1, <2>1, <2>2
  <2>4. Walk(next, cur, sentinal[on]) = From(Contents(on), p)
    BY <1>1, <2>1, RestFacts
  <2>5. From(Contents(on), Len(Contents(on)) + 1) = <<>>
    BY <2>2, FromFacts
  <2> QED
    BY <2>3, <2>4, <2>5
<1>4. rest' = <<>>
  BY <1>1
<1>5. [u \in handles |-> Contents(u)]' = [u \in handles |-> Contents(u)]
  BY <1>1, <1>2
<1>6. AQ!IterateReturn
  BY <1>1, <1>3, <1>4, <1>5 DEF AQ!IterateReturn
<1>7. TypeOK' /\ IterateOK'
  BY <1>1 DEF QueueInv, TypeOK, IterateOK
<1> QED
  BY <1>2, <1>6, <1>7 DEF QueueInv

LEMMA NextStep ==
  ASSUME QueueInv, [Next]_vars
  PROVE  QueueInv' /\ [AQ!Next]_(AQ!vars)
<1>1. CASE New
  BY <1>1, NewStep DEF AQ!Next
<1>2. CASE NullCall
  BY <1>2, RefuseStep DEF NullCall, AQ!Next
<1>3. ASSUME NEW q \in handles, NEW i \in Items,
             Prepend(q, i) \/ QueueAppend(q, i) \/ Delete(q, i) \/ DeleteFast(q, i)
      PROVE  QueueInv' /\ AQ!Next
  <2>1. CASE Prepend(q, i)
    BY <2>1, PrependStep, AbstractState DEF AQ!Next
  <2>2. CASE QueueAppend(q, i)
    BY <2>2, AppendStep, AbstractState DEF AQ!Next
  <2>3. CASE Delete(q, i)
    BY <2>3, DeleteStep, AbstractState DEF AQ!Next
  <2>4. CASE DeleteFast(q, i)
    <3>1. on = Null /\ i \in Range(Contents(q)) /\ Unlink(q, i) /\ Returns(0, Null)
      BY <2>4 DEF DeleteFast
    <3>2. QueueInv' /\ AQ!Delete(q, i)
      BY <3>1, DeletedStep
    <3> QED
      BY <3>2, AbstractState DEF AQ!Next
  <2> QED
    BY <1>3, <2>1, <2>2, <2>3, <2>4
<1>4. ASSUME NEW q \in handles, NEW s \in SUBSET Items, Find(q, s)
      PROVE  QueueInv' /\ AQ!Next
  BY <1>4, FindStep, AbstractState DEF AQ!Next
<1>5. ASSUME NEW q \in handles, Dequeue(q) \/ Length(q) \/ Free(q) \/ IterateCall(q)
      PROVE  QueueInv' /\ AQ!Next
  <2>1. CASE Dequeue(q)
    BY <2>1, DequeueStep, AbstractState DEF AQ!Next
  <2>2. CASE Length(q)
    BY <2>2, LengthStep, AbstractState DEF AQ!Next
  <2>3. CASE Free(q)
    BY <2>3, FreeStep, AbstractState DEF AQ!Next
  <2>4. CASE IterateCall(q)
    BY <2>4, IterateCallStep, AbstractState DEF AQ!Next
  <2> QED
    BY <1>5, <2>1, <2>2, <2>3, <2>4
<1>6. CASE IterateVisit
  BY <1>6, IterateVisitStep DEF AQ!Next
<1>7. CASE IterateReturn
  BY <1>7, IterateReturnStep DEF AQ!Next
<1>8. CASE UNCHANGED vars
  <2>1. /\ UNCHANGED <<links, fields, heap, handles, iter>> /\ ret' = ret /\ item' = item
        /\ handles' = handles /\ UNCHANGED <<next, prev, sentinal, on, cur>>
    BY <1>8 DEF vars, links, fields, iter
  <2>2. QueueInv'
    BY <2>1, UntouchedInv DEF QueueInv, TypeOK
  <2>3. [q \in handles |-> Contents(q)]' = [q \in handles |-> Contents(q)]
    BY <2>1, Untouched
  <2>4. UNCHANGED AQ!vars
    BY <2>1, <2>3 DEF AQ!vars
  <2> QED
    BY <2>2, <2>4
<1> QED
  BY <1>1, <1>2, <1>3, <1>4, <1>5, <1>6, <1>7, <1>8 DEF Next

\* A node on two lists, a list of another length than the queue's field says, a lost
\* block or an iteration that has left its queue cannot arise from the calls of
\* src/queue.c, however many items and blocks there are.
THEOREM QueueInvHolds == Spec => []QueueInv
<1>1. QueueInv /\ [Next]_vars => QueueInv'
  BY NextStep
<1> QED
  BY <1>1, InitInv, PTL DEF Spec

\* queue_new and queue_free lose no block of the heap.
THEOREM NoLeakHolds == Spec => []NoLeak
<1>1. QueueInv => NoLeak
  BY DEF QueueInv
<1> QED
  BY <1>1, QueueInvHolds, PTL

\* The sentinel, the items and the sentinel again, as one sequence.
LEMMA RingSequence ==
  ASSUME NEW s \in Blocks, NEW c \in Seq(Items), IsInjective(c),
         NEW ring, ring = <<s>> \o c \o <<s>>
  PROVE  /\ Len(ring) = Len(c) + 2
         /\ \A k \in 1..(Len(c) + 2) : ring[k] = Place(s, c, k - 1)
         /\ IsInjective(Tail(ring))
<1>1. Len(c) \in Nat /\ DOMAIN c = 1..Len(c)
  BY LenProperties
<1>2. <<s>> \in Seq(Nodes) /\ Len(<<s>>) = 1 /\ <<s>>[1] = s /\ c \in Seq(Nodes)
  <2>1. s \in Nodes /\ Items \subseteq Nodes
    BY DEF Nodes
  <2> QED
    BY <2>1, SeqMonotonic
<1> DEFINE h == <<s>> \o c
<1>3. /\ h \in Seq(Nodes) /\ Len(h) = Len(c) + 1 /\ h[1] = s
      /\ \A k \in 1..Len(c) : h[k + 1] = c[k]
  <2>1. /\ h \in Seq(Nodes) /\ Len(h) = Len(<<s>>) + Len(c)
        /\ \A k \in 1..(Len(<<s>>) + Len(c)) :
             h[k] = IF k <= Len(<<s>>) THEN <<s>>[k] ELSE c[k - Len(<<s>>)]
    BY <1>2, ConcatProperties
  <2> HIDE DEF h
  <2>2. h[1] = s
    BY <1>1, <1>2, <2>1
  <2>3. ASSUME NEW k \in 1..Len(c) PROVE h[k + 1] = c[k]
    <3>1. k + 1 \in 1..(1 + Len(c)) /\ ~(k + 1 <= 1) /\ (k + 1) - 1 = k
      BY <1>1
    <3> QED
      BY <1>2, <2>1, <3>1
  <2> QED
    BY <1>1, <1>2, <2>1, <2>2, <2>3
<1>4. /\ ring \in Seq(Nodes) /\ Len(ring) = Len(h) + 1
      /\ \A k \in 1..Len(h) : ring[k] = h[k]
      /\ ring[Len(h) + 1] = s
  <2>1. /\ ring \in Seq(Nodes) /\ Len(ring) = Len(h) + Len(<<s>>)
        /\ \A k \in 1..(Len(h) + Len(<<s>>)) :
             ring[k] = IF k <= Len(h) THEN h[k] ELSE <<s>>[k - Len(h)]
    BY <1>2, <1>3, ConcatProperties
  <2> HIDE DEF h
  <2>2. Len(h) \in Nat
    BY <1>1, <1>3
  <2>3. ASSUME NEW k \in 1..Len(h) PROVE ring[k] = h[k]
    BY <1>2, <2>1, <2>2
  <2>4. ring[Len(h) + 1] = s
    <3>1. /\ Len(h) + 1 \in 1..(Len(h) + 1) /\ ~(Len(h) + 1 <= Len(h))
          /\ (Len(h) + 1) - Len(h) = 1
      BY <2>2
    <3>2. ring[Len(h) + 1] = <<s>>[1]
      BY <1>2, <2>1, <3>1
    <3> QED
      BY <1>2, <3>2
  <2> QED
    BY <1>2, <2>1, <2>3, <2>4
<1> HIDE DEF h
<1>5. Len(ring) = Len(c) + 2
  BY <1>1, <1>3, <1>4
<1>6. ASSUME NEW k \in 1..(Len(c) + 2) PROVE ring[k] = Place(s, c, k - 1)
  <2>1. CASE k = 1
    <3>1. 1 \in 1..Len(h)
      BY <1>1, <1>3
    <3> QED
      BY <1>1, <1>3, <1>4, <2>1, <3>1 DEF Place
  <2>2. CASE k = Len(c) + 2
    <3>1. k = Len(h) + 1 /\ k - 1 \notin 1..Len(c)
      BY <1>1, <1>3, <2>2
    <3> QED
      BY <1>1, <1>4, <3>1 DEF Place
  <2>3. CASE k # 1 /\ k # Len(c) + 2
    <3>1. k \in 1..Len(h) /\ k - 1 \in 1..Len(c) /\ (k - 1) + 1 = k
      BY <1>1, <1>3, <2>3
    <3>2. h[(k - 1) + 1] = c[k - 1]
      BY <1>3, <3>1
    <3> QED
      BY <1>1, <1>4, <3>1, <3>2 DEF Place
  <2> QED
    BY <2>1, <2>2, <2>3
<1>7. IsInjective(Tail(ring))
  <2>1. /\ Tail(ring) \in Seq(Nodes) /\ Len(Tail(ring)) = Len(c) + 1
        /\ \A k \in 1..Len(Tail(ring)) : Tail(ring)[k] = ring[k + 1]
    <3>1. ring # <<>>
      BY <1>1, <1>5, EmptySeq
    <3>2. /\ Tail(ring) \in Seq(Nodes) /\ Len(Tail(ring)) = Len(ring) - 1
          /\ \A k \in 1..Len(Tail(ring)) : Tail(ring)[k] = ring[k + 1]
      BY <1>4, <3>1, HeadTailProperties
    <3> QED
      BY <1>1, <1>5, <3>2
  <2>2. DOMAIN Tail(ring) = 1..(Len(c) + 1)
    BY <2>1, LenProperties
  <2>3. ASSUME NEW k \in 1..(Len(c) + 1) PROVE Tail(ring)[k] = Place(s, c, k)
    <3>1. k + 1 \in 1..(Len(c) + 2) /\ (k + 1) - 1 = k
      BY <1>1
    <3> QED
      BY <1>6, <2>1, <3>1
  <2>4. \A j, k \in 1..(Len(c) + 1) : Place(s, c, j) = Place(s, c, k) => j = k
    BY PlaceFacts
  <2>5. \A j, k \in 1..(Len(c) + 1) : Tail(ring)[j] = Tail(ring)[k] => j = k
    BY <2>3, <2>4
  <2> DEFINE t == Tail(ring)
  <2> HIDE DEF t
  <2>6. IsInjective(t)
    BY <2>2, <2>5 DEF IsInjective, t
  <2> QED
    BY <2>6 DEF t
<1> QED
  BY <1>5, <1>6, <1>7

\* next runs from the sentinel of every queue through as many items as its length
\* says and back, and prev runs the same way in reverse.
THEOREM RingsHold == Spec => []Rings
<1>1. ASSUME QueueInv PROVE Rings
  <2> SUFFICES ASSUME NEW q \in handles
               PROVE  LET ring == <<sentinal[q]>> \o Contents(q) \o <<sentinal[q]>>
                      IN  /\ length[q] = Len(ring) - 2
                          /\ IsInjective(Tail(ring))
                          /\ \A k \in 1..(Len(ring) - 1) :
                               next[ring[k]] = ring[k + 1] /\ prev[ring[k + 1]] = ring[k]
    BY DEF Rings
  <2> DEFINE ring == <<sentinal[q]>> \o Contents(q) \o <<sentinal[q]>>
  <2>1. ring = <<sentinal[q]>> \o Contents(q) \o <<sentinal[q]>>
    OBVIOUS
  <2> HIDE DEF ring
  <2>2. \E c, s : c = Contents(q) /\ s = sentinal[q]
    OBVIOUS
  <2>3. PICK c, s : c = Contents(q) /\ s = sentinal[q]
    BY <2>2
  <2>4. /\ c \in Seq(Items) /\ IsInjective(c) /\ Len(c) \in Nat /\ s \in Blocks
        /\ length[q] = Len(c) /\ IsRing(next, prev, s, c)
    BY <1>1, <2>3, QueueFacts
  <2>5. /\ Len(ring) = Len(c) + 2 /\ IsInjective(Tail(ring))
        /\ \A k \in 1..(Len(c) + 2) : ring[k] = Place(s, c, k - 1)
    <3>1. ring = <<s>> \o c \o <<s>>
      BY <2>1, <2>3
    <3> QED
      BY <2>4, <3>1, RingSequence
  <2>6. ASSUME NEW k \in 1..(Len(ring) - 1)
        PROVE  next[ring[k]] = ring[k + 1] /\ prev[ring[k + 1]] = ring[k]
    <3>1. /\ k \in 1..(Len(c) + 2) /\ k + 1 \in 1..(Len(c) + 2)
          /\ k - 1 \in 0..Len(c) /\ (k + 1) - 1 = (k - 1) + 1
      BY <2>4, <2>5
    <3>2. ring[k] = Place(s, c, k - 1) /\ ring[k + 1] = Place(s, c, (k - 1) + 1)
      BY <2>5, <3>1
    <3>3. \A j \in 0..Len(c) : /\ next[Place(s, c, j)] = Place(s, c, j + 1)
                               /\ prev[Place(s, c, j + 1)] = Place(s, c, j)
      BY <2>4 DEF IsRing
    <3> QED
      BY <3>1, <3>2, <3>3
  <2>7. length[q] = Len(ring) - 2
    BY <2>4, <2>5
  <2> QED
    BY <2>5, <2>6, <2>7 DEF ring
<1> QED
  BY <1>1, QueueInvHolds, PTL

\* Every call has the effect and the result on the links that AbstractQueues states on
\* sequences; queue_iterate visits each item that was there when it was called, also
\* when f unlinks the item it is given.
THEOREM ImplementsSequencesHolds == Spec => ImplementsSequences
<1>1. Init => AQ!Init
  <2> SUFFICES ASSUME Init PROVE AQ!Init
    OBVIOUS
  <2> DEFINE c == [q \in handles |-> Contents(q)]
  <2>1. handles = {} /\ on = Null /\ ret = 0 /\ item = Null
    BY DEF Init
  <2>2. c \in Seq(Items) /\ DOMAIN c = {}
    <3>1. c \in [1..0 -> Items] /\ 0 \in Nat
      BY <2>1
    <3> HIDE DEF c
    <3>2. DOMAIN c = {}
      BY <3>1
    <3> QED
      BY <3>1, <3>2, SeqDef
  <2> HIDE DEF c
  <2>3. c = <<>>
    <3>1. Len(c) \in Nat /\ DOMAIN c = 1..Len(c)
      BY <2>2, LenProperties
    <3>2. Len(c) \notin Nat \ {0}
      BY <2>2, <3>1
    <3> QED
      BY <2>2, <3>2, EmptySeq
  <2> QED
    BY <2>1, <2>3 DEF AQ!Init, c
<1>2. QueueInv /\ [Next]_vars => [AQ!Next]_(AQ!vars)
  BY NextStep
<1> QED
  BY <1>1, <1>2, QueueInvHolds, PTL DEF Spec, ImplementsSequences, AQ!Spec

=============================================================================
