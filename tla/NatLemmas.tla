------------------------------ MODULE NatLemmas ------------------------------
(***************************************************************************)
(* Least elements and induction on natural numbers, stated with sets: what *)
(* the proofs about linked lists and messages step along places with.      *)
(***************************************************************************)
EXTENDS Integers, FiniteSetsExt, FiniteSetTheorems, WellFoundedInduction, TLAPS

\* A set of numbers that is not empty has a least element.
LEMMA LeastNat ==
  ASSUME NEW T \in SUBSET Nat, T # {}
  PROVE  /\ \E m \in T : \A n \in T : m <= n
         /\ Min(T) \in T /\ \A n \in T : Min(T) <= n
<1> DEFINE R == StrictSubsetOrdering(Nat)
           F == FiniteSubsetsOf(Nat)
           I == {0..n : n \in T}
<1>1. IsWellFoundedOn(R, F)
  BY FS_StrictSubsetOrderingWellFounded
<1>2. \A n \in Nat : IsFiniteSet(0..n) /\ 0..n \subseteq Nat
  <2>1. \A n \in Nat : 0 \in Int /\ n \in Int
    OBVIOUS
  <2> QED
    BY <2>1, FS_Interval
<1>3. I \subseteq F /\ I # {}
  BY <1>2 DEF FiniteSubsetsOf
<1>4. PICK X \in I : \A Y \in I : <<Y, X>> \notin R
  <2> HIDE DEF R, F, I
  <2> QED
    BY <1>1, <1>3, WFMin
<1>5. PICK m \in T : X = 0..m
  BY <1>4
<1>6. \A n \in T : m <= n
  <2>1. SUFFICES ASSUME NEW n \in T, n < m PROVE FALSE
    OBVIOUS
  <2>2. 0..n \subseteq 0..m /\ 0..n # 0..m
    BY <2>1
  <2>3. <<0..n, 0..m>> \in R
    BY <1>2, <2>2 DEF StrictSubsetOrdering
  <2> QED
    BY <1>4, <1>5, <2>3
<1>7. \E k \in T : \A n \in T : k <= n
  BY <1>6
<1> QED
  BY <1>7 DEF Min

\* What holds for 0, and for k + 1 when it holds for k, holds up to n.
LEMMA UpTo ==
  ASSUME NEW n \in Nat, NEW H, 0 \in H, \A k \in 0..(n - 1) : k \in H => k + 1 \in H
  PROVE  \A k \in 0..n : k \in H
<1>1. SUFFICES ASSUME NEW j \in 0..n, j \notin H PROVE FALSE
  OBVIOUS
<1> DEFINE T == {k \in 0..n : k \notin H}
<1>2. T \in SUBSET Nat /\ T # {}
  BY <1>1
<1>3. PICK m \in T : \A k \in T : m <= k
  BY <1>2, LeastNat
<1>4. m # 0 /\ m - 1 \in 0..(n - 1) /\ m - 1 \notin T /\ (m - 1) + 1 = m
  BY <1>3
<1> QED
  BY <1>3, <1>4

\* What h makes of a function has at each number a value that depends on the values
\* of that function at smaller numbers only.
LooksBelow(h, D, S) ==
  /\ h \in [[D -> S] -> [D -> S]]
  /\ \A f, g \in [D -> S] : \A n \in D :
       (\A m \in D : m < n => f[m] = g[m]) => h[f][n] = h[g][n]

\* Then a recursive function with h as its right-hand side exists.
LEMMA Recursion ==
  ASSUME NEW D \in SUBSET Nat, NEW S, S # {}, NEW h, LooksBelow(h, D, S)
  PROVE  \E f \in [D -> S] : f = h[f]
<1> USE DEF LooksBelow
<1> DEFINE F == [D -> S]
           Below(f, n) == \A m \in D : m < n => f[m] = h[f][m]
<1>1. \A n \in Nat : \E f \in F : Below(f, n)
  <2>1. SUFFICES ASSUME NEW n \in Nat PROVE \E f \in F : Below(f, n)
    OBVIOUS
  <2> DEFINE H == {k \in 0..n : \E f \in F : Below(f, k)}
  <2>2. 0 \in H
    <3>1. PICK x \in S : TRUE
      OBVIOUS
    <3>2. [m \in D |-> x] \in F /\ Below([m \in D |-> x], 0)
      OBVIOUS
    <3> QED
      BY <3>2
  <2>3. ASSUME NEW k \in 0..(n - 1), k \in H PROVE k + 1 \in H
    <3>1. PICK f \in F : Below(f, k)
      BY <2>3
    <3>2. h[f] \in F
      OBVIOUS
    <3>3. ASSUME NEW m \in D, m < k + 1 PROVE h[f][m] = h[h[f]][m]
      <4>1. \A j \in D : j < m => j < k
        BY <3>3
      <4>2. \A j \in D : j < m => f[j] = h[f][j]
        BY <3>1, <4>1
      <4> QED
        BY <3>2, <4>2
    <3>4. k + 1 \in 0..n /\ Below(h[f], k + 1)
      BY <3>3
    <3> QED
      BY <3>2, <3>4
  <2>4. n \in 0..n
    OBVIOUS
  <2> HIDE DEF H
  <2>5. n \in H
    BY <2>2, <2>3, <2>4, UpTo
  <2> QED
    BY <2>5 DEF H
<1>2. ASSUME NEW n \in Nat, NEW f \in F, NEW g \in F, Below(f, n), Below(g, n),
             NEW m \in D, m < n
      PROVE  f[m] = g[m]
  <2> DEFINE T == {j \in D : j < n /\ f[j] # g[j]}
  <2>1. SUFFICES ASSUME T # {} PROVE FALSE
    BY <1>2
  <2>2. T \in SUBSET Nat
    OBVIOUS
  <2>3. PICK j \in T : \A i \in T : j <= i
    <3> HIDE DEF T
    <3> QED
      BY <2>1, <2>2, LeastNat
  <2>4. j \in D /\ j < n /\ f[j] # g[j] /\ \A i \in D : i < j => f[i] = g[i]
    BY <2>3
  <2>5. h[f][j] = h[g][j]
    BY <2>4
  <2> QED
    BY <1>2, <2>4, <2>5
<1> DEFINE A(n) == CHOOSE f : f \in F /\ Below(f, n)
           r == [m \in D |-> A(m + 1)[m]]
<1>3. ASSUME NEW n \in Nat PROVE A(n) \in F /\ Below(A(n), n)
  <2> HIDE DEF F, Below
  <2>1. \E f : f \in F /\ Below(f, n)
    BY <1>1
  <2>2. (CHOOSE f : f \in F /\ Below(f, n)) \in F
        /\ Below(CHOOSE f : f \in F /\ Below(f, n), n)
    BY <2>1, Zenon
  <2> QED
    BY <2>2
<1> HIDE DEF A, Below
<1>4. r \in F
  <2>1. ASSUME NEW m \in D PROVE A(m + 1)[m] \in S
    <3>1. m + 1 \in Nat
      OBVIOUS
    <3> QED
      BY <1>3, <3>1
  <2> QED
    BY <2>1
<1>5. ASSUME NEW m \in D PROVE r[m] = h[r][m]
  <2>1. m \in Nat /\ m + 1 \in Nat /\ m < m + 1
    OBVIOUS
  <2>2. ASSUME NEW j \in D, j < m PROVE r[j] = A(m + 1)[j]
    <3>1. j + 1 \in Nat /\ j < j + 1 /\ j + 1 <= m + 1
      BY <2>1, <2>2
    <3>2. Below(A(m + 1), j + 1)
      BY <1>3, <2>1, <3>1 DEF Below
    <3> QED
      BY <1>2, <1>3, <2>1, <3>1, <3>2
  <2>3. h[r][m] = h[A(m + 1)][m]
    <3> HIDE DEF r
    <3> QED
      BY <1>3, <1>4, <2>1, <2>2
  <2>4. A(m + 1)[m] = h[A(m + 1)][m]
    BY <1>3, <2>1 DEF Below
  <2> QED
    BY <2>3, <2>4
<1>6. r = h[r]
  <2>1. h[r] \in F
    BY <1>4
  <2>2. DOMAIN h[r] = D /\ h[r] = [m \in D |-> h[r][m]]
    BY <2>1
  <2>3. r = [m \in D |-> r[m]]
    BY <1>4
  <2>4. \A m \in D : r[m] = h[r][m]
    BY <1>5
  <2> HIDE DEF r
  <2> QED
    BY <2>2, <2>3, <2>4
<1> QED
  BY <1>4, <1>6

\* Dividing twice is dividing by the product.
LEMMA DivDiv ==
  ASSUME NEW x \in Nat, NEW b \in Nat \ {0}, NEW m \in Nat \ {0}
  PROVE  (x \div b) \div m = x \div (b * m)
<1> DEFINE q == x \div b  r == x % b  t == q \div m  s == q % m
<1>1. q \in Nat /\ r \in Nat /\ r < b /\ x = b * q + r
  OBVIOUS
<1> HIDE DEF q, r
<1>2. t \in Nat /\ s \in Nat /\ s < m /\ q = m * t + s
  BY <1>1
<1> HIDE DEF t, s
<1>3. b * m \in Nat \ {0}
  OBVIOUS
<1>4. x = (b * m) * t + (b * s + r)
  BY <1>1, <1>2
<1>5. b * s + r \in Nat /\ b * s + r < b * m
  <2>1. b * (s + 1) <= b * m
    BY <1>2
  <2> QED
    BY <1>1, <1>2, <2>1
<1>6. x \div (b * m) = t
  BY <1>2, <1>3, <1>4, <1>5
<1> QED
  BY <1>6 DEF t, q

\* A remainder is known by being smaller than the divisor.
LEMMA ModUnique ==
  ASSUME NEW x \in Int, NEW b \in Nat \ {0}, NEW q \in Int, NEW r \in 0..(b - 1), x = b * q + r
  PROVE  x % b = r
<1> DEFINE t == x \div b  s == x % b
<1>1. t \in Int /\ s \in 0..(b - 1) /\ x = b * t + s
  OBVIOUS
<1> HIDE DEF t, s
<1>2. b * (t - q) = r - s
  BY <1>1
<1>3. t - q = 0
  <2>1. CASE t - q >= 1
    <3>1. b * (t - q) >= b
      BY <1>1, <2>1
    <3> QED
      BY <1>1, <1>2, <3>1
  <2>2. CASE t - q <= -1
    <3>1. b * (t - q) <= -b
      BY <1>1, <2>2
    <3> QED
      BY <1>1, <1>2, <3>1
  <2> QED
    BY <1>1, <2>1, <2>2
<1>4. r = s
  BY <1>1, <1>2, <1>3
<1> QED
  BY <1>4 DEF s

=============================================================================
