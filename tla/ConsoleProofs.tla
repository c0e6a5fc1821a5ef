---------------------------- MODULE ConsoleProofs -----------------------------
(***************************************************************************)
(* Proofs about Console: what itoa writes is the numeral of its argument,  *)
(* it fits into the static buffer, and the output is made of whole lines,  *)
(* for ints of any width, a FIFO of any size and any number of lines.      *)
(***************************************************************************)
EXTENDS Console, NatLemmas, TLAPS, SequenceTheorems

-----------------------------------------------------------------------------
(* Powers                                                                   *)

\* The powers of b are what the recursive definition says.
LEMMA PowerFacts ==
  ASSUME NEW b \in Nat \ {0}
  PROVE  /\ Power(b, 0) = 1
         /\ \A n \in Nat : Power(b, n) \in Nat \ {0} /\ Power(b, n + 1) = b * Power(b, n)
<1> DEFINE R(p) == p = [k \in Nat |-> IF k = 0 THEN 1 ELSE b * p[k - 1]]
           h == [f \in [Nat -> Int] |-> [k \in Nat |-> IF k = 0 THEN 1 ELSE b * f[k - 1]]]
           pow == CHOOSE p : R(p)
<1>1. \E p : R(p)
  <2>1. h \in [[Nat -> Int] -> [Nat -> Int]]
    <3>1. ASSUME NEW f \in [Nat -> Int], NEW k \in Nat
          PROVE  (IF k = 0 THEN 1 ELSE b * f[k - 1]) \in Int
      OBVIOUS
    <3> QED
      BY <3>1
  <2>2. ASSUME NEW f \in [Nat -> Int], NEW g \in [Nat -> Int], NEW n \in Nat,
               \A m \in Nat : m < n => f[m] = g[m]
        PROVE  h[f][n] = h[g][n]
    <3>1. n # 0 => n - 1 \in Nat /\ n - 1 < n
      OBVIOUS
    <3> QED
      BY <2>2, <3>1
  <2> DEFINE D == Nat  S == Int
  <2>3. LooksBelow(h, D, S) /\ D \in SUBSET Nat /\ S # {}
    BY <2>1, <2>2 DEF LooksBelow
  <2>4. \E f \in [D -> S] : f = h[f]
    <3> HIDE DEF h, D, S
    <3> QED
      BY <2>3, Recursion
  <2> QED
    BY <2>4
<1>2. R(pow)
  <2> HIDE DEF R
  <2> QED
    BY <1>1, Zenon
<1>3. \A n \in Nat : Power(b, n) = pow[n]
  BY DEF Power
<1>4. \A n \in Nat : pow[n] = IF n = 0 THEN 1 ELSE b * pow[n - 1]
  <2> HIDE DEF pow
  <2> QED
    BY <1>2
<1> HIDE DEF pow
<1>5. \A n \in Nat : pow[n + 1] = b * pow[n]
  <2>1. \A n \in Nat : n + 1 \in Nat /\ n + 1 # 0 /\ (n + 1) - 1 = n
    OBVIOUS
  <2> QED
    BY <1>4, <2>1
<1>6. ASSUME NEW n \in Nat PROVE pow[n] \in Nat \ {0}
  <2> DEFINE H == {k \in 0..n : pow[k] \in Nat \ {0}}
  <2>1. 0 \in H
    BY <1>4
  <2>2. ASSUME NEW k \in 0..(n - 1), k \in H PROVE k + 1 \in H
    <3>1. pow[k + 1] = b * pow[k] /\ k + 1 \in 0..n
      BY <1>5
    <3>2. \A x \in Nat \ {0} : b * x \in Nat \ {0}
      OBVIOUS
    <3> QED
      BY <2>2, <3>1, <3>2
  <2>3. n \in 0..n
    OBVIOUS
  <2> HIDE DEF H
  <2>4. n \in H
    BY <2>1, <2>2, <2>3, UpTo
  <2> QED
    BY <2>4 DEF H
<1> QED
  BY <1>3, <1>4, <1>5, <1>6

\* A greater exponent makes no smaller power.
LEMMA PowerGrows ==
  ASSUME NEW b \in Nat \ {0}, NEW m \in Nat, NEW n \in Nat, m <= n
  PROVE  Power(b, m) <= Power(b, n)
<1> DEFINE H == {k \in 0..(n - m) : Power(b, m) <= Power(b, m + k)}
<1>1. n - m \in Nat /\ n - m \in 0..(n - m) /\ m + (n - m) = n
  OBVIOUS
<1>2. 0 \in H
  BY PowerFacts
<1>3. ASSUME NEW k \in 0..((n - m) - 1), k \in H PROVE k + 1 \in H
  <2>1. m + k \in Nat /\ m + (k + 1) = (m + k) + 1 /\ k + 1 \in 0..(n - m)
    OBVIOUS
  <2>2. Power(b, m + (k + 1)) = b * Power(b, m + k) /\ Power(b, m + k) \in Nat
        /\ Power(b, m) \in Nat
    BY <2>1, PowerFacts
  <2>3. \A x \in Nat : x <= b * x
    OBVIOUS
  <2> QED
    BY <1>3, <2>1, <2>2, <2>3
<1> HIDE DEF H
<1>4. n - m \in H
  BY <1>1, <1>2, <1>3, UpTo
<1> QED
  BY <1>1, <1>4 DEF H

-----------------------------------------------------------------------------
(* Texts                                                                    *)

\* f joins the first k of the texts ss for every k.
Joins(f, ss) ==
  \A k \in 1..Len(ss) : f[k] = IF k = 1 THEN ss[k] ELSE f[k - 1] \o ss[k]

\* FlattenSeq is where the joining ends.
LEMMA FlattenFacts ==
  ASSUME NEW C, NEW ss \in Seq(Seq(C)), ss # <<>>
  PROVE  \E f : /\ f \in [1..Len(ss) -> Seq(C)]
                /\ Joins(f, ss) /\ FlattenSeq(ss) = f[Len(ss)]
<1> DEFINE n == Len(ss)  D == 1..n  S == Seq(C)
           R(p) == p = [k \in D |-> IF k = 1 THEN ss[k] ELSE p[k - 1] \o ss[k]]
           h == [f \in [D -> S] |-> [k \in D |-> IF k = 1 THEN ss[k] ELSE f[k - 1] \o ss[k]]]
           flat == CHOOSE p : R(p)
<1>1. n \in Nat \ {0} /\ \A k \in D : ss[k] \in S
  BY LenProperties, ElementOfSeq, EmptySeq
<1>2. \A k \in D : k \in Nat /\ (k # 1 => k - 1 \in D /\ k - 1 < k)
  BY <1>1
<1>3. \A s, t \in S : s \o t \in S
  BY ConcatProperties
<1>4. D \in SUBSET Nat /\ S # {}
  BY <1>1
<1> HIDE DEF n, D, S
<1>5. LooksBelow(h, D, S)
  <2>1. ASSUME NEW f \in [D -> S], NEW k \in D
        PROVE  (IF k = 1 THEN ss[k] ELSE f[k - 1] \o ss[k]) \in S
    BY <1>1, <1>2, <1>3
  <2>2. h \in [[D -> S] -> [D -> S]]
    BY <2>1
  <2>3. ASSUME NEW f \in [D -> S], NEW g \in [D -> S], NEW k \in D,
               \A m \in D : m < k => f[m] = g[m]
        PROVE  h[f][k] = h[g][k]
    BY <1>2, <2>3
  <2> QED
    BY <2>2, <2>3 DEF LooksBelow
<1>6. \E f \in [D -> S] : f = h[f]
  <2> HIDE DEF h
  <2> QED
    BY <1>4, <1>5, Recursion
<1>7. R(flat)
  <2>1. \E p : R(p)
    BY <1>6
  <2> HIDE DEF R
  <2> QED
    BY <2>1, Zenon
<1>8. FlattenSeq(ss) = flat[n]
  BY <1>1 DEF FlattenSeq, n, D
<1>9. flat = [k \in D |-> flat[k]]
      /\ \A k \in D : flat[k] = IF k = 1 THEN ss[k] ELSE flat[k - 1] \o ss[k]
  <2> HIDE DEF flat
  <2> QED
    BY <1>7
<1> HIDE DEF flat
<1>10. ASSUME NEW k \in D PROVE flat[k] \in S
  <2> DEFINE H == {i \in 0..n : i = 0 \/ flat[i] \in S}
  <2>1. 0 \in H
    BY <1>1
  <2>2. ASSUME NEW i \in 0..(n - 1), i \in H PROVE i + 1 \in H
    <3>1. i + 1 \in D /\ i + 1 \in 0..n /\ (i # 0 => i + 1 # 1) /\ (i + 1) - 1 = i
      BY <1>1 DEF D
    <3>2. flat[i + 1] = IF i + 1 = 1 THEN ss[i + 1] ELSE flat[i] \o ss[i + 1]
      BY <1>9, <3>1
    <3>3. ss[i + 1] \in S /\ (i # 0 => flat[i] \in S)
      BY <1>1, <2>2, <3>1
    <3>4. flat[i + 1] \in S
      <4>1. CASE i = 0
        BY <3>2, <3>3, <4>1
      <4>2. CASE i # 0
        BY <1>3, <3>1, <3>2, <3>3, <4>2
      <4> QED
        BY <4>1, <4>2
    <3> QED
      BY <3>1, <3>4
  <2>3. k \in 0..n /\ k # 0 /\ n \in Nat
    BY <1>1 DEF D
  <2>4. \A i \in 0..n : i \in H
    <3> HIDE DEF H
    <3> QED
      BY <2>1, <2>2, <2>3, UpTo
  <2> QED
    BY <2>3, <2>4
<1> QED
  BY <1>8, <1>9, <1>10 DEF Joins, n, D, S

\* A text added at the end comes out at the end.
LEMMA FlattenAppend ==
  ASSUME NEW C, NEW ss \in Seq(Seq(C)), NEW t \in Seq(C)
  PROVE  /\ FlattenSeq(ss) \in Seq(C)
         /\ FlattenSeq(Append(ss, t)) = FlattenSeq(ss) \o t
<1> DEFINE tt == Append(ss, t)  n == Len(ss)
<1>1. /\ tt \in Seq(Seq(C)) /\ tt # <<>> /\ n \in Nat /\ Len(tt) = n + 1
      /\ tt[n + 1] = t /\ \A k \in 1..n : tt[k] = ss[k]
  BY AppendProperties, LenProperties
<1>e. n = 0 <=> ss = <<>>
  BY EmptySeq
<1> HIDE DEF tt, n
<1>2. PICK g \in [1..(n + 1) -> Seq(C)] : Joins(g, tt) /\ FlattenSeq(tt) = g[n + 1]
  BY <1>1, FlattenFacts
<1>3. CASE n = 0
  <2>1. FlattenSeq(ss) = <<>>
    BY <1>3, <1>e DEF FlattenSeq, n
  <2>2. g[n + 1] = t
    BY <1>1, <1>2, <1>3 DEF Joins
  <2> QED
    BY <1>2, <2>1, <2>2, EmptySeq, ConcatEmptySeq DEF tt
<1>4. CASE n # 0
  <2>1. PICK f \in [1..n -> Seq(C)] : Joins(f, ss) /\ FlattenSeq(ss) = f[n]
    BY <1>4, <1>e, FlattenFacts DEF n
  <2> DEFINE H == {i \in 0..n : i = 0 \/ f[i] = g[i]}
  <2>2. 0 \in H
    BY <1>1
  <2>3. ASSUME NEW i \in 0..(n - 1), i \in H PROVE i + 1 \in H
    <3>1. i + 1 \in 1..n /\ i + 1 \in 1..(n + 1) /\ i + 1 \in 0..n /\ (i # 0 => i + 1 # 1)
          /\ (i + 1) - 1 = i /\ Len(ss) = n
      BY <1>1 DEF n
    <3>2. f[i + 1] = (IF i + 1 = 1 THEN ss[i + 1] ELSE f[i] \o ss[i + 1])
      BY <2>1, <3>1 DEF Joins
    <3>3. g[i + 1] = (IF i + 1 = 1 THEN tt[i + 1] ELSE g[i] \o tt[i + 1])
      BY <1>1, <1>2, <3>1 DEF Joins
    <3>4. tt[i + 1] = ss[i + 1]
      BY <1>1, <3>1
    <3>5. f[i + 1] = g[i + 1]
      BY <2>3, <3>1, <3>2, <3>3, <3>4
    <3> QED
      BY <3>1, <3>5
  <2>4. n \in 0..n
    BY <1>1
  <2>5. f[n] = g[n]
    <3>1. n \in H
      <4> HIDE DEF H
      <4> QED
        BY <1>1, <2>2, <2>3, <2>4, UpTo
    <3> QED
      BY <1>4, <3>1
  <2>6. g[n + 1] = g[n] \o t
    <3>1. n + 1 \in 1..(n + 1) /\ n + 1 # 1 /\ (n + 1) - 1 = n
      BY <1>1, <1>4
    <3> QED
      BY <1>1, <1>2, <3>1 DEF Joins
  <2>7. f[n] \in Seq(C)
    BY <1>1, <1>4, <2>1
  <2> QED
    BY <1>2, <2>1, <2>5, <2>6, <2>7 DEF tt
<1> QED
  BY <1>3, <1>4

\* A text comes out in front of those that follow it.
LEMMA FlattenHead ==
  ASSUME NEW C, NEW ss \in Seq(Seq(C)), ss # <<>>
  PROVE  FlattenSeq(ss) = Head(ss) \o FlattenSeq(Tail(ss))
<1> DEFINE tt == Tail(ss)  n == Len(tt)
<1>1. /\ tt \in Seq(Seq(C)) /\ n \in Nat /\ Len(ss) = n + 1
      /\ ss[1] \in Seq(C) /\ Head(ss) = ss[1] /\ \A k \in 1..n : tt[k] = ss[k + 1] /\ tt[k] \in Seq(C)
  BY HeadTailProperties, LenProperties, EmptySeq, ElementOfSeq
<1>e. n = 0 <=> tt = <<>>
  BY <1>1, EmptySeq
<1> HIDE DEF tt, n
<1>2. PICK f \in [1..(n + 1) -> Seq(C)] : Joins(f, ss) /\ FlattenSeq(ss) = f[n + 1]
  <2>1. \E f \in [1..Len(ss) -> Seq(C)] : Joins(f, ss) /\ FlattenSeq(ss) = f[Len(ss)]
    BY FlattenFacts
  <2> QED
    BY <1>1, <2>1
<1>a. \A a, b, c \in Seq(C) : (a \o b) \o c = a \o (b \o c)
  BY ConcatAssociative
<1>f. f[1] = ss[1]
  BY <1>1, <1>2 DEF Joins
<1>3. CASE n = 0
  <2>1. FlattenSeq(tt) = <<>>
    BY <1>3, <1>e DEF FlattenSeq, n
  <2> QED
    BY <1>1, <1>2, <1>3, <1>f, <2>1, ConcatEmptySeq DEF tt
<1>4. CASE n # 0
  <2>1. PICK g \in [1..n -> Seq(C)] : Joins(g, tt) /\ FlattenSeq(tt) = g[n]
    BY <1>1, <1>4, <1>e, FlattenFacts DEF n
  <2> DEFINE H == {i \in 0..n : i = 0 \/ f[i + 1] = ss[1] \o g[i]}
  <2>2. 0 \in H
    BY <1>1
  <2>3. ASSUME NEW i \in 0..(n - 1), i \in H PROVE i + 1 \in H
    <3>1. /\ i + 1 \in 1..n /\ (i + 1) + 1 \in 1..(n + 1) /\ i + 1 \in 0..n
          /\ (i + 1) + 1 # 1 /\ (i # 0 => i + 1 # 1 /\ i \in 1..n)
          /\ (i + 1) - 1 = i /\ ((i + 1) + 1) - 1 = i + 1 /\ Len(tt) = n
      BY <1>1 DEF n
    <3>2. g[i + 1] = (IF i + 1 = 1 THEN tt[i + 1] ELSE g[i] \o tt[i + 1])
      BY <2>1, <3>1 DEF Joins
    <3>3. f[(i + 1) + 1] = f[i + 1] \o ss[(i + 1) + 1]
      BY <1>1, <1>2, <3>1 DEF Joins
    <3>4. tt[i + 1] = ss[(i + 1) + 1] /\ tt[i + 1] \in Seq(C)
      BY <1>1, <3>1
    <3>5. CASE i = 0
      <4>1. f[i + 1] = ss[1] /\ g[i + 1] = tt[i + 1]
        BY <1>f, <3>2, <3>5
      <4>2. f[(i + 1) + 1] = ss[1] \o g[i + 1]
        BY <3>3, <3>4, <4>1
      <4> QED
        BY <3>1, <4>2
    <3>6. CASE i # 0
      <4>1. f[i + 1] = ss[1] \o g[i] /\ g[i] \in Seq(C)
        BY <2>1, <2>3, <3>1, <3>6
      <4>2. g[i + 1] = g[i] \o tt[i + 1] /\ f[(i + 1) + 1] = (ss[1] \o g[i]) \o tt[i + 1]
        BY <3>1, <3>2, <3>3, <3>4, <3>6, <4>1
      <4>3. (ss[1] \o g[i]) \o tt[i + 1] = ss[1] \o (g[i] \o tt[i + 1])
        BY <1>1, <1>a, <3>4, <4>1
      <4>4. f[(i + 1) + 1] = ss[1] \o g[i + 1]
        BY <4>2, <4>3
      <4> QED
        BY <3>1, <4>4
    <3> QED
      BY <3>5, <3>6
  <2>4. n \in 0..n
    BY <1>1
  <2>5. n \in H
    <3> HIDE DEF H
    <3> QED
      BY <1>1, <2>2, <2>3, <2>4, UpTo
  <2> QED
    BY <1>1, <1>2, <1>4, <2>1, <2>5 DEF tt
<1> QED
  BY <1>3, <1>4

-----------------------------------------------------------------------------
(* Conversion                                                               *)

\* Digits are characters, and neither the end of a text nor no character is one.
LEMMA CharFacts ==
  /\ \A d \in 0..15 : Digit(d) \in Chars
  /\ NUL \notin Chars /\ None \notin Chars /\ None # NUL
<1>1. \A d \in 0..15 : Digit(d) # NUL /\ Digit(d) # None
  BY DEF Digit, NUL, None
<1> QED
  BY <1>1 DEF Chars, NUL, None

\* s is the digits of i to base b, the lowest first, and no more than it takes.
IsDigits(s, i, b) ==
  /\ s \in Seq(Chars) /\ i < Power(b, Len(s))
  /\ IF i = 0 THEN s = <<>> ELSE Len(s) # 0 /\ Power(b, Len(s) - 1) <= i
  /\ \A k \in 1..Len(s) : s[k] = Digit((i \div Power(b, k - 1)) % b)

\* A round of the loop of itoa (stdlib.c:20-26): the lowest digit, and the others.
LEMMA DigitsStep ==
  ASSUME NEW b \in {10, 16}, NEW i \in Nat \ {0}, NEW s, IsDigits(s, i \div b, b)
  PROVE  IsDigits(<<Digit(i % b)>> \o s, i, b)
<1> DEFINE q == i \div b  r == i % b  m == Len(s)  t == <<Digit(r)>> \o s
<1>1. q \in Nat /\ r \in 0..15 /\ i = b * q + r /\ r < b /\ b \in Nat \ {0}
  OBVIOUS
<1>2. s \in Seq(Chars) /\ m \in Nat /\ DOMAIN s = 1..m
  BY LenProperties DEF IsDigits
<1>3. /\ t \in Seq(Chars) /\ Len(t) = m + 1 /\ t[1] = Digit(r)
      /\ \A k \in 2..(m + 1) : t[k] = s[k - 1]
  <2>1. <<Digit(r)>> \in Seq(Chars) /\ Len(<<Digit(r)>>) = 1 /\ <<Digit(r)>>[1] = Digit(r)
    BY <1>1, CharFacts
  <2> HIDE DEF r
  <2>2. /\ t \in Seq(Chars) /\ Len(t) = 1 + m
        /\ \A k \in 1..(1 + m) : t[k] = IF k <= 1 THEN <<Digit(r)>>[k] ELSE s[k - 1]
    BY <1>2, <2>1, ConcatProperties
  <2> HIDE DEF t, m
  <2> QED
    BY <1>2, <2>1, <2>2
<1>4. /\ \A k \in Nat : Power(b, k) \in Nat \ {0} /\ Power(b, k + 1) = b * Power(b, k)
      /\ Power(b, 0) = 1
  BY PowerFacts, <1>1
<1>e. q = 0 => Len(s) = 0
  BY EmptySeq DEF IsDigits
<1>5. /\ q < Power(b, m) /\ (q # 0 => m # 0 /\ Power(b, m - 1) <= q)
      /\ \A k \in 1..m : s[k] = Digit((q \div Power(b, k - 1)) % b)
  BY DEF IsDigits
<1> HIDE DEF t, m, q, r
<1>6. i < Power(b, m + 1)
  <2>1. Power(b, m + 1) = b * Power(b, m) /\ Power(b, m) \in Nat
    BY <1>2, <1>4
  <2>2. \A x \in Nat : q < x => b * q + r < b * x
    <3>1. CASE b = 10
      BY <1>1, <3>1
    <3>2. CASE b = 16
      BY <1>1, <3>2
    <3> QED
      BY <3>1, <3>2
  <2> QED
    BY <1>1, <1>5, <2>1, <2>2
<1>7. Power(b, (m + 1) - 1) <= i
  <2>0. (m + 1) - 1 = m
    BY <1>2
  <2>1. CASE m = 0
    BY <1>4, <2>0, <2>1
  <2>2. CASE m # 0
    <3>1. m - 1 \in Nat /\ (m - 1) + 1 = m
      BY <1>2, <2>2
    <3>2. Power(b, m) = b * Power(b, m - 1) /\ Power(b, m - 1) \in Nat \ {0}
      BY <1>4, <3>1
    <3>3. q # 0
      <4>1. SUFFICES ASSUME q = 0 PROVE FALSE
        OBVIOUS
      <4>2. Len(s) = 0
        BY <1>e, <4>1
      <4> QED
        BY <2>2, <4>2 DEF m
    <3>4. \A x \in Nat : x <= q => b * x <= b * q + r
      <4>1. CASE b = 10
        BY <1>1, <4>1
      <4>2. CASE b = 16
        BY <1>1, <4>2
      <4> QED
        BY <4>1, <4>2
    <3> QED
      BY <1>1, <1>5, <2>0, <3>2, <3>3, <3>4
  <2> QED
    BY <2>1, <2>2
<1>8. ASSUME NEW k \in 1..(m + 1) PROVE t[k] = Digit((i \div Power(b, k - 1)) % b)
  <2>1. CASE k = 1
    <3>1. k - 1 = 0 /\ i \div 1 = i
      BY <2>1
    <3> QED
      BY <1>3, <1>4, <2>1, <3>1 DEF r
  <2>2. CASE k # 1
    <3>1. k - 1 \in 1..m /\ k \in 2..(m + 1) /\ k - 2 \in Nat /\ (k - 1) - 1 = k - 2
          /\ (k - 2) + 1 = k - 1
      BY <1>2, <2>2
    <3>2. t[k] = Digit((q \div Power(b, k - 2)) % b)
      BY <1>3, <1>5, <3>1
    <3>3. Power(b, k - 1) = b * Power(b, k - 2) /\ Power(b, k - 2) \in Nat \ {0}
      BY <1>4, <3>1
    <3>4. q \div Power(b, k - 2) = i \div (b * Power(b, k - 2))
      BY <1>1, <3>3, DivDiv DEF q
    <3> QED
      BY <3>2, <3>3, <3>4
  <2> QED
    BY <2>1, <2>2
<1>9. IsDigits(t, i, b)
  <2>1. m + 1 # 0
    BY <1>2
  <2> QED
    BY <1>3, <1>6, <1>7, <1>8, <2>1 DEF IsDigits
<1> QED
  BY <1>9 DEF t, r

\* What the loop of itoa leaves in intbuf for each number.
LowOf(b) ==
  CHOOSE p : p = [i \in Nat |-> IF i = 0 THEN <<>> ELSE <<Digit(i % b)>> \o p[i \div b]]

\* It satisfies its equation.
LEMMA LowExists ==
  ASSUME NEW b \in {10, 16}
  PROVE  \A i \in Nat :
           LowOf(b)[i] = IF i = 0 THEN <<>> ELSE <<Digit(i % b)>> \o LowOf(b)[i \div b]
<1> DEFINE D == Nat  S == Seq(Chars)
           R(p) == p = [i \in Nat |-> IF i = 0 THEN <<>> ELSE <<Digit(i % b)>> \o p[i \div b]]
           h == [f \in [D -> S] |->
                  [i \in D |-> IF i = 0 THEN <<>> ELSE <<Digit(i % b)>> \o f[i \div b]]]
           low == CHOOSE p : R(p)
<1>1. \A i \in Nat : i # 0 => i % b \in 0..15 /\ i \div b \in Nat /\ i \div b < i
  <2>1. CASE b = 10
    BY <2>1
  <2>2. CASE b = 16
    BY <2>2
  <2> QED
    BY <2>1, <2>2
<1>2. \A i \in Nat : i # 0 => <<Digit(i % b)>> \in S
  BY <1>1, CharFacts
<1>3. <<>> \in S /\ \A s, t \in S : s \o t \in S
  BY EmptySeq, ConcatProperties
<1>4. D \in SUBSET Nat /\ S # {} /\ D = Nat
  BY <1>3
<1> HIDE DEF D, S
<1>5. LooksBelow(h, D, S)
  <2>1. ASSUME NEW f \in [D -> S], NEW i \in D
        PROVE  (IF i = 0 THEN <<>> ELSE <<Digit(i % b)>> \o f[i \div b]) \in S
    BY <1>1, <1>2, <1>3, <1>4
  <2>2. h \in [[D -> S] -> [D -> S]]
    BY <2>1
  <2>3. ASSUME NEW f \in [D -> S], NEW g \in [D -> S], NEW i \in D,
               \A m \in D : m < i => f[m] = g[m]
        PROVE  h[f][i] = h[g][i]
    <3>1. i # 0 => f[i \div b] = g[i \div b]
      BY <1>1, <1>4, <2>3
    <3> QED
      BY <3>1
  <2> QED
    BY <2>2, <2>3 DEF LooksBelow
<1>6. \E f \in [D -> S] : f = h[f]
  <2> HIDE DEF h
  <2> QED
    BY <1>4, <1>5, Recursion
<1>7. R(low)
  <2>1. \E p : R(p)
    BY <1>4, <1>6
  <2> HIDE DEF R
  <2> QED
    BY <2>1, Zenon
<1>8. LowOf(b) = low
  BY DEF LowOf
<1>9. \A i \in Nat : low[i] = IF i = 0 THEN <<>> ELSE <<Digit(i % b)>> \o low[i \div b]
  <2> HIDE DEF low
  <2> QED
    BY <1>7
<1> QED
  BY <1>8, <1>9

\* The loop of itoa writes the digits of every number.
LEMMA LowDigits ==
  ASSUME NEW b \in {10, 16}, NEW n \in Nat
  PROVE  IsDigits(LowOf(b)[n], n, b)
<1> DEFINE low == LowOf(b)
           H == {k \in 0..n : \A i \in 0..k : IsDigits(low[i], i, b)}
<1>1. \A i \in Nat : low[i] = IF i = 0 THEN <<>> ELSE <<Digit(i % b)>> \o low[i \div b]
  BY LowExists
<1> HIDE DEF low
<1>2. IsDigits(low[0], 0, b)
  <2>1. low[0] = <<>> /\ <<>> \in Seq(Chars) /\ Len(<<>>) = 0
    BY <1>1, EmptySeq
  <2>2. Power(b, 0) = 1
    <3>1. b \in Nat \ {0}
      OBVIOUS
    <3> QED
      BY <3>1, PowerFacts
  <2> QED
    BY <2>1, <2>2 DEF IsDigits
<1>3. 0 \in H
  BY <1>2
<1>4. ASSUME NEW k \in 0..(n - 1), k \in H PROVE k + 1 \in H
  <2>1. k + 1 \in Nat \ {0} /\ k + 1 \in 0..n
    OBVIOUS
  <2>2. (k + 1) \div b \in 0..k
    <3>1. CASE b = 10
      BY <3>1
    <3>2. CASE b = 16
      BY <3>2
    <3> QED
      BY <3>1, <3>2
  <2>3. IsDigits(low[(k + 1) \div b], (k + 1) \div b, b)
    BY <1>4, <2>2
  <2>4. low[k + 1] = <<Digit((k + 1) % b)>> \o low[(k + 1) \div b]
    BY <1>1, <2>1
  <2>5. IsDigits(low[k + 1], k + 1, b)
    BY <2>1, <2>3, <2>4, DigitsStep
  <2>6. \A i \in 0..(k + 1) : i \in 0..k \/ i = k + 1
    OBVIOUS
  <2> QED
    BY <1>4, <2>1, <2>5, <2>6
<1>5. n \in 0..n
  OBVIOUS
<1>6. n \in H
  <2> HIDE DEF H
  <2> QED
    BY <1>3, <1>4, <1>5, UpTo
<1> QED
  BY <1>6 DEF low

\* An int has two digits less than it has bits.
LEMMA FewDigits ==
  ASSUME NEW b \in {10, 16}, NEW i \in Nat, i < Power(2, Width), NEW s, IsDigits(s, i, b)
  PROVE  Len(s) + 2 <= Width
<1> DEFINE n == Len(s)  w == Width - 2
<1>1. n \in Nat /\ w \in Nat \ {0} /\ w + 1 \in Nat /\ (w + 1) + 1 = Width
  BY ConsoleAssumption, LenProperties DEF IsDigits
<1>b. b \in Nat \ {0} /\ 2 \in Nat \ {0}
  OBVIOUS
<1>2. /\ \A k \in Nat : Power(b, k) \in Nat \ {0} /\ Power(b, k + 1) = b * Power(b, k)
      /\ Power(b, 0) = 1
  BY <1>b, PowerFacts
<1>3. /\ \A k \in Nat : Power(2, k) \in Nat \ {0} /\ Power(2, k + 1) = 2 * Power(2, k)
      /\ Power(2, 0) = 1
  BY <1>b, PowerFacts
<1> HIDE DEF n, w
<1>4. 4 * Power(2, w) <= Power(b, w)
  <2> DEFINE H == {k \in 0..w : k = 0 \/ 4 * Power(2, k) <= Power(b, k)}
  <2>1. 0 \in H
    BY <1>1
  <2>2. ASSUME NEW k \in 0..(w - 1), k \in H PROVE k + 1 \in H
    <3>1. /\ Power(b, k + 1) = b * Power(b, k) /\ Power(2, k + 1) = 2 * Power(2, k)
          /\ Power(b, k) \in Nat /\ Power(2, k) \in Nat
      BY <1>2, <1>3
    <3>2. 4 * Power(2, k + 1) <= Power(b, k + 1)
      <4>1. CASE k = 0
        BY <1>2, <1>3, <3>1, <4>1
      <4>2. CASE k # 0
        <5>1. 4 * Power(2, k) <= Power(b, k)
          BY <2>2, <4>2
        <5>2. CASE b = 10
          BY <3>1, <5>1, <5>2
        <5>3. CASE b = 16
          BY <3>1, <5>1, <5>3
        <5> QED
          BY <5>2, <5>3
      <4> QED
        BY <4>1, <4>2
    <3>3. k + 1 \in 0..w
      BY <1>1
    <3> QED
      BY <3>2, <3>3
  <2>3. w \in 0..w /\ w \in Nat
    BY <1>1
  <2>4. w \in H
    <3> HIDE DEF H
    <3> QED
      BY <2>1, <2>2, <2>3, UpTo
  <2> QED
    BY <1>1, <2>4
<1>5. Power(2, Width) = 4 * Power(2, w)
  <2>1. Power(2, w) \in Nat /\ Power(2, w + 1) = 2 * Power(2, w)
        /\ Power(2, (w + 1) + 1) = 2 * Power(2, w + 1)
    BY <1>1, <1>3
  <2> QED
    BY <1>1, <2>1
<1>6. SUFFICES ASSUME w < n PROVE FALSE
  BY <1>1, ConsoleAssumption DEF w, n
<1>7. n - 1 \in Nat /\ w <= n - 1 /\ w \in Nat /\ n # 0
  BY <1>1, <1>6
<1>8. Power(b, w) <= Power(b, n - 1)
  BY <1>7, PowerGrows
<1>9. Power(b, n - 1) <= i
  <2>1. i # 0
    <3>1. Len(<<>>) = 0
      OBVIOUS
    <3> QED
      BY <1>7, <3>1 DEF IsDigits, n
  <2> QED
    BY <2>1 DEF IsDigits, n
<1>10. Power(b, w) \in Nat /\ Power(b, n - 1) \in Nat /\ Power(2, w) \in Nat
  BY <1>2, <1>3, <1>7
<1> QED
  BY <1>4, <1>5, <1>8, <1>9, <1>10

\* The int that itoa converts, as unsigned: its size is the sum of the weights of its
\* digits.
LEMMA UnsignedFacts ==
  ASSUME NEW num \in Ints
  PROVE  /\ Power(2, Width) \in Nat
         /\ num % Power(2, Width) \in 0..(Power(2, Width) - 1)
         /\ num # 0 => num % Power(2, Width) # 0
         /\ num < 0 => (-num) % Power(2, Width) = -num /\ -num \in 1..(Power(2, Width) - 1)
<1> DEFINE half == Power(2, Width - 1)  all == Power(2, Width)
<1>1. half \in Nat \ {0} /\ all = 2 * half
  <2>1. Width - 1 \in Nat /\ (Width - 1) + 1 = Width /\ 2 \in Nat \ {0}
    BY ConsoleAssumption
  <2> QED
    BY <2>1, PowerFacts
<1>2. num \in Int /\ -half <= num /\ num < half
  BY <1>1 DEF Ints
<1> HIDE DEF half, all
<1>3. all \in Nat \ {0} /\ half < all
  BY <1>1
<1>4. CASE num >= 0
  <2>1. num \in 0..(all - 1) /\ num = all * 0 + num
    BY <1>1, <1>2, <1>3, <1>4
  <2>2. num % all = num
    BY <1>2, <1>3, <2>1, ModUnique
  <2> QED
    BY <1>2, <1>3, <1>4, <2>2 DEF all
<1>5. CASE num < 0
  <2>0. -num \in 1..(all - 1) /\ -num \in 0..(all - 1) /\ -num = all * 0 + (-num) /\ -num \in Int
    BY <1>1, <1>2, <1>3, <1>5
  <2>1. (-num) % all = -num
    BY <1>3, <2>0, ModUnique
  <2>2. /\ num + all \in 1..(all - 1) /\ num + all \in 0..(all - 1)
        /\ num = all * (-1) + (num + all)
    BY <1>1, <1>2, <1>3, <1>5
  <2>3. num % all = num + all
    BY <1>2, <1>3, <2>2, ModUnique
  <2> QED
    BY <1>3, <1>5, <2>0, <2>1, <2>2, <2>3 DEF all
<1> QED
  BY <1>2, <1>4, <1>5

\* Reverse puts the last character first.
LEMMA ReverseFacts ==
  ASSUME NEW C, NEW s \in Seq(C)
  PROVE  /\ Reverse(s) \in Seq(C) /\ Len(Reverse(s)) = Len(s)
         /\ \A k \in 1..Len(s) : Reverse(s)[k] = s[(Len(s) - k) + 1]
<1>1. Len(s) \in Nat /\ \A k \in 1..Len(s) : s[k] \in C
  BY LenProperties, ElementOfSeq
<1>2. \A k \in 1..Len(s) : (Len(s) - k) + 1 \in 1..Len(s)
  BY <1>1
<1> QED
  BY <1>1, <1>2 DEF Reverse

\* It turns the order of two texts and of the characters of each.
LEMMA ReverseConcat ==
  ASSUME NEW C, NEW s \in Seq(C), NEW t \in Seq(C)
  PROVE  Reverse(s \o t) = Reverse(t) \o Reverse(s)
<1> DEFINE st == s \o t  rst == Reverse(st)  rs == Reverse(s)  rt == Reverse(t)
           both == rt \o rs  m == Len(s)  n == Len(t)
<1>1. m \in Nat /\ n \in Nat
  BY LenProperties
<1>2. /\ st \in Seq(C) /\ Len(st) = m + n
      /\ \A k \in 1..(m + n) : st[k] = IF k <= m THEN s[k] ELSE t[k - m]
  BY ConcatProperties
<1>3. rs \in Seq(C) /\ Len(rs) = m /\ \A k \in 1..m : rs[k] = s[(m - k) + 1]
  BY ReverseFacts
<1>4. rt \in Seq(C) /\ Len(rt) = n /\ \A k \in 1..n : rt[k] = t[(n - k) + 1]
  BY ReverseFacts
<1>5. /\ rst \in Seq(C) /\ Len(rst) = m + n
      /\ \A k \in 1..(m + n) : rst[k] = st[((m + n) - k) + 1]
  <2> HIDE DEF st, m, n
  <2> QED
    BY <1>2, ReverseFacts
<1>6. /\ both \in Seq(C) /\ Len(both) = n + m
      /\ \A k \in 1..(n + m) : both[k] = IF k <= n THEN rt[k] ELSE rs[k - n]
  <2> HIDE DEF rs, rt, m, n
  <2> QED
    BY <1>3, <1>4, ConcatProperties
<1> HIDE DEF st, rst, rs, rt, both, m, n
<1>7. ASSUME NEW k \in 1..(m + n) PROVE rst[k] = both[k]
  <2> DEFINE j == ((m + n) - k) + 1
  <2>1. j \in 1..(m + n) /\ k \in 1..(n + m)
    BY <1>1
  <2>2. rst[k] = IF j <= m THEN s[j] ELSE t[j - m]
    BY <1>2, <1>5, <2>1
  <2>3. CASE k <= n
    <3>1. ~(j <= m) /\ j - m = (n - k) + 1 /\ k \in 1..n
      BY <1>1, <2>3
    <3> QED
      BY <1>4, <1>6, <2>1, <2>2, <2>3, <3>1
  <2>4. CASE ~(k <= n)
    <3>1. j <= m /\ k - n \in 1..m /\ j = (m - (k - n)) + 1
      BY <1>1, <2>4
    <3> QED
      BY <1>3, <1>6, <2>1, <2>2, <2>4, <3>1
  <2> QED
    BY <2>3, <2>4
<1>8. rst = both
  <2>1. Len(rst) = Len(both) /\ \A k \in 1..Len(rst) : rst[k] = both[k]
    BY <1>1, <1>5, <1>6, <1>7
  <2> QED
    BY <1>5, <1>6, <2>1, SeqEqual
<1> QED
  BY <1>8 DEF st, rst, rs, rt, both

\* How many digits u has, and its digits from the first one on, as in Numeral.
SizeOf(b, u) == CHOOSE k \in 1..Width : Power(b, k) > u /\ (k = 1 \/ Power(b, k - 1) <= u)
DigitsOf(b, u) ==
  [k \in 1..SizeOf(b, u) |-> Digit((u \div Power(b, SizeOf(b, u) - k)) % b)]

\* A number with a number of digits has no other number of digits.
LEMMA SizeFacts ==
  ASSUME NEW b \in {10, 16}, NEW u \in Nat, NEW n \in 1..Width,
         u < Power(b, n), n = 1 \/ Power(b, n - 1) <= u
  PROVE  SizeOf(b, u) = n
<1> DEFINE Fits(k) == Power(b, k) > u /\ (k = 1 \/ Power(b, k - 1) <= u)
<1>b. b \in Nat \ {0} /\ Width \in Nat
  BY ConsoleAssumption
<1>1. \A k \in 1..Width : k \in Nat /\ k - 1 \in Nat
  BY <1>b
<1>2. \A k \in 1..Width : Power(b, k) \in Nat /\ Power(b, k - 1) \in Nat
  BY <1>1, <1>b, PowerFacts
<1>3. Fits(n)
  BY <1>2
<1>4. ASSUME NEW k \in 1..Width, Fits(k) PROVE k = n
  <2>1. \A i, j \in 1..Width : i < j => j # 1 /\ i <= j - 1
    BY <1>b
  <2>2. \A i, j \in 1..Width : i < j => Power(b, i) <= Power(b, j - 1)
    BY <1>1, <1>b, <2>1, PowerGrows
  <2>3. ~(k < n)
    BY <1>2, <1>4, <2>1, <2>2
  <2>4. ~(n < k)
    BY <1>2, <1>4, <2>1, <2>2
  <2> QED
    BY <1>b, <2>3, <2>4
<1>5. SizeOf(b, u) = CHOOSE k \in 1..Width : Fits(k)
  BY DEF SizeOf
<1> HIDE DEF Fits
<1>6. (CHOOSE k \in 1..Width : Fits(k)) = n
  BY <1>3, <1>4
<1> QED
  BY <1>5, <1>6

\* Turned round, what the loop of itoa has written is the digits of the numeral.
LEMMA LoopDigits ==
  ASSUME NEW b \in {10, 16}, NEW u \in 1..(Power(2, Width) - 1), Power(2, Width) \in Nat
  PROVE  /\ LowOf(b)[u] \in Seq(Chars) /\ Len(LowOf(b)[u]) + 2 <= Width
         /\ Reverse(LowOf(b)[u]) = DigitsOf(b, u)
<1> DEFINE s == LowOf(b)[u]  n == Len(s)
<1>1. u \in Nat /\ u # 0 /\ u < Power(2, Width)
  OBVIOUS
<1>2. IsDigits(s, u, b)
  BY <1>1, LowDigits
<1> HIDE DEF s
<1>3. /\ s \in Seq(Chars) /\ n \in Nat \ {0} /\ u < Power(b, n) /\ Power(b, n - 1) <= u
      /\ \A k \in 1..n : s[k] = Digit((u \div Power(b, k - 1)) % b)
  BY <1>1, <1>2, LenProperties DEF IsDigits
<1>4. n + 2 <= Width
  BY <1>1, <1>2, FewDigits
<1>5. SizeOf(b, u) = n
  <2>1. n \in 1..Width
    BY <1>3, <1>4, ConsoleAssumption
  <2> QED
    BY <1>1, <1>3, <2>1, SizeFacts
<1>6. /\ Reverse(s) \in Seq(Chars) /\ Len(Reverse(s)) = n
      /\ \A k \in 1..n : Reverse(s)[k] = s[(n - k) + 1]
  BY <1>3, ReverseFacts
<1> HIDE DEF n
<1>7. \A k \in 1..n : Reverse(s)[k] = Digit((u \div Power(b, n - k)) % b)
  <2>1. \A k \in 1..n : (n - k) + 1 \in 1..n /\ ((n - k) + 1) - 1 = n - k
    BY <1>3
  <2> QED
    BY <1>3, <1>6, <2>1
<1>8. Reverse(s) = [k \in 1..n |-> Reverse(s)[k]]
  BY <1>6, LenProperties
<1>9. Reverse(s) = DigitsOf(b, u)
  BY <1>5, <1>7, <1>8 DEF DigitsOf
<1> QED
  BY <1>3, <1>4, <1>9 DEF n, s

\* What itoa returns: the loop's digits turned round, after the sign or the prefix.
LEMMA ItoaText ==
  ASSUME NEW num \in Ints, num # 0, NEW b \in {10, 16}
  PROVE  \E u \in 1..(Power(2, Width) - 1) :
           /\ u = IF b = 10 /\ num < 0 THEN -num ELSE num % Power(2, Width)
           /\ itoa(num, b) = (IF b = 16 THEN <<"0", "x">>
                              ELSE IF num < 0 THEN <<"-">> ELSE <<>>) \o DigitsOf(b, u)
           /\ itoa(num, b) \in Seq(Chars) /\ Len(itoa(num, b)) <= Width
<1> DEFINE all == Power(2, Width)
           neg == b = 10 /\ num < 0
           u == (IF neg THEN -num ELSE num) % all
           s == LowOf(b)[u]
           sign == IF neg THEN <<"-">> ELSE <<>>
           prefix == IF b = 16 THEN <<"x", "0">> ELSE <<>>
           front == IF b = 16 THEN <<"0", "x">> ELSE IF num < 0 THEN <<"-">> ELSE <<>>
           tail == sign \o prefix
<1>1. /\ all \in Nat /\ u \in 1..(all - 1)
      /\ u = IF neg THEN -num ELSE num % all
  <2>1. num \in Int /\ all \in Nat /\ num % all \in 0..(all - 1) /\ num % all # 0
        /\ (num < 0 => (-num) % all = -num /\ -num \in 1..(all - 1))
    BY UnsignedFacts, PowerFacts DEF Ints
  <2>2. CASE neg
    BY <2>1, <2>2
  <2>3. CASE ~neg
    BY <2>1, <2>3
  <2> QED
    BY <2>2, <2>3
<1>2. itoa(num, b) = Reverse(s \o sign \o prefix)
  BY DEF itoa, LowOf
<1> HIDE DEF u, all
<1>3. s \in Seq(Chars) /\ Len(s) + 2 <= Width /\ Reverse(s) = DigitsOf(b, u)
  BY <1>1, LoopDigits DEF all
<1>4. "-" \in Chars /\ "x" \in Chars /\ "0" \in Chars
  BY CharFacts DEF Chars, Digit
<1>5. /\ sign \in Seq(Chars) /\ prefix \in Seq(Chars) /\ tail \in Seq(Chars)
      /\ Len(tail) <= 2 /\ Reverse(tail) = front
  <2>1. CASE b = 16
    <3>1. sign = <<>> /\ prefix = <<"x", "0">> /\ front = <<"0", "x">>
      BY <2>1
    <3>2. <<>> \in Seq(Chars) /\ <<"x", "0">> \in Seq(Chars) /\ Len(<<"x", "0">>) = 2
      BY <1>4
    <3>3. tail = <<"x", "0">>
      BY <3>1, <3>2, ConcatEmptySeq
    <3>4. Reverse(<<"x", "0">>) = <<"0", "x">>
      BY DEF Reverse
    <3> HIDE DEF sign, prefix, tail, front
    <3> QED
      BY <3>1, <3>2, <3>3, <3>4
  <2>2. CASE neg
    <3>1. sign = <<"-">> /\ prefix = <<>> /\ front = <<"-">>
      BY <2>2
    <3>2. <<>> \in Seq(Chars) /\ <<"-">> \in Seq(Chars) /\ Len(<<"-">>) = 1
      BY <1>4
    <3>3. tail = <<"-">>
      BY <3>1, <3>2, ConcatEmptySeq
    <3>4. Reverse(<<"-">>) = <<"-">>
      BY DEF Reverse
    <3> HIDE DEF sign, prefix, tail, front
    <3> QED
      BY <3>1, <3>2, <3>3, <3>4
  <2>3. CASE b = 10 /\ ~(num < 0)
    <3>1. sign = <<>> /\ prefix = <<>> /\ front = <<>>
      BY <2>3
    <3>2. <<>> \in Seq(Chars) /\ Len(<<>>) = 0
      BY EmptySeq
    <3>3. tail = <<>>
      BY <3>1, <3>2, ConcatEmptySeq
    <3>4. Reverse(<<>>) = <<>>
      BY <3>2 DEF Reverse
    <3> HIDE DEF sign, prefix, tail, front
    <3> QED
      BY <3>1, <3>2, <3>3, <3>4
  <2> QED
    BY <2>1, <2>2, <2>3
<1> HIDE DEF s, sign, prefix, tail, front
<1>6. s \o sign \o prefix = s \o tail
  BY <1>3, <1>5, ConcatAssociative DEF tail
<1>7. itoa(num, b) = front \o DigitsOf(b, u)
  BY <1>2, <1>3, <1>5, <1>6, ReverseConcat
<1>8. itoa(num, b) \in Seq(Chars) /\ Len(itoa(num, b)) <= Width
  <2>1. /\ s \o tail \in Seq(Chars) /\ Len(s \o tail) = Len(s) + Len(tail)
        /\ Len(s) \in Nat /\ Len(tail) \in Nat
    BY <1>3, <1>5, ConcatProperties, LenProperties
  <2>2. Reverse(s \o tail) \in Seq(Chars) /\ Len(Reverse(s \o tail)) = Len(s \o tail)
    BY <2>1, ReverseFacts
  <2>3. Len(s \o tail) <= Width
    BY <1>3, <1>5, <2>1, ConsoleAssumption
  <2> QED
    BY <1>2, <1>6, <2>2, <2>3
<1> QED
  BY <1>1, <1>7, <1>8 DEF front, all

\* itoa writes the numeral of every int, in both bases that prntf uses: each digit,
\* the sign and the prefix, the least int included, which has no negative
\* (stdlib.c:3-53).
THEOREM ItoaIsNumeral ==
  \A num \in Ints, base \in {10, 16} : itoa(num, base) = Numeral(num, base)
<1> SUFFICES ASSUME NEW num \in Ints, NEW b \in {10, 16}
             PROVE  itoa(num, b) = Numeral(num, b)
  OBVIOUS
<1> DEFINE u == IF b = 10 /\ num < 0 THEN -num ELSE num % Power(2, Width)
<1>1. Numeral(num, b) = CASE b = 16 /\ num # 0 -> <<"0", "x">> \o DigitsOf(b, u)
                          [] b = 10 /\ num < 0 -> <<"-">> \o DigitsOf(b, u)
                          [] OTHER -> DigitsOf(b, u)
  BY DEF Numeral, DigitsOf, SizeOf
<1> HIDE DEF u
<1>2. CASE num = 0
  <2>1. itoa(num, b) = <<"0">>
    BY <1>2 DEF itoa
  <2>2. Power(2, Width) \in Nat \ {0}
    <3>1. 2 \in Nat \ {0}
      OBVIOUS
    <3> QED
      BY <3>1, PowerFacts, ConsoleAssumption
  <2>3. u = 0
    <3>1. 0 \in 0..(Power(2, Width) - 1) /\ 0 = Power(2, Width) * 0 + 0
      BY <2>2
    <3>2. 0 % Power(2, Width) = 0
      BY <2>2, <3>1, ModUnique
    <3> QED
      BY <1>2, <3>2 DEF u
  <2>4. Power(b, 0) = 1 /\ 0 < Power(b, 1) /\ 1 \in 1..Width
    <3>1. b \in Nat \ {0} /\ 1 \in Nat
      OBVIOUS
    <3>2. Power(b, 1) \in Nat \ {0}
      BY <3>1, PowerFacts
    <3> QED
      BY <3>1, <3>2, PowerFacts, ConsoleAssumption
  <2>5. SizeOf(b, u) = 1
    BY <2>3, <2>4, SizeFacts
  <2>6. DigitsOf(b, u) = [k \in 1..1 |-> "0"]
    <3>1. \A k \in 1..1 : 1 - k = 0
      OBVIOUS
    <3>2. (0 \div 1) % b = 0 /\ Digit(0) = "0"
      BY DEF Digit
    <3> QED
      BY <2>3, <2>4, <2>5, <3>1, <3>2 DEF DigitsOf
  <2>7. [k \in 1..1 |-> "0"] = <<"0">>
    OBVIOUS
  <2> QED
    BY <1>1, <1>2, <2>1, <2>6, <2>7
<1>3. CASE num # 0
  <2>1. /\ itoa(num, b) = (IF b = 16 THEN <<"0", "x">>
                           ELSE IF num < 0 THEN <<"-">> ELSE <<>>) \o DigitsOf(b, u)
        /\ u \in 1..(Power(2, Width) - 1) /\ Power(2, Width) \in Nat
    BY <1>3, ItoaText, UnsignedFacts DEF u
  <2>2. DigitsOf(b, u) \in Seq(Chars)
    BY <2>1, LoopDigits, ReverseFacts
  <2>3. CASE b = 16
    BY <1>1, <1>3, <2>1, <2>3
  <2>4. CASE b = 10 /\ num < 0
    BY <1>1, <1>3, <2>1, <2>4
  <2>5. CASE b = 10 /\ ~(num < 0)
    BY <1>1, <1>3, <2>1, <2>2, <2>5, ConcatEmptySeq
  <2> QED
    BY <2>3, <2>4, <2>5
<1> QED
  BY <1>2, <1>3

\* The text of every int that prntf converts fits into intbuf with its end: the array
\* has a byte more than an int has bits (stdlib.c:4).
THEOREM ItoaFits ==
  \A num \in Ints, base \in {10, 16} :
    itoa(num, base) \in Seq(Chars) /\ Len(itoa(num, base)) < BufSize
<1> SUFFICES ASSUME NEW num \in Ints, NEW b \in {10, 16}
             PROVE  itoa(num, b) \in Seq(Chars) /\ Len(itoa(num, b)) < BufSize
  OBVIOUS
<1>1. CASE num = 0
  <2>1. itoa(num, b) = <<"0">> /\ "0" \in Chars
    BY <1>1, CharFacts DEF itoa, Chars, Digit
  <2>2. <<"0">> \in Seq(Chars) /\ Len(<<"0">>) = 1
    BY <2>1
  <2> QED
    BY <2>1, <2>2, ConsoleAssumption DEF BufSize
<1>2. CASE num # 0
  <2>1. itoa(num, b) \in Seq(Chars) /\ Len(itoa(num, b)) <= Width
    BY <1>2, ItoaText
  <2> QED
    BY <2>1, LenProperties, ConsoleAssumption DEF BufSize
<1> QED
  BY <1>1, <1>2

-----------------------------------------------------------------------------
(* A line and what is left of it                                            *)

\* The text of a part of a line.
Piece(q) == IF q.base = 0 THEN <<q.v>> ELSE Numeral(q.v, q.base)

\* A part is a character, or a number whose text itoa writes.
LEMMA PieceFacts ==
  ASSUME NEW q \in Parts
  PROVE  /\ q.base = 0 => q.v \in Chars /\ Piece(q) = <<q.v>>
         /\ q.base # 0 => /\ itoa(q.v, q.base) = Piece(q)
                          /\ Len(Piece(q)) < BufSize
         /\ Piece(q) \in Seq(Chars)
<1>1. (q.base = 0 /\ q.v \in Chars) \/ (q.base \in {10, 16} /\ q.v \in Ints)
  BY DEF Parts
<1>2. CASE q.base = 0 /\ q.v \in Chars
  BY <1>2 DEF Piece
<1>3. CASE q.base \in {10, 16} /\ q.v \in Ints
  BY <1>3, ItoaIsNumeral, ItoaFits DEF Piece
<1> QED
  BY <1>1, <1>2, <1>3

\* The text of a line is that of its first part and that of the others.
LEMMA TextFacts ==
  /\ Text(<<>>) = <<>>
  /\ \A ps \in Seq(Parts) :
       /\ Text(ps) \in Seq(Chars)
       /\ ps # <<>> => Text(ps) = Piece(Head(ps)) \o Text(Tail(ps))
<1> DEFINE Pieces(ps) == [k \in DOMAIN ps |-> Piece(ps[k])]
<1>1. \A ps : Text(ps) = FlattenSeq(Pieces(ps))
  BY DEF Text, Piece
<1>2. ASSUME NEW ps \in Seq(Parts)
      PROVE  /\ Pieces(ps) \in Seq(Seq(Chars)) /\ Len(Pieces(ps)) = Len(ps)
             /\ \A k \in 1..Len(ps) : Pieces(ps)[k] = Piece(ps[k])
  <2>1. Len(ps) \in Nat /\ DOMAIN ps = 1..Len(ps) /\ \A k \in 1..Len(ps) : ps[k] \in Parts
    BY LenProperties, ElementOfSeq
  <2>2. \A k \in 1..Len(ps) : Piece(ps[k]) \in Seq(Chars)
    BY <2>1, PieceFacts
  <2> QED
    BY <2>1, <2>2
<1>3. <<>> \in Seq(Parts) /\ Len(<<>>) = 0
  BY EmptySeq
<1>4. Text(<<>>) = <<>>
  <2>1. Pieces(<<>>) = <<>>
    OBVIOUS
  <2> HIDE DEF Pieces
  <2> QED
    BY <1>1, <1>3, <2>1 DEF FlattenSeq
<1>5. ASSUME NEW ps \in Seq(Parts) PROVE Text(ps) \in Seq(Chars)
  <2> HIDE DEF Pieces
  <2>1. Pieces(ps) \in Seq(Seq(Chars)) /\ <<>> \in Seq(Chars)
    BY <1>2, EmptySeq
  <2> QED
    BY <1>1, <2>1, FlattenAppend
<1>6. ASSUME NEW ps \in Seq(Parts), ps # <<>>
      PROVE  Text(ps) = Piece(Head(ps)) \o Text(Tail(ps))
  <2>1. /\ Tail(ps) \in Seq(Parts) /\ Head(ps) = ps[1] /\ Len(ps) \in Nat \ {0}
        /\ Len(Tail(ps)) = Len(ps) - 1
        /\ \A k \in 1..(Len(ps) - 1) : Tail(ps)[k] = ps[k + 1]
    BY <1>6, HeadTailProperties, EmptySeq
  <2>2. /\ Pieces(ps) \in Seq(Seq(Chars)) /\ Len(Pieces(ps)) = Len(ps)
        /\ \A k \in 1..Len(ps) : Pieces(ps)[k] = Piece(ps[k])
    BY <1>2
  <2>3. /\ Pieces(Tail(ps)) \in Seq(Seq(Chars)) /\ Len(Pieces(Tail(ps))) = Len(ps) - 1
        /\ \A k \in 1..(Len(ps) - 1) : Pieces(Tail(ps))[k] = Piece(Tail(ps)[k])
    <3> HIDE DEF Pieces
    <3> QED
      BY <1>2, <2>1
  <2> DEFINE a == Pieces(ps)  b == Pieces(Tail(ps))
  <2> HIDE DEF Pieces
  <2>4. a # <<>>
    BY <1>3, <2>1, <2>2
  <2>5. /\ Tail(a) \in Seq(Seq(Chars)) /\ Len(Tail(a)) = Len(ps) - 1 /\ Head(a) = a[1]
        /\ \A k \in 1..(Len(ps) - 1) : Tail(a)[k] = a[k + 1]
    <3> HIDE DEF a
    <3>1. a \in Seq(Seq(Chars)) /\ Len(a) = Len(ps)
      BY <2>2 DEF a
    <3> QED
      BY <2>4, <3>1, HeadTailProperties
  <2>6. 1 \in 1..Len(ps) /\ \A k \in 1..(Len(ps) - 1) : k + 1 \in 1..Len(ps)
    BY <2>1
  <2>7. Tail(a) = b /\ Head(a) = Piece(Head(ps))
    <3>1. \A k \in 1..(Len(ps) - 1) : Tail(a)[k] = b[k]
      BY <2>1, <2>2, <2>3, <2>5, <2>6
    <3>2. Tail(a) = b
      BY <2>3, <2>5, <3>1, SeqEqual
    <3> QED
      BY <2>1, <2>2, <2>5, <2>6, <3>2
  <2>8. FlattenSeq(a) = Head(a) \o FlattenSeq(Tail(a))
    BY <2>2, <2>4, FlattenHead
  <2> QED
    BY <1>1, <2>7, <2>8
<1> QED
  BY <1>4, <1>5, <1>6

-----------------------------------------------------------------------------
(* What is left of a line, step by step                                     *)

Calls == [on : BOOLEAN, parts : Seq(Parts), pos : 0..BufSize,
          c : Chars \cup {None}, level : BOOLEAN]
Buffers == [1..BufSize -> Chars \cup {NUL}]

\* NothingLost of a call m, a buffer b, the output p and the lines st.
InHand(m) == IF m.c = None THEN <<>> ELSE <<m.c>>
Made(m, p, unread, st) == p \o InHand(m) \o unread \o Text(m.parts) = FlattenSeq(st)
EndsAt(m, b, k) == b[k] = NUL /\ \A i \in m.pos..(k - 1) : b[i] # NUL
LineOK(m, b, p, st) ==
  \/ m.pos = 0 /\ Made(m, p, <<>>, st)
  \/ m.pos > 0 /\ \E k \in m.pos..BufSize :
       EndsAt(m, b, k) /\ Made(m, p, SubSeq(b, m.pos, k - 1), st)

\* Joining texts.
LEMMA TextAlgebra ==
  /\ <<>> \in Seq(Chars) /\ \A x \in Chars : <<x>> \in Seq(Chars)
  /\ \A s, t \in Seq(Chars) : s \o t \in Seq(Chars)
  /\ \A s \in Seq(Chars) : s \o <<>> = s /\ <<>> \o s = s
  /\ \A s, t, u \in Seq(Chars) : (s \o t) \o u = s \o (t \o u)
<1>1. \A s \in Seq(Chars) : s \o <<>> = s /\ <<>> \o s = s
  BY ConcatEmptySeq
<1>2. \A s, t, u \in Seq(Chars) : (s \o t) \o u = s \o (t \o u)
  BY ConcatAssociative
<1>3. \A s, t \in Seq(Chars) : s \o t \in Seq(Chars)
  BY ConcatProperties
<1>4. <<>> \in Seq(Chars) /\ \A x \in Chars : <<x>> \in Seq(Chars)
  BY EmptySeq
<1> QED
  BY <1>1, <1>2, <1>3, <1>4

\* Before a line, and after it, everything begun is out.
LEMMA IdleLine ==
  ASSUME NEW m \in Calls, NEW b, NEW p \in Seq(Chars), NEW st,
         m.pos = 0, m.c = None, m.parts = <<>>
  PROVE  LineOK(m, b, p, st) <=> p = FlattenSeq(st)
<1>1. InHand(m) = <<>> /\ Text(m.parts) = <<>>
  BY TextFacts DEF InHand
<1>2. p \o InHand(m) \o <<>> \o Text(m.parts) = p
  BY <1>1, TextAlgebra
<1> QED
  BY <1>2 DEF LineOK, Made

\* prntf, or uart_puts, begins a line.
LEMMA BeginLine ==
  ASSUME NEW m \in Calls, NEW b, NEW p \in Seq(Chars), NEW st \in Seq(Seq(Chars)),
         m.pos = 0, m.c = None, p = FlattenSeq(st)
  PROVE  LineOK(m, b, p, Append(st, Text(m.parts)))
<1>1. m.parts \in Seq(Parts)
  BY DEF Calls
<1>2. Text(m.parts) \in Seq(Chars) /\ InHand(m) = <<>>
  BY <1>1, TextFacts DEF InHand
<1>3. p \o InHand(m) \o <<>> \o Text(m.parts) = p \o Text(m.parts)
  BY <1>2, TextAlgebra
<1>4. FlattenSeq(Append(st, Text(m.parts))) = FlattenSeq(st) \o Text(m.parts)
  BY <1>2, FlattenAppend
<1> QED
  BY <1>3, <1>4 DEF LineOK, Made

\* putc takes the next literal in hand.
LEMMA TakeLiteral ==
  ASSUME NEW m \in Calls, NEW b, NEW p \in Seq(Chars), NEW st, LineOK(m, b, p, st),
         m.pos = 0, m.c = None, m.parts # <<>>, Head(m.parts).base = 0,
         NEW n \in Calls, n.pos = 0, n.c = Head(m.parts).v, n.parts = Tail(m.parts)
  PROVE  LineOK(n, b, p, st)
<1>1. m.parts \in Seq(Parts) /\ Head(m.parts) \in Parts /\ Tail(m.parts) \in Seq(Parts)
  BY HeadTailProperties DEF Calls
<1>2. /\ Text(m.parts) = <<n.c>> \o Text(n.parts)
      /\ n.c \in Chars /\ Text(n.parts) \in Seq(Chars)
  BY <1>1, PieceFacts, TextFacts
<1>3. InHand(m) = <<>> /\ InHand(n) = <<n.c>>
  BY <1>2, CharFacts DEF InHand
<1>4. p \o InHand(m) \o <<>> \o Text(m.parts) = FlattenSeq(st)
  BY DEF LineOK, Made
<1>5. p \o InHand(n) \o <<>> \o Text(n.parts) = p \o InHand(m) \o <<>> \o Text(m.parts)
  BY <1>2, <1>3, TextAlgebra
<1> QED
  BY <1>4, <1>5 DEF LineOK, Made

\* itoa puts the text of the next number into the buffer, for puts to read.
LEMMA TakeNumber ==
  ASSUME NEW m \in Calls, NEW b \in Buffers, NEW p \in Seq(Chars), NEW st, LineOK(m, b, p, st),
         m.pos = 0, m.c = None, m.parts # <<>>, Head(m.parts).base # 0,
         NEW n \in Calls, n.pos = 1, n.c = None, n.parts = Tail(m.parts),
         NEW d, d = [i \in 1..BufSize |->
                       IF i <= Len(Piece(Head(m.parts))) THEN Piece(Head(m.parts))[i]
                       ELSE IF i = Len(Piece(Head(m.parts))) + 1 THEN NUL ELSE b[i]]
  PROVE  /\ d \in Buffers /\ \E i \in 1..BufSize : d[i] = NUL
         /\ LineOK(n, d, p, st)
<1> DEFINE t == Piece(Head(m.parts))  k == Len(t) + 1
<1>1. m.parts \in Seq(Parts) /\ Head(m.parts) \in Parts /\ Tail(m.parts) \in Seq(Parts)
  BY HeadTailProperties DEF Calls
<1>2. /\ Text(m.parts) = t \o Text(n.parts) /\ t \in Seq(Chars) /\ Text(n.parts) \in Seq(Chars)
      /\ Len(t) < BufSize /\ BufSize \in Nat
  <2>1. t \in Seq(Chars) /\ Len(t) < BufSize
    BY <1>1, PieceFacts
  <2>2. Text(m.parts) = t \o Text(n.parts) /\ Text(n.parts) \in Seq(Chars)
    BY <1>1, TextFacts
  <2> QED
    BY <2>1, <2>2, ConsoleAssumption DEF BufSize
<1>3. Len(t) \in Nat /\ \A i \in 1..Len(t) : t[i] \in Chars
  BY <1>2, LenProperties, ElementOfSeq
<1> HIDE DEF t
<1>4. k \in 1..BufSize /\ k - 1 = Len(t)
  BY <1>2, <1>3
<1>5. d \in Buffers
  <2>1. ASSUME NEW i \in 1..BufSize PROVE d[i] \in Chars \cup {NUL}
    <3>1. i <= Len(t) => i \in 1..Len(t)
      BY <1>3
    <3> QED
      BY <1>3, <3>1 DEF Buffers, t
  <2> QED
    BY <2>1 DEF Buffers
<1>6. d[k] = NUL /\ \A i \in 1..Len(t) : d[i] = t[i] /\ d[i] # NUL
  <2>1. d[k] = NUL
    <3>1. ~(k <= Len(t))
      BY <1>3
    <3> QED
      BY <1>4, <3>1 DEF t
  <2>2. ASSUME NEW i \in 1..Len(t) PROVE d[i] = t[i] /\ d[i] # NUL
    <3>1. i \in 1..BufSize /\ i <= Len(t)
      BY <1>2, <1>3
    <3>2. d[i] = t[i]
      BY <3>1 DEF t
    <3> QED
      BY <1>3, <3>2, CharFacts
  <2> QED
    BY <2>1, <2>2
<1>7. SubSeq(d, 1, k - 1) = t
  <2>1. \A i \in 1..(k - 1) : d[i] \in Chars
    BY <1>3, <1>4, <1>6
  <2>2. /\ SubSeq(d, 1, k - 1) \in Seq(Chars) /\ Len(SubSeq(d, 1, k - 1)) = k - 1
        /\ \A i \in 1..(k - 1) : SubSeq(d, 1, k - 1)[i] = d[i]
    <3>1. 1 \in Int /\ k - 1 \in Int /\ k - 1 \in Nat
      BY <1>3, <1>4
    <3>2. /\ SubSeq(d, 1, k - 1) \in Seq(Chars)
          /\ Len(SubSeq(d, 1, k - 1)) = IF 1 <= k - 1 THEN (k - 1) - 1 + 1 ELSE 0
          /\ \A i \in 1..((k - 1) - 1 + 1) : SubSeq(d, 1, k - 1)[i] = d[1 + i - 1]
      BY <2>1, <3>1, SubSeqProperties
    <3> QED
      BY <3>1, <3>2
  <2>3. Len(SubSeq(d, 1, k - 1)) = Len(t) /\ \A i \in 1..Len(t) : SubSeq(d, 1, k - 1)[i] = t[i]
    BY <1>4, <1>6, <2>2
  <2> HIDE DEF k
  <2> QED
    BY <1>2, <2>2, <2>3, SeqEqual
<1>8. InHand(m) = <<>> /\ InHand(n) = <<>>
  BY DEF InHand
<1>9. p \o InHand(m) \o <<>> \o Text(m.parts) = FlattenSeq(st)
  BY DEF LineOK, Made
<1>10. p \o InHand(n) \o t \o Text(n.parts) = p \o InHand(m) \o <<>> \o Text(m.parts)
  BY <1>2, <1>8, TextAlgebra
<1>11. EndsAt(n, d, k) /\ Made(n, p, SubSeq(d, n.pos, k - 1), st)
  BY <1>4, <1>6, <1>7, <1>9, <1>10 DEF EndsAt, Made
<1>12. \E i \in 1..BufSize : d[i] = NUL
  BY <1>4, <1>6
<1>13. n.pos > 0 /\ k \in n.pos..BufSize
  BY <1>4
<1> HIDE DEF k
<1> QED
  BY <1>5, <1>11, <1>12, <1>13 DEF LineOK

\* puts has come to the end of the text.
LEMMA ReadEnd ==
  ASSUME NEW m \in Calls, NEW b \in Buffers, NEW p \in Seq(Chars), NEW st, LineOK(m, b, p, st),
         m.pos > 0, m.c = None, b[m.pos] = NUL,
         NEW n \in Calls, n.pos = 0, n.c = None, n.parts = m.parts
  PROVE  LineOK(n, b, p, st)
<1>1. PICK k \in m.pos..BufSize : EndsAt(m, b, k) /\ Made(m, p, SubSeq(b, m.pos, k - 1), st)
  BY DEF LineOK
<1>2. m.pos \in Nat /\ BufSize \in Nat /\ k \in Nat
  BY ConsoleAssumption DEF Calls, BufSize
<1>3. k = m.pos
  <2>1. SUFFICES ASSUME k # m.pos PROVE FALSE
    OBVIOUS
  <2>2. m.pos \in m.pos..(k - 1)
    BY <1>2, <2>1
  <2> QED
    BY <1>1, <2>2 DEF EndsAt
<1>4. SubSeq(b, m.pos, k - 1) = <<>>
  BY <1>2, <1>3, SubSeqEmpty
<1>5. InHand(n) = InHand(m)
  BY DEF InHand
<1> QED
  BY <1>1, <1>4, <1>5 DEF LineOK, Made

\* puts has read a character that is not the end, so the end is still to come.
LEMMA ReadChar ==
  ASSUME NEW m \in Calls, NEW b \in Buffers, NEW p \in Seq(Chars), NEW st, LineOK(m, b, p, st),
         m.pos > 0, m.c = None, b[m.pos] # NUL,
         NEW n, n.pos = m.pos + 1, n.c = b[m.pos], n.parts = m.parts
  PROVE  /\ m.pos + 1 \in 0..BufSize /\ b[m.pos] \in Chars
         /\ LineOK(n, b, p, st)
<1>1. PICK k \in m.pos..BufSize : EndsAt(m, b, k) /\ Made(m, p, SubSeq(b, m.pos, k - 1), st)
  BY DEF LineOK
<1>2. m.pos \in Nat /\ BufSize \in Nat /\ k \in Nat /\ m.pos \in 1..BufSize
  BY ConsoleAssumption DEF Calls, BufSize
<1>3. k # m.pos /\ m.pos + 1 <= k /\ k \in n.pos..BufSize /\ n.pos > 0
  BY <1>1, <1>2 DEF EndsAt
<1> DEFINE l == m.pos  u == SubSeq(b, l, k - 1)  v == SubSeq(b, l + 1, k - 1)
<1>4. \A i \in 1..BufSize : b[i] \in Chars \cup {NUL}
  BY DEF Buffers
<1>5. \A i \in l..(k - 1) : i \in 1..BufSize /\ b[i] \in Chars
  <2>1. \A i \in l..(k - 1) : i \in 1..BufSize /\ b[i] # NUL
    BY <1>1, <1>2 DEF EndsAt
  <2> QED
    BY <1>4, <2>1
<1>6. u \in Seq(Chars) /\ Len(u) = k - l /\ \A i \in 1..(k - l) : u[i] = b[l + i - 1]
  <2>1. /\ SubSeq(b, l, k - 1) \in Seq(Chars)
        /\ Len(SubSeq(b, l, k - 1)) = IF l <= k - 1 THEN (k - 1) - l + 1 ELSE 0
        /\ \A i \in 1..((k - 1) - l + 1) : SubSeq(b, l, k - 1)[i] = b[l + i - 1]
    <3>1. l \in Int /\ k - 1 \in Int
      BY <1>2
    <3> HIDE DEF l
    <3> QED
      BY <1>5, <3>1, SubSeqProperties
  <2>2. (k - 1) - l + 1 = k - l /\ l <= k - 1
    BY <1>2, <1>3
  <2> QED
    BY <2>1, <2>2
<1>7. v \in Seq(Chars) /\ Len(v) = (k - l) - 1 /\ \A i \in 1..((k - l) - 1) : v[i] = b[l + i]
  <2>0. \A i \in (l + 1)..(k - 1) : b[i] \in Chars
    BY <1>2, <1>5
  <2>1. /\ SubSeq(b, l + 1, k - 1) \in Seq(Chars)
        /\ Len(SubSeq(b, l + 1, k - 1)) = IF l + 1 <= k - 1 THEN (k - 1) - (l + 1) + 1 ELSE 0
        /\ \A i \in 1..((k - 1) - (l + 1) + 1) : SubSeq(b, l + 1, k - 1)[i] = b[(l + 1) + i - 1]
    <3>1. l + 1 \in Int /\ k - 1 \in Int
      BY <1>2
    <3> HIDE DEF l
    <3> QED
      BY <2>0, <3>1, SubSeqProperties
  <2>2. (k - 1) - (l + 1) + 1 = (k - l) - 1 /\ (l + 1 <= k - 1 \/ (k - l) - 1 = 0)
    BY <1>2, <1>3
  <2>3. \A i \in 1..((k - l) - 1) : (l + 1) + i - 1 = l + i
    BY <1>2
  <2> QED
    BY <2>1, <2>2, <2>3
<1>8. b[l] \in Chars /\ b[l] # None /\ <<b[l]>> \in Seq(Chars)
  BY <1>2, <1>4, CharFacts
<1>9. u = <<b[l]>> \o v
  <2> DEFINE w == <<b[l]>> \o v
  <2>1. /\ w \in Seq(Chars) /\ Len(w) = 1 + ((k - l) - 1)
        /\ \A i \in 1..(1 + ((k - l) - 1)) : w[i] = IF i <= 1 THEN <<b[l]>>[i] ELSE v[i - 1]
    <3>1. Len(<<b[l]>>) = 1
      OBVIOUS
    <3> HIDE DEF v, l
    <3> QED
      BY <1>7, <1>8, <3>1, ConcatProperties
  <2>2. 1 + ((k - l) - 1) = k - l /\ k - l \in Nat
    BY <1>2, <1>3
  <2>3. ASSUME NEW i \in 1..(k - l) PROVE u[i] = w[i]
    <3>1. CASE i = 1
      <4>1. l + i - 1 = l /\ <<b[l]>>[i] = b[l]
        BY <1>2, <3>1
      <4> HIDE DEF u, v, w, l
      <4> QED
        BY <1>6, <2>1, <2>2, <3>1, <4>1
    <3>2. CASE i # 1
      <4>1. i - 1 \in 1..((k - l) - 1) /\ l + (i - 1) = l + i - 1 /\ ~(i <= 1)
        BY <1>2, <3>2
      <4> HIDE DEF u, v, w, l
      <4> QED
        BY <1>6, <1>7, <2>1, <2>2, <4>1
    <3> QED
      BY <3>1, <3>2
  <2>4. Len(u) = Len(w) /\ \A i \in 1..Len(u) : u[i] = w[i]
    <3> HIDE DEF u, v, w, l
    <3> QED
      BY <1>6, <2>1, <2>2, <2>3
  <2>5. u = w
    <3> HIDE DEF u, v, w, l
    <3> QED
      BY <1>6, <2>1, <2>4, SeqEqual
  <2> QED
    BY <2>5
<1>10. InHand(m) = <<>> /\ InHand(n) = <<b[l]>> /\ Text(m.parts) \in Seq(Chars)
  <2>1. m.parts \in Seq(Parts)
    BY DEF Calls
  <2> QED
    BY <1>8, <2>1, TextFacts DEF InHand
<1>11. p \o InHand(n) \o v \o Text(n.parts) = p \o InHand(m) \o u \o Text(m.parts)
  <2>1. p \o InHand(m) \o u = p \o InHand(n) \o v
    <3> HIDE DEF u, v, l
    <3>1. p \o InHand(m) = p
      BY <1>10, TextAlgebra
    <3>2. (p \o <<b[l]>>) \o v = p \o (<<b[l]>> \o v)
      BY <1>7, <1>8, TextAlgebra
    <3> QED
      BY <1>9, <1>10, <3>1, <3>2
  <2> QED
    BY <2>1
<1>12. Made(n, p, v, st)
  BY <1>1, <1>11 DEF Made
<1>13. EndsAt(n, b, k)
  <2>1. \A i \in n.pos..(k - 1) : i \in m.pos..(k - 1)
    BY <1>2
  <2> QED
    BY <1>1, <2>1 DEF EndsAt
<1>14. LineOK(n, b, p, st)
  <2>1. v = SubSeq(b, n.pos, k - 1)
    OBVIOUS
  <2> QED
    BY <1>3, <1>12, <1>13, <2>1 DEF LineOK
<1> QED
  BY <1>2, <1>3, <1>8, <1>14

\* uart_putc puts the character in hand behind the output.
LEMMA PutChar ==
  ASSUME NEW m \in Calls, NEW b, NEW p \in Seq(Chars), NEW st, LineOK(m, b, p, st), m.c # None,
         NEW n \in Calls, n.pos = m.pos, n.c = None, n.parts = m.parts
  PROVE  LineOK(n, b, p \o <<m.c>>, st)
<1>1. m.c \in Chars /\ <<m.c>> \in Seq(Chars)
  BY TextAlgebra DEF Calls
<1>2. (p \o <<m.c>>) \o InHand(n) = p \o InHand(m)
  <2>1. InHand(n) = <<>> /\ InHand(m) = <<m.c>>
    BY DEF InHand
  <2> QED
    BY <1>1, <2>1, TextAlgebra
<1>3. \A s : Made(n, p \o <<m.c>>, s, st) <=> Made(m, p, s, st)
  BY <1>2 DEF Made
<1>4. \A k : EndsAt(n, b, k) <=> EndsAt(m, b, k)
  BY DEF EndsAt
<1> QED
  BY <1>3, <1>4 DEF LineOK

-----------------------------------------------------------------------------
(* ConsoleInv is inductive                                                  *)

\* NothingLost in terms of the call, the buffer and the output.
LEMMA Bridge ==
  /\ NothingLost <=> LineOK(me, intbuf, out \o fifo, started)
  /\ NothingLost' <=> LineOK(me', intbuf', out' \o fifo', started')
<1>1. NothingLost <=> LineOK(me, intbuf, out \o fifo, started)
  BY DEF NothingLost, LineOK, AddsUp, Made, Held, InHand, EndsAt
<1>2. NothingLost' <=> LineOK(me', intbuf', out' \o fifo', started')
  BY DEF NothingLost, LineOK, AddsUp, Made, Held, InHand, EndsAt
<1> QED
  BY <1>1, <1>2

LEMMA TypeFacts ==
  ASSUME TypeOK
  PROVE  /\ current \in Processes /\ call \in [Processes -> Calls] /\ me \in Calls
         /\ intbuf \in Buffers /\ out \o fifo \in Seq(Chars)
<1>1. current \in Processes /\ call \in [Processes -> Calls] /\ intbuf \in Buffers
  BY DEF TypeOK, Calls, Buffers
<1>2. out \o fifo \in Seq(Chars)
  BY TextAlgebra DEF TypeOK
<1> QED
  BY <1>1, <1>2 DEF me

LEMMA IdleFacts ==
  /\ Idle \in Calls
  /\ Idle.on = FALSE /\ Idle.parts = <<>> /\ Idle.pos = 0 /\ Idle.c = None
<1>1. BufSize \in Nat /\ <<>> \in Seq(Parts)
  BY ConsoleAssumption, EmptySeq DEF BufSize
<1> QED
  BY <1>1 DEF Idle, Calls

\* A process that is not printing has all its calls done, and so has every other.
LEMMA NotPrinting ==
  ASSUME ConsoleInv, ~me.on
  PROVE  /\ \A p \in Processes : call[p] = Idle
         /\ me = Idle /\ out \o fifo = FlattenSeq(started)
<1>1. me = Idle /\ \A p \in Processes : call[p] = Idle
  BY TypeFacts DEF ConsoleInv, OnePrints, me
<1>2. LineOK(me, intbuf, out \o fifo, started)
  BY Bridge DEF ConsoleInv
<1>3. out \o fifo = FlattenSeq(started)
  BY <1>1, <1>2, IdleFacts, IdleLine, TypeFacts DEF ConsoleInv
<1> QED
  BY <1>1, <1>3

\* The current process gets on with its line.
LEMMA Becoming ==
  ASSUME ConsoleInv, NEW s \in Calls, Becomes(s), UNCHANGED current
  PROVE  /\ call' \in [Processes -> Calls] /\ me' = s
         /\ \A p \in Processes : p # current => call'[p] = Idle
<1>1. current \in Processes /\ call \in [Processes -> Calls]
  BY TypeFacts DEF ConsoleInv
<1>2. call' = [call EXCEPT ![current] = s]
  BY DEF Becomes
<1>3. \A p \in Processes : p # current => call[p] = Idle
  BY DEF ConsoleInv, OnePrints
<1> QED
  BY <1>1, <1>2, <1>3 DEF me

LEMMA StillPrinting ==
  ASSUME ConsoleInv, NEW s \in Calls, Becomes(s), UNCHANGED procVars,
         s.on, masked' = TRUE, s.c # None => Room'
  PROVE  OnePrints' /\ me' = s /\ call' \in [Processes -> Calls]
<1>1. call' \in [Processes -> Calls] /\ me' = s
      /\ \A p \in Processes : p # current => call'[p] = Idle
  BY Becoming DEF procVars
<1>2. call'[current'] = s /\ current' = current
  BY <1>1 DEF me, procVars
<1> QED
  BY <1>1, <1>2 DEF OnePrints

\* What each process prints is lines of the parts that Parts lists.
LEMMA ProgramTypes ==
  ASSUME NEW n \in Ints
  PROVE  Program(n) \in [Processes -> Seq(Lines)]
<1>1. \A x \in Ints : Hex(x) \in Parts /\ Dec(x) \in Parts
  BY DEF Hex, Dec, Parts
<1>2. \A c \in Chars : Lit(c) \in Parts
  BY DEF Lit, Parts
<1>3. \A c \in {"1", "2", "\n", "F", "S", "T", "H", "R"} : c \in Chars
  <2>1. Digit(1) = "1" /\ Digit(2) = "2" /\ 1 \in 0..15 /\ 2 \in 0..15
    BY DEF Digit
  <2>2. "1" \in Chars /\ "2" \in Chars
    BY <2>1, CharFacts
  <2> QED
    BY <2>2 DEF Chars
<1>4. /\ Newline \in Parts /\ Lit("F") \in Parts /\ Lit("S") \in Parts /\ Lit("T") \in Parts
      /\ Lit("H") \in Parts /\ Lit("R") \in Parts /\ Lit("1") \in Parts /\ Lit("2") \in Parts
  BY <1>2, <1>3 DEF Newline
<1>5. /\ \A x, y \in Parts : Formatted(<<x, y>>) \in Lines
      /\ \A x, y, z \in Parts : Formatted(<<x, y, z>>) \in Lines /\ Plain(<<x, y, z>>) \in Lines
  <2>1. \A x, y, z \in Parts : <<x, y>> \in Seq(Parts) /\ <<x, y, z>> \in Seq(Parts)
    OBVIOUS
  <2>2. \A ps \in Seq(Parts) : Formatted(ps) \in Lines /\ Plain(ps) \in Lines
    BY DEF Formatted, Plain, Lines
  <2> QED
    BY <2>1, <2>2
<1>6. 0 \in Ints /\ \A x \in Int : Wrapped(x) \in Ints
  <2>1. Power(2, Width - 1) \in Nat \ {0} /\ Power(2, Width) = 2 * Power(2, Width - 1)
    <3>1. Width - 1 \in Nat /\ (Width - 1) + 1 = Width /\ 2 \in Nat \ {0}
      BY ConsoleAssumption
    <3> QED
      BY <3>1, PowerFacts
  <2> DEFINE a == Power(2, Width - 1)  w == Power(2, Width)
  <2>2. a \in Nat \ {0} /\ w = 2 * a
    BY <2>1
  <2>3. Ints = -a .. a - 1 /\ \A x \in Int : Wrapped(x) = ((x + a) % w) - a
    BY DEF Ints, Wrapped
  <2> HIDE DEF a, w
  <2>4. 0 \in Ints
    BY <2>2, <2>3
  <2>5. ASSUME NEW x \in Int PROVE Wrapped(x) \in Ints
    <3>1. x + a \in Int /\ w \in Nat \ {0}
      BY <2>2
    <3>2. PICK y \in 0..(w - 1) : y = (x + a) % w
      <4>1. (x + a) % w \in 0..(w - 1)
        BY <3>1
      <4> QED
        BY <4>1
    <3>3. Wrapped(x) = y - a
      BY <2>3, <3>2
    <3>4. y - a \in -a .. a - 1
      <4>1. a \in Int /\ y \in Int /\ 0 <= y /\ y <= 2 * a - 1
        BY <2>2, <3>2
      <4> QED
        BY <4>1
    <3> QED
      BY <2>3, <3>3, <3>4
  <2> QED
    BY <2>4, <2>5
<1>7. \A c \in {"1", "2"}, x \in Int :
        Formatted(<<Lit(c), Dec(Wrapped(x)), Newline>>) \in Lines
  <2> TAKE c \in {"1", "2"}, x \in Int
  <2>1. Lit(c) \in Parts /\ Dec(Wrapped(x)) \in Parts
    BY <1>1, <1>4, <1>6
  <2> QED
    BY <1>4, <1>5, <2>1
<1>8. n \in Int
  <2>1. Power(2, Width - 1) \in Int
    <3>1. Width - 1 \in Nat /\ 2 \in Nat \ {0}
      BY ConsoleAssumption
    <3> QED
      BY <3>1, PowerFacts
  <2> QED
    BY <2>1 DEF Ints
<1>9. \A c \in {"1", "2"} : Hello(c, n) \in Seq(Lines)
  <2> TAKE c \in {"1", "2"}
  <2>1. \A k \in 1..Rounds : n + k - 1 \in Int
    BY <1>8
  <2>2. \A k \in 1..Rounds : Formatted(<<Lit(c), Dec(Wrapped(n + k - 1)), Newline>>) \in Lines
    BY <1>7, <2>1
  <2>3. Rounds \in Nat
    BY ConsoleAssumption
  <2> QED
    BY <2>2, <2>3 DEF Hello
<1>10. FramebufferReport(n) \in Seq(Lines) /\ StartingReaper \in Seq(Lines)
  <2>1. Plain(<<Lit("F"), Hex(n), Newline>>) \in Lines
    BY <1>1, <1>4, <1>5
  <2>2. Formatted(<<Lit("S"), Dec(0), Newline>>) \in Lines
    BY <1>1, <1>4, <1>5, <1>6
  <2> QED
    BY <2>1, <2>2 DEF FramebufferReport, StartingReaper
<1>11. MainLines(n) \in Seq(Lines)
  <2>1. Formatted(<<Lit("H"), Newline>>) \in Lines
    BY <1>4, <1>5
  <2>2. Plain(<<Lit("T"), Hex(n), Newline>>) \in Lines
    BY <1>1, <1>4, <1>5
  <2>3. Formatted(<<Lit("R"), Dec(0), Newline>>) \in Lines
    BY <1>1, <1>4, <1>5, <1>6
  <2>4. \A x, y, z \in Lines : <<x>> \o <<y>> \o <<z>> \in Seq(Lines)
    <3>1. \A x \in Lines : <<x>> \in Seq(Lines)
      OBVIOUS
    <3>2. \A s, t \in Seq(Lines) : s \o t \in Seq(Lines)
      BY ConcatProperties
    <3> QED
      BY <3>1, <3>2
  <2> QED
    BY <2>1, <2>2, <2>3, <2>4 DEF MainLines, SystemConfig
<1> DEFINE Prints(p) ==
      CASE p = Boot  -> FramebufferReport(n) [] p = Reaper -> StartingReaper
        [] p = Main  -> MainLines(n)
        [] p = Proc1 -> Hello("1", n)        [] p = Proc2 -> Hello("2", n)
<1>12. ASSUME NEW p \in Processes PROVE Prints(p) \in Seq(Lines)
  <2>1. p \in {Boot, Reaper, Main, Proc1, Proc2}
    BY DEF Processes
  <2>2. Prints(p) \in {FramebufferReport(n), StartingReaper, MainLines(n),
                      Hello("1", n), Hello("2", n)}
    BY <2>1
  <2> QED
    BY <1>9, <1>10, <1>11, <2>2
<1>13. Program(n) = [p \in Processes |-> Prints(p)]
  BY DEF Program
<1> HIDE DEF Prints
<1> QED
  BY <1>12, <1>13

LEMMA InitInv == Init => ConsoleInv
<1> SUFFICES ASSUME Init PROVE ConsoleInv
  OBVIOUS
<1>1. BufSize \in Nat \ {0} /\ FifoSize \in Nat /\ 1 \in 1..BufSize
  BY ConsoleAssumption DEF BufSize
<1>2. todo \in [Processes -> Seq(Lines)]
  BY ProgramTypes DEF Init
<1>3. call \in [Processes -> Calls] /\ \A p \in Processes : call[p] = Idle
  BY IdleFacts DEF Init
<1>4. Boot \in Processes /\ me = Idle
  BY DEF Init, Processes, me
<1>5. /\ fifo \in Seq(Chars) /\ Len(fifo) <= FifoSize /\ out \in Seq(Chars)
      /\ started = <<>> /\ started \in Seq(Seq(Chars)) /\ out \o fifo = <<>>
  BY <1>1, EmptySeq, TextAlgebra DEF Init
<1>6. intbuf \in Buffers /\ \E i \in 1..BufSize : intbuf[i] = NUL
  BY <1>1 DEF Init, Buffers
<1>7. TypeOK
  BY <1>2, <1>3, <1>4, <1>5, <1>6 DEF TypeOK, Init, Calls, Buffers
<1>8. OnePrints
  BY <1>3, <1>4, IdleFacts DEF OnePrints
<1>9. FlattenSeq(started) = <<>>
  BY <1>5, EmptySeq DEF FlattenSeq
<1>10. LineOK(me, intbuf, out \o fifo, started)
  <2>1. out \o fifo \in Seq(Chars) /\ out \o fifo = FlattenSeq(started)
    BY <1>5, <1>9, TextAlgebra
  <2>2. me \in Calls /\ me.pos = 0 /\ me.c = None /\ me.parts = <<>>
    BY <1>4, IdleFacts
  <2> QED
    BY <2>1, <2>2, IdleLine
<1>11. NothingLost
  BY <1>10, Bridge
<1> QED
  BY <1>7, <1>8, <1>11 DEF ConsoleInv

\* prntf or uart_puts begins a line.
LEMMA StartInv ==
  ASSUME ConsoleInv, NEW by, NEW level \in BOOLEAN, Start(by, level), masked' = TRUE
  PROVE  ConsoleInv'
<1> DEFINE line == Head(todo[current])
           s == [Idle EXCEPT !.on = TRUE, !.parts = line.parts, !.level = level]
<1>1. todo \in [Processes -> Seq(Lines)] /\ current \in Processes
  BY TypeFacts DEF ConsoleInv, TypeOK
<1>2. todo[current] \in Seq(Lines) /\ todo[current] # <<>>
  BY <1>1 DEF Start
<1>3. line \in Lines /\ Tail(todo[current]) \in Seq(Lines)
  BY <1>2, HeadTailProperties
<1>4. /\ todo' = [todo EXCEPT ![current] = Tail(todo[current])]
      /\ Becomes(s) /\ started' = Append(started, Text(line.parts))
      /\ UNCHANGED <<procVars, intbuf, uartVars>>
  BY DEF Start
<1>5. line.parts \in Seq(Parts)
  BY <1>3 DEF Lines
<1> HIDE DEF line
<1>6. s \in Calls /\ s.on /\ s.parts = line.parts /\ s.pos = 0 /\ s.c = None
  BY <1>5, IdleFacts DEF Calls
<1> HIDE DEF s
<1>7. OnePrints' /\ me' = s /\ call' \in [Processes -> Calls]
  BY <1>4, <1>6, StillPrinting
<1>8. started \in Seq(Seq(Chars)) /\ started' \in Seq(Seq(Chars))
  <2>1. started \in Seq(Seq(Chars)) /\ Text(line.parts) \in Seq(Chars)
    BY <1>5, TextFacts DEF ConsoleInv, TypeOK
  <2> QED
    BY <1>4, <2>1, AppendProperties
<1>9. TypeOK'
  <2>1. todo' \in [Processes -> Seq(Lines)]
    BY <1>1, <1>3, <1>4
  <2> QED
    BY <1>4, <1>7, <1>8, <2>1 DEF ConsoleInv, TypeOK, Calls, procVars, uartVars
<1>10. NothingLost'
  <2>1. out \o fifo = FlattenSeq(started) /\ out \o fifo \in Seq(Chars)
    BY NotPrinting, TypeFacts DEF ConsoleInv, Start
  <2>2. LineOK(s, intbuf, out \o fifo, Append(started, Text(s.parts)))
    BY <1>6, <1>8, <2>1, BeginLine
  <2>3. LineOK(me', intbuf', out' \o fifo', started')
    BY <1>4, <1>6, <1>7, <2>2 DEF uartVars
  <2> QED
    BY <2>3, Bridge
<1> QED
  BY <1>7, <1>9, <1>10 DEF ConsoleInv

\* While a line is printed, only the call, and the buffer, change.
LEMMA PrintingTypes ==
  ASSUME ConsoleInv, call' \in [Processes -> Calls],
         intbuf' \in Buffers, \E i \in 1..BufSize : intbuf'[i] = NUL,
         UNCHANGED <<todo, procVars, masked, uartVars, started>>
  PROVE  TypeOK'
BY DEF ConsoleInv, TypeOK, Calls, Buffers, procVars, uartVars

\* A process that has something in hand prints, and with IRQs masked.
LEMMA Printing ==
  ASSUME ConsoleInv, me.on \/ me.pos > 0 \/ me.c # None
  PROVE  me.on /\ masked = TRUE
<1>1. me # Idle => me.on
  BY TypeFacts DEF ConsoleInv, OnePrints, me
<1>2. me.on
  BY <1>1, IdleFacts
<1> QED
  BY <1>2 DEF ConsoleInv, OnePrints, TypeOK

LEMMA LiteralInv ==
  ASSUME ConsoleInv, Literal
  PROVE  ConsoleInv'
<1> DEFINE s == [me EXCEPT !.c = Head(me.parts).v, !.parts = Tail(me.parts)]
<1>1. /\ me.on /\ me.pos = 0 /\ me.c = None /\ me.parts # <<>> /\ Head(me.parts).base = 0 /\ Room
      /\ Becomes(s) /\ UNCHANGED <<todo, procVars, masked, intbuf, uartVars, started>>
  BY DEF Literal
<1>2. /\ me \in Calls /\ intbuf \in Buffers /\ out \o fifo \in Seq(Chars)
      /\ \E i \in 1..BufSize : intbuf[i] = NUL
  BY TypeFacts DEF ConsoleInv, TypeOK
<1>3. Head(me.parts).v \in Chars /\ Tail(me.parts) \in Seq(Parts)
  <2>1. me.parts \in Seq(Parts)
    BY <1>2 DEF Calls
  <2>2. Head(me.parts) \in Parts /\ Tail(me.parts) \in Seq(Parts)
    BY <1>1, <2>1, HeadTailProperties
  <2> QED
    BY <1>1, <2>2, PieceFacts
<1>4. s \in Calls /\ s.on /\ s.pos = 0 /\ s.c = Head(me.parts).v /\ s.parts = Tail(me.parts)
  BY <1>1, <1>2, <1>3 DEF Calls
<1> HIDE DEF s
<1>5. masked' = TRUE /\ (s.c # None => Room')
  BY <1>1, Printing DEF Room, uartVars
<1>6. OnePrints' /\ me' = s /\ call' \in [Processes -> Calls]
  BY <1>1, <1>4, <1>5, StillPrinting
<1>7. TypeOK'
  BY <1>1, <1>2, <1>6, PrintingTypes
<1>8. LineOK(me, intbuf, out \o fifo, started)
  BY Bridge DEF ConsoleInv
<1>9. LineOK(s, intbuf, out \o fifo, started)
  BY <1>1, <1>2, <1>4, <1>8, TakeLiteral
<1>10. NothingLost'
  <2>1. LineOK(me', intbuf', out' \o fifo', started')
    BY <1>1, <1>6, <1>9 DEF uartVars
  <2> QED
    BY <2>1, Bridge
<1> QED
  BY <1>6, <1>7, <1>10 DEF ConsoleInv

LEMMA NumberInv ==
  ASSUME ConsoleInv, Number
  PROVE  ConsoleInv'
<1> DEFINE s == [me EXCEPT !.pos = 1, !.parts = Tail(me.parts)]  q == Head(me.parts)
<1>1. /\ me.on /\ me.pos = 0 /\ me.c = None /\ me.parts # <<>> /\ q.base # 0
      /\ intbuf' = Filled(itoa(q.v, q.base))
      /\ Becomes(s) /\ UNCHANGED <<todo, procVars, masked, uartVars, started>>
  BY DEF Number
<1>2. me \in Calls /\ intbuf \in Buffers /\ out \o fifo \in Seq(Chars)
  BY TypeFacts DEF ConsoleInv
<1>3. q \in Parts /\ Tail(me.parts) \in Seq(Parts)
  <2>1. me.parts \in Seq(Parts)
    BY <1>2 DEF Calls
  <2> QED
    BY <1>1, <2>1, HeadTailProperties
<1>4. intbuf' = [i \in 1..BufSize |->
                   IF i <= Len(Piece(q)) THEN Piece(q)[i]
                   ELSE IF i = Len(Piece(q)) + 1 THEN NUL ELSE intbuf[i]]
  <2>1. itoa(q.v, q.base) = Piece(q)
    BY <1>1, <1>3, PieceFacts
  <2> QED
    BY <1>1, <2>1 DEF Filled
<1>5. s \in Calls /\ s.on /\ s.pos = 1 /\ s.c = None /\ s.parts = Tail(me.parts)
  <2>1. 1 \in 0..BufSize
    BY ConsoleAssumption DEF BufSize
  <2> QED
    BY <1>1, <1>2, <1>3, <2>1 DEF Calls
<1> HIDE DEF s, q
<1>6. masked' = TRUE
  BY <1>1, Printing
<1>7. OnePrints' /\ me' = s /\ call' \in [Processes -> Calls]
  BY <1>1, <1>5, <1>6, StillPrinting
<1>8. LineOK(me, intbuf, out \o fifo, started)
  BY Bridge DEF ConsoleInv
<1>9. /\ intbuf' \in Buffers /\ \E i \in 1..BufSize : intbuf'[i] = NUL
      /\ LineOK(s, intbuf', out \o fifo, started)
  BY <1>1, <1>2, <1>4, <1>5, <1>8, TakeNumber DEF q
<1>10. TypeOK'
  BY <1>1, <1>7, <1>9, PrintingTypes
<1>11. NothingLost'
  <2>1. LineOK(me', intbuf', out' \o fifo', started')
    BY <1>1, <1>7, <1>9 DEF uartVars
  <2> QED
    BY <2>1, Bridge
<1> QED
  BY <1>7, <1>10, <1>11 DEF ConsoleInv

LEMMA PutsInv ==
  ASSUME ConsoleInv, Puts
  PROVE  ConsoleInv'
<1>1. /\ me.pos > 0 /\ me.c = None
      /\ UNCHANGED <<todo, procVars, masked, intbuf, uartVars, started>>
  BY DEF Puts
<1>2. /\ me \in Calls /\ intbuf \in Buffers /\ out \o fifo \in Seq(Chars)
      /\ \E i \in 1..BufSize : intbuf[i] = NUL
  BY TypeFacts DEF ConsoleInv, TypeOK
<1>3. me.on /\ masked' = TRUE
  BY <1>1, Printing
<1>4. LineOK(me, intbuf, out \o fifo, started)
  BY Bridge DEF ConsoleInv
<1>5. ASSUME NEW s \in Calls, Becomes(s), s.on, s.c # None => Room,
             LineOK(s, intbuf, out \o fifo, started)
      PROVE  ConsoleInv'
  <2>1. s.c # None => Room'
    BY <1>1, <1>5 DEF Room, uartVars
  <2>2. OnePrints' /\ me' = s /\ call' \in [Processes -> Calls]
    BY <1>1, <1>3, <1>5, <2>1, StillPrinting
  <2>3. TypeOK'
    BY <1>1, <1>2, <2>2, PrintingTypes
  <2>4. LineOK(me', intbuf', out' \o fifo', started')
    BY <1>1, <1>5, <2>2 DEF uartVars
  <2> QED
    BY <2>2, <2>3, <2>4, Bridge DEF ConsoleInv
<1>6. CASE intbuf[me.pos] = NUL
  <2> DEFINE s == [me EXCEPT !.pos = 0]
  <2>1. Becomes(s)
    BY <1>6 DEF Puts
  <2>2. s \in Calls /\ s.on /\ s.pos = 0 /\ s.c = None /\ s.parts = me.parts
    <3>1. 0 \in 0..BufSize
      BY ConsoleAssumption DEF BufSize
    <3> QED
      BY <1>1, <1>2, <1>3, <3>1 DEF Calls
  <2> HIDE DEF s
  <2>3. LineOK(s, intbuf, out \o fifo, started)
    BY <1>1, <1>2, <1>4, <1>6, <2>2, ReadEnd
  <2> QED
    BY <1>5, <2>1, <2>2, <2>3
<1>7. CASE intbuf[me.pos] # NUL
  <2> DEFINE s == [me EXCEPT !.c = intbuf[me.pos], !.pos = me.pos + 1]
  <2>1. Becomes(s) /\ Room
    BY <1>7 DEF Puts
  <2>2. s.on /\ s.pos = me.pos + 1 /\ s.c = intbuf[me.pos] /\ s.parts = me.parts
    BY <1>2, <1>3 DEF Calls
  <2>3. s = [me EXCEPT !.c = intbuf[me.pos], !.pos = me.pos + 1]
    OBVIOUS
  <2> HIDE DEF s
  <2>4. /\ me.pos + 1 \in 0..BufSize /\ intbuf[me.pos] \in Chars
        /\ LineOK(s, intbuf, out \o fifo, started)
    BY <1>1, <1>2, <1>4, <1>7, <2>2, ReadChar
  <2>5. s \in Calls
    BY <1>2, <2>3, <2>4 DEF Calls
  <2> QED
    BY <1>5, <2>1, <2>2, <2>4, <2>5
<1> QED
  BY <1>6, <1>7

\* uart_putc has waited for room, and only the UART has touched the FIFO since.
LEMMA UartPutcInv ==
  ASSUME ConsoleInv, UartPutc
  PROVE  ConsoleInv'
<1> DEFINE s == [me EXCEPT !.c = None]
<1>1. me.c # None /\ Becomes(s) /\ UNCHANGED <<todo, procVars, masked, intbuf, out, started>>
  BY DEF UartPutc
<1>2. /\ me \in Calls /\ intbuf \in Buffers /\ out \o fifo \in Seq(Chars)
      /\ out \in Seq(Chars) /\ fifo \in Seq(Chars) /\ call \in [Processes -> Calls]
  BY TypeFacts DEF ConsoleInv, TypeOK
<1>3. me.on /\ masked' = TRUE
  BY <1>1, Printing
<1>4. s \in Calls /\ s.on /\ s.pos = me.pos /\ s.c = None /\ s.parts = me.parts
  BY <1>2, <1>3 DEF Calls
<1> HIDE DEF s
<1>5. me.c \in Chars /\ Room
  BY <1>1, <1>2 DEF Calls, ConsoleInv, OnePrints
<1>6. fifo' = Append(fifo, me.c) /\ fifo' = fifo \o <<me.c>>
  <2>1. fifo' = Append(fifo, me.c)
    BY <1>5 DEF UartPutc, Room
  <2>2. Append(fifo, me.c) = fifo \o <<me.c>>
    BY <1>2, <1>5, AppendIsConcat
  <2> QED
    BY <2>1, <2>2
<1>7. fifo' \in Seq(Chars) /\ Len(fifo') <= FifoSize
  <2>1. Append(fifo, me.c) \in Seq(Chars) /\ Len(Append(fifo, me.c)) = Len(fifo) + 1
    BY <1>2, <1>5, AppendProperties
  <2>2. Len(fifo) \in Nat /\ Len(fifo) < FifoSize /\ FifoSize \in Nat
    BY <1>2, <1>5, ConsoleAssumption, LenProperties DEF Room
  <2> QED
    BY <1>6, <2>1, <2>2
<1>8. OnePrints' /\ me' = s /\ call' \in [Processes -> Calls]
  BY <1>1, <1>3, <1>4, StillPrinting
<1>9. TypeOK'
  BY <1>1, <1>7, <1>8 DEF ConsoleInv, TypeOK, Calls, procVars
<1>10. out' \o fifo' = (out \o fifo) \o <<me.c>>
  <2>1. <<me.c>> \in Seq(Chars)
    BY <1>5, TextAlgebra
  <2> QED
    BY <1>1, <1>2, <1>6, <2>1, TextAlgebra
<1>11. LineOK(me, intbuf, out \o fifo, started)
  BY Bridge DEF ConsoleInv
<1>12. LineOK(s, intbuf, (out \o fifo) \o <<me.c>>, started)
  BY <1>1, <1>2, <1>4, <1>11, PutChar
<1>13. LineOK(me', intbuf', out' \o fifo', started')
  BY <1>1, <1>8, <1>10, <1>12
<1> QED
  BY <1>8, <1>9, <1>13, Bridge DEF ConsoleInv

\* Once every process has its calls done, and the current one has no line half out,
\* any process may run.
LEMMA QuietInv ==
  ASSUME ConsoleInv, \A p \in Processes : call[p] = Idle, out \o fifo = FlattenSeq(started),
         UNCHANGED <<todo, call, intbuf, uartVars, started>>,
         procs' \subseteq Processes, current' \in procs', masked' \in BOOLEAN
  PROVE  ConsoleInv'
<1>1. TypeOK'
  BY DEF ConsoleInv, TypeOK, uartVars
<1>2. me' = Idle /\ current' \in Processes /\ \A p \in Processes : call'[p] = Idle
  BY DEF me
<1>3. OnePrints'
  BY <1>2, IdleFacts DEF OnePrints
<1>4. LineOK(me', intbuf', out' \o fifo', started')
  <2>1. out' \o fifo' = FlattenSeq(started') /\ out' \o fifo' \in Seq(Chars)
    BY TypeFacts DEF ConsoleInv, uartVars
  <2> QED
    BY <1>2, <2>1, IdleFacts, IdleLine
<1> QED
  BY <1>1, <1>3, <1>4, Bridge DEF ConsoleInv

LEMMA ReturnInv ==
  ASSUME ConsoleInv, Return
  PROVE  ConsoleInv'
<1>1. /\ me.on /\ me.pos = 0 /\ me.c = None /\ me.parts = <<>>
      /\ Becomes(Idle) /\ masked' = me.level
      /\ UNCHANGED <<todo, procVars, intbuf, uartVars, started>>
  BY DEF Return
<1>2. me \in Calls /\ out \o fifo \in Seq(Chars) /\ current \in Processes
  BY TypeFacts DEF ConsoleInv
<1>3. /\ call' \in [Processes -> Calls] /\ me' = Idle
      /\ \A p \in Processes : call'[p] = Idle
  <2>1. /\ call' \in [Processes -> Calls] /\ me' = Idle
        /\ \A p \in Processes : p # current => call'[p] = Idle
    BY <1>1, IdleFacts, Becoming DEF procVars
  <2>2. call'[current] = Idle
    BY <1>1, <2>1 DEF me, procVars
  <2> QED
    BY <2>1, <2>2
<1>4. TypeOK'
  <2>1. masked' \in BOOLEAN
    BY <1>1, <1>2 DEF Calls
  <2> QED
    BY <1>1, <1>3, <2>1 DEF ConsoleInv, TypeOK, Calls, procVars, uartVars
<1>5. OnePrints'
  BY <1>3, IdleFacts DEF OnePrints
<1>6. LineOK(me', intbuf', out' \o fifo', started')
  <2>1. LineOK(me, intbuf, out \o fifo, started)
    BY Bridge DEF ConsoleInv
  <2>2. out \o fifo = FlattenSeq(started)
    BY <1>1, <1>2, <2>1, IdleLine
  <2>3. LineOK(Idle, intbuf, out \o fifo, started)
    BY <1>2, <2>2, IdleFacts, IdleLine
  <2> QED
    BY <1>1, <1>3, <2>3 DEF uartVars
<1> QED
  BY <1>4, <1>5, <1>6, Bridge DEF ConsoleInv

\* A text is its first character and the others.
LEMMA HeadAndTail ==
  ASSUME NEW s \in Seq(Chars), s # <<>>
  PROVE  s = <<Head(s)>> \o Tail(s)
<1> DEFINE h == <<Head(s)>>  t == Tail(s)
<1>1. /\ Head(s) = s[1] /\ t \in Seq(Chars) /\ Len(s) \in Nat \ {0} /\ Len(t) = Len(s) - 1
      /\ \A i \in 1..(Len(s) - 1) : t[i] = s[i + 1]
  <2>1. /\ t \in Seq(Chars) /\ Len(t) = Len(s) - 1 /\ \A i \in 1..Len(t) : t[i] = s[i + 1]
    BY HeadTailProperties
  <2>2. Head(s) = s[1]
    OBVIOUS
  <2>3. Len(s) \in Nat \ {0}
    BY EmptySeq
  <2> QED
    BY <2>1, <2>2, <2>3
<1>2. Head(s) \in Chars /\ h \in Seq(Chars) /\ Len(h) = 1 /\ h[1] = Head(s)
  <2>1. Head(s) \in Chars
    BY HeadTailProperties
  <2> QED
    BY <2>1
<1> HIDE DEF h, t
<1>3. /\ h \o t \in Seq(Chars) /\ Len(h \o t) = Len(s)
      /\ \A i \in 1..Len(s) : (h \o t)[i] = IF i <= 1 THEN h[i] ELSE t[i - 1]
  <2>1. /\ h \o t \in Seq(Chars) /\ Len(h \o t) = Len(h) + Len(t)
        /\ \A i \in 1..(Len(h) + Len(t)) :
             (h \o t)[i] = IF i <= Len(h) THEN h[i] ELSE t[i - Len(h)]
    BY <1>1, <1>2, ConcatProperties
  <2>2. Len(h) + Len(t) = Len(s)
    BY <1>1, <1>2
  <2> QED
    BY <1>2, <2>1, <2>2
<1>4. ASSUME NEW i \in 1..Len(s) PROVE s[i] = (h \o t)[i]
  <2>1. CASE i = 1
    BY <1>1, <1>2, <1>3, <2>1
  <2>2. CASE i # 1
    <3>1. i - 1 \in 1..(Len(s) - 1) /\ ~(i <= 1) /\ (i - 1) + 1 = i
      BY <1>1, <2>2
    <3> QED
      BY <1>1, <1>3, <3>1
  <2> QED
    BY <2>1, <2>2
<1>5. s = h \o t
  BY <1>3, <1>4, SeqEqual
<1> QED
  BY <1>5 DEF h, t

LEMMA UartSendsInv ==
  ASSUME ConsoleInv, UartSends
  PROVE  ConsoleInv'
<1>1. /\ fifo # <<>> /\ out' = Append(out, Head(fifo)) /\ fifo' = Tail(fifo)
      /\ UNCHANGED <<todo, call, procVars, masked, intbuf, started>>
  BY DEF UartSends
<1>2. out \in Seq(Chars) /\ fifo \in Seq(Chars) /\ Len(fifo) <= FifoSize /\ FifoSize \in Nat
  BY ConsoleAssumption DEF ConsoleInv, TypeOK
<1>3. /\ Head(fifo) \in Chars /\ Tail(fifo) \in Seq(Chars) /\ Len(fifo) \in Nat
      /\ Len(Tail(fifo)) = Len(fifo) - 1 /\ fifo = <<Head(fifo)>> \o Tail(fifo)
  <2>1. /\ Head(fifo) \in Chars /\ Tail(fifo) \in Seq(Chars) /\ Len(fifo) \in Nat
        /\ Len(Tail(fifo)) = Len(fifo) - 1
    BY <1>1, <1>2, HeadTailProperties, LenProperties
  <2>2. fifo = <<Head(fifo)>> \o Tail(fifo)
    BY <1>1, <1>2, HeadAndTail
  <2> QED
    BY <2>1, <2>2
<1>4. out' \o fifo' = out \o fifo /\ out' \in Seq(Chars)
  <2>1. out' = out \o <<Head(fifo)>> /\ <<Head(fifo)>> \in Seq(Chars)
    BY <1>1, <1>2, <1>3, AppendIsConcat, TextAlgebra
  <2>2. (out \o <<Head(fifo)>>) \o Tail(fifo) = out \o (<<Head(fifo)>> \o Tail(fifo))
    BY <1>2, <1>3, <2>1, TextAlgebra
  <2>3. out \o <<Head(fifo)>> \in Seq(Chars)
    BY <1>2, <2>1, TextAlgebra
  <2> QED
    BY <1>1, <1>3, <2>1, <2>2, <2>3
<1>5. me' = me /\ (Room => Room')
  BY <1>1, <1>2, <1>3 DEF me, Room, procVars
<1>6. TypeOK'
  BY <1>1, <1>2, <1>3, <1>4 DEF ConsoleInv, TypeOK, procVars
<1>7. OnePrints'
  BY <1>1, <1>5 DEF ConsoleInv, OnePrints, procVars
<1>8. LineOK(me', intbuf', out' \o fifo', started')
  BY <1>1, <1>4, <1>5, Bridge DEF ConsoleInv
<1> QED
  BY <1>6, <1>7, <1>8, Bridge DEF ConsoleInv

\* A process is switched away from only when it prints nothing.
LEMMA SwitchInv ==
  ASSUME ConsoleInv, BootEnds \/ MainEnds \/ \E q \in Processes : SwitchTo(q)
  PROVE  ConsoleInv'
<1>1. procs \subseteq Processes /\ masked \in BOOLEAN
  BY DEF ConsoleInv, TypeOK
<1>2. /\ ~me.on /\ UNCHANGED <<todo, call, intbuf, uartVars, started>>
      /\ procs' \subseteq Processes /\ current' \in procs' /\ masked' = FALSE
  <2>1. CASE BootEnds
    BY <2>1, <1>1 DEF BootEnds, Finished, Runs, Processes
  <2>2. CASE MainEnds
    BY <2>2, <1>1 DEF MainEnds, Finished, Runs, Processes
  <2>3. ASSUME NEW q \in Processes, SwitchTo(q)
        PROVE  /\ ~me.on /\ UNCHANGED <<todo, call, intbuf, uartVars, started>>
               /\ procs' \subseteq Processes /\ current' \in procs' /\ masked' = FALSE
    <3>1. ~me.on
      BY <2>3, Printing DEF SwitchTo
    <3> QED
      BY <2>3, <1>1, <3>1 DEF SwitchTo, Runs
  <2> QED
    BY <2>1, <2>2, <2>3
<1>3. (\A p \in Processes : call[p] = Idle) /\ out \o fifo = FlattenSeq(started)
  BY <1>2, NotPrinting
<1> QED
  BY <1>2, <1>3, QuietInv

LEMMA NextInv == ConsoleInv /\ [Next]_vars => ConsoleInv'
<1> SUFFICES ASSUME ConsoleInv, [Next]_vars PROVE ConsoleInv'
  OBVIOUS
<1>1. CASE Prntf
  <2>1. Start("prntf", masked) /\ masked' = TRUE /\ masked \in BOOLEAN
    BY <1>1 DEF Prntf, ConsoleInv, TypeOK
  <2> QED
    BY <2>1, StartInv
<1>2. CASE UartPuts
  <2>1. Start("uart_puts", TRUE) /\ masked' = TRUE
    BY <1>2 DEF UartPuts
  <2> QED
    BY <2>1, StartInv
<1>3. CASE Literal
  BY <1>3, LiteralInv
<1>4. CASE Number
  BY <1>4, NumberInv
<1>5. CASE Puts
  BY <1>5, PutsInv
<1>6. CASE UartPutc
  BY <1>6, UartPutcInv
<1>7. CASE Return
  BY <1>7, ReturnInv
<1>8. CASE UartSends
  BY <1>8, UartSendsInv
<1>9. CASE BootEnds \/ MainEnds \/ \E q \in Processes : SwitchTo(q)
  BY <1>9, SwitchInv
<1>10. CASE UNCHANGED vars
  <2>1. me' = me
    BY <1>10 DEF vars, procVars, me
  <2>2. TypeOK' /\ OnePrints'
    BY <1>10, <2>1 DEF ConsoleInv, TypeOK, OnePrints, Room, vars, procVars, uartVars
  <2>3. LineOK(me', intbuf', out' \o fifo', started')
    BY <1>10, <2>1, Bridge DEF ConsoleInv, vars, procVars, uartVars
  <2> QED
    BY <2>2, <2>3, Bridge DEF ConsoleInv
<1> QED
  BY <1>1, <1>2, <1>3, <1>4, <1>5, <1>6, <1>7, <1>8, <1>9, <1>10 DEF Next, Step

\* In every reachable state, what is out, what is in hand and what is left to read
\* of the one buffer of itoa are the lines begun.
THEOREM ConsoleInvHolds == Spec => []ConsoleInv
<1>1. Init => ConsoleInv
  BY InitInv
<1>2. ConsoleInv /\ [Next]_vars => ConsoleInv'
  BY NextInv
<1> QED
  BY <1>1, <1>2, PTL DEF Spec

\* The first of two texts joined is a prefix.
LEMMA PrefixFacts ==
  ASSUME NEW s \in Seq(Chars), NEW t \in Seq(Chars)
  PROVE  IsPrefix(s, s \o t)
<1>1. /\ s \o t \in Seq(Chars) /\ Len(s \o t) = Len(s) + Len(t)
      /\ Len(s) \in Nat /\ Len(t) \in Nat
      /\ \A i \in 1..Len(s) : (s \o t)[i] = s[i]
  <2>1. /\ s \o t \in Seq(Chars) /\ Len(s \o t) = Len(s) + Len(t)
        /\ \A i \in 1..(Len(s) + Len(t)) :
             (s \o t)[i] = IF i <= Len(s) THEN s[i] ELSE t[i - Len(s)]
    BY ConcatProperties
  <2>2. Len(s) \in Nat /\ Len(t) \in Nat
    BY LenProperties
  <2> QED
    BY <2>1, <2>2
<1> DEFINE u == s \o t  a == SubSeq(s, 1, Len(s))  b == SubSeq(u, 1, Len(s))
<1>2. \A i \in 1..Len(s) : s[i] \in Chars /\ u[i] \in Chars
  BY <1>1, ElementOfSeq
<1>3. a \in Seq(Chars) /\ Len(a) = Len(s) /\ \A i \in 1..Len(s) : a[i] = s[i]
  <2>1. a = s
    BY SubSeqFull
  <2> QED
    BY <2>1
<1>4. b \in Seq(Chars) /\ Len(b) = Len(s) /\ \A i \in 1..Len(s) : b[i] = u[i]
  <2>1. /\ b \in Seq(Chars) /\ Len(b) = IF 1 <= Len(s) THEN Len(s) - 1 + 1 ELSE 0
        /\ \A i \in 1..(Len(s) - 1 + 1) : b[i] = u[1 + i - 1]
    <3>1. 1 \in Int /\ Len(s) \in Int
      BY <1>1
    <3> HIDE DEF u
    <3> QED
      BY <1>2, <3>1, SubSeqProperties
  <2> HIDE DEF b, u
  <2> QED
    BY <1>1, <2>1
<1>5. a = b
  <2>1. Len(a) = Len(b) /\ \A i \in 1..Len(a) : a[i] = b[i]
    BY <1>1, <1>3, <1>4
  <2> HIDE DEF a, b, u
  <2> QED
    BY <1>3, <1>4, <2>1, SeqEqual
<1> QED
  BY <1>1, <1>5 DEF IsPrefix

\* What is out is a prefix of the lines begun: no process prints into the line of
\* another or over its number, and no character is dropped (OutputWhole).
THEOREM OutputWholeHolds == Spec => []OutputWhole
<1>1. ASSUME ConsoleInv PROVE OutputWhole
  <2>1. /\ me \in Calls /\ me.parts \in Seq(Parts) /\ intbuf \in Buffers
        /\ out \o fifo \in Seq(Chars) /\ me.pos \in 0..BufSize
    BY <1>1, TypeFacts DEF ConsoleInv, Calls
  <2>2. InHand(me) \in Seq(Chars) /\ Text(me.parts) \in Seq(Chars)
    <3>1. me.c # None => me.c \in Chars
      BY <2>1 DEF Calls
    <3> QED
      BY <2>1, <3>1, TextAlgebra, TextFacts DEF InHand
  <2>3. LineOK(me, intbuf, out \o fifo, started)
    BY <1>1, Bridge DEF ConsoleInv
  <2>4. PICK unread : unread \in Seq(Chars) /\ Made(me, out \o fifo, unread, started)
    <3>1. CASE me.pos = 0
      <4>1. Made(me, out \o fifo, <<>>, started) /\ <<>> \in Seq(Chars)
        BY <2>3, <3>1, TextAlgebra DEF LineOK
      <4> QED
        BY <4>1
    <3>2. CASE me.pos > 0
      <4>1. PICK k \in me.pos..BufSize :
              EndsAt(me, intbuf, k) /\ Made(me, out \o fifo, SubSeq(intbuf, me.pos, k - 1), started)
        BY <2>3, <3>2 DEF LineOK
      <4>2. BufSize \in Nat /\ me.pos \in Int /\ k \in Int /\ k - 1 \in Int
        BY <2>1, ConsoleAssumption DEF BufSize
      <4>3. \A i \in me.pos..(k - 1) : intbuf[i] \in Chars
        <5>1. \A i \in me.pos..(k - 1) : i \in 1..BufSize /\ intbuf[i] # NUL
          BY <3>2, <4>1, <4>2 DEF EndsAt
        <5>2. \A i \in 1..BufSize : intbuf[i] \in Chars \cup {NUL}
          BY <2>1 DEF Buffers
        <5> QED
          BY <5>1, <5>2
      <4>4. SubSeq(intbuf, me.pos, k - 1) \in Seq(Chars)
        BY <4>2, <4>3, SubSeqProperties
      <4> QED
        BY <4>1, <4>4
    <3> QED
      BY <2>1, <3>1, <3>2
  <2> DEFINE rest == InHand(me) \o (unread \o Text(me.parts))
  <2>5. rest \in Seq(Chars) /\ unread \o Text(me.parts) \in Seq(Chars)
    BY <2>2, <2>4, TextAlgebra
  <2>6. (out \o fifo) \o rest = FlattenSeq(started)
    <3>1. (out \o fifo) \o InHand(me) \o unread \o Text(me.parts) = (out \o fifo) \o rest
      <4> DEFINE sent == out \o fifo  hand == InHand(me)  text == Text(me.parts)
                 x == sent \o hand  y == unread \o text
      <4>1. \A a, b, c \in Seq(Chars) : (a \o b) \o c = a \o (b \o c)
        BY TextAlgebra
      <4>2. /\ sent \in Seq(Chars) /\ hand \in Seq(Chars) /\ text \in Seq(Chars)
            /\ unread \in Seq(Chars) /\ x \in Seq(Chars) /\ y \in Seq(Chars)
        BY <2>1, <2>2, <2>4, <2>5, TextAlgebra
      <4> HIDE DEF sent, hand, text, rest
      <4>3. x \o y = sent \o (hand \o y)
        <5> HIDE DEF y
        <5> QED
          BY <4>1, <4>2
      <4>4. (x \o unread) \o text = x \o y
        <5> HIDE DEF x
        <5> QED
          BY <4>1, <4>2
      <4> QED
        BY <4>3, <4>4 DEF sent, hand, text, rest
    <3> QED
      BY <2>4, <3>1 DEF Made
  <2> HIDE DEF rest
  <2>7. IsPrefix(out \o fifo, (out \o fifo) \o rest)
    BY <2>1, <2>5, PrefixFacts
  <2> QED
    BY <2>6, <2>7 DEF OutputWhole
<1>2. Spec => []ConsoleInv
  BY ConsoleInvHolds
<1> QED
  BY <1>1, <1>2, PTL

=============================================================================
