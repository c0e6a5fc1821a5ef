----------------------------- MODULE MailboxProofs -----------------------------
(***************************************************************************)
(* Proofs about src/mailbox.c: for every program of calls and all arrays   *)
(* of tags, the buffer is freed, nothing is written outside it, and each   *)
(* value the caller gets is the answer to its own tag.                     *)
(***************************************************************************)
EXTENDS Mailbox, NatLemmas, TLAPS, SequenceTheorems

-----------------------------------------------------------------------------
(* The layout of a message                                                  *)

\* The word in which each tag starts, and in which the null tag does.
Offsets(ts, A) ==
  /\ A \in [0..Len(ts) -> Nat] /\ A[0] = 3
  /\ \A n \in 1..Len(ts) : A[n] = A[n - 1] + 3 + ValueWords(ts[n])

LEMMA TagFacts ==
  ASSUME NEW t \in Tag
  PROVE  /\ ValueWords(t) \in 0..2 /\ get_value_buffer_len(t.proptag) = 4 * ValueWords(t)
         /\ t.proptag \in Nat \ {NULL_TAG} /\ t.value \in [1..2 -> Nat]
<1>1. get_value_buffer_len(t.proptag) \in {0, 4, 8}
  BY DEF get_value_buffer_len
<1>2. 0 \div 4 = 0 /\ 4 \div 4 = 1 /\ 8 \div 4 = 2
  OBVIOUS
<1> QED
  BY <1>1, <1>2 DEF ValueWords, Tag

LEMMA TagWordsFacts ==
  ASSUME NEW t \in Tag
  PROVE  /\ TagWords(t) \in Seq(Nat) /\ Len(TagWords(t)) = 3 + ValueWords(t)
         /\ TagWords(t)[1] = t.proptag /\ TagWords(t)[2] = 4 * ValueWords(t) /\ TagWords(t)[3] = 0
         /\ \A k \in 1..ValueWords(t) : TagWords(t)[3 + k] = t.value[k]
<1>1. /\ ValueWords(t) \in 0..2 /\ get_value_buffer_len(t.proptag) = 4 * ValueWords(t)
      /\ t.proptag \in Nat /\ t.value \in [1..2 -> Nat]
  BY TagFacts
<1> DEFINE h == <<t.proptag, 4 * ValueWords(t), 0>>
           v == SubSeq(t.value, 1, ValueWords(t))
<1>2. h \in Seq(Nat) /\ Len(h) = 3 /\ h[1] = t.proptag /\ h[2] = 4 * ValueWords(t) /\ h[3] = 0
  BY <1>1
<1>3. v \in Seq(Nat) /\ Len(v) = ValueWords(t) /\ \A k \in 1..ValueWords(t) : v[k] = t.value[k]
  <2>1. 1 \in Int /\ ValueWords(t) \in Int /\ \A k \in 1..ValueWords(t) : t.value[k] \in Nat
    BY <1>1
  <2>2. /\ v \in Seq(Nat) /\ Len(v) = IF 1 <= ValueWords(t) THEN ValueWords(t) - 1 + 1 ELSE 0
        /\ \A k \in 1..(ValueWords(t) - 1 + 1) : v[k] = t.value[1 + k - 1]
    BY <2>1, SubSeqProperties
  <2> HIDE DEF v
  <2> QED
    BY <1>1, <2>2
<1>4. TagWords(t) = h \o v
  BY <1>1 DEF TagWords
<1> HIDE DEF h, v
<1>5. /\ h \o v \in Seq(Nat) /\ Len(h \o v) = 3 + ValueWords(t)
      /\ \A i \in 1..(3 + ValueWords(t)) : (h \o v)[i] = IF i <= 3 THEN h[i] ELSE v[i - 3]
  <2>1. /\ h \o v \in Seq(Nat) /\ Len(h \o v) = Len(h) + Len(v)
        /\ \A i \in 1..(Len(h) + Len(v)) :
             (h \o v)[i] = IF i <= Len(h) THEN h[i] ELSE v[i - Len(h)]
    BY <1>2, <1>3, ConcatProperties
  <2> QED
    BY <1>2, <1>3, <2>1
<1>6. \A k \in 1..ValueWords(t) : 3 + k \in 1..(3 + ValueWords(t)) /\ ~(3 + k <= 3) /\ (3 + k) - 3 = k
  BY <1>1
<1>7. \A i \in {1, 2, 3} : i \in 1..(3 + ValueWords(t)) /\ i <= 3
  BY <1>1
<1>8. (h \o v)[1] = h[1] /\ (h \o v)[2] = h[2] /\ (h \o v)[3] = h[3]
  BY <1>5, <1>7
<1>9. ASSUME NEW k \in 1..ValueWords(t) PROVE (h \o v)[3 + k] = t.value[k]
  BY <1>3, <1>5, <1>6
<1> QED
  BY <1>2, <1>4, <1>5, <1>8, <1>9

\* What holds of the offsets: each tag ends where the next one starts.
LEMMA OffsetsFacts ==
  ASSUME NEW ts \in Seq(Tag), NEW A, Offsets(ts, A)
  PROVE  /\ Len(ts) \in Nat /\ DOMAIN ts = 1..Len(ts)
         /\ \A n \in 0..Len(ts) : A[n] \in Nat /\ A[n] >= 3 /\ A[n] <= A[Len(ts)]
         /\ \A n \in 1..Len(ts) : /\ ts[n] \in Tag /\ ValueWords(ts[n]) \in 0..2
                                  /\ A[n] = A[n - 1] + 3 + ValueWords(ts[n])
         /\ \A m, n \in 0..Len(ts) : m <= n => A[m] <= A[n]
<1>1. Len(ts) \in Nat /\ DOMAIN ts = 1..Len(ts) /\ \A n \in 1..Len(ts) : ts[n] \in Tag
  BY LenProperties, ElementOfSeq
<1>2. \A n \in 1..Len(ts) : ValueWords(ts[n]) \in 0..2
  BY <1>1, TagFacts
<1>3. /\ \A n \in 0..Len(ts) : A[n] \in Nat
      /\ A[0] = 3
      /\ \A n \in 1..Len(ts) : A[n] = A[n - 1] + 3 + ValueWords(ts[n])
  BY DEF Offsets
<1>4. ASSUME NEW m \in 0..Len(ts)
      PROVE  \A d \in 0..(Len(ts) - m) : A[m] <= A[m + d]
  <2> DEFINE H == {d \in Nat : m + d <= Len(ts) => A[m] <= A[m + d]}
  <2>1. Len(ts) - m \in Nat
    BY <1>1
  <2>2. 0 \in H
    BY <1>1, <1>3
  <2>3. ASSUME NEW d \in 0..(Len(ts) - m - 1), d \in H PROVE d + 1 \in H
    <3>1. m + (d + 1) \in 1..Len(ts) /\ (m + (d + 1)) - 1 = m + d /\ m + d \in 0..Len(ts)
      BY <1>1
    <3>2. A[m + (d + 1)] = A[m + d] + 3 + ValueWords(ts[m + (d + 1)])
      BY <1>3, <3>1
    <3>3. A[m] \in Nat /\ A[m + d] \in Nat
      BY <1>3, <3>1
    <3>4. ValueWords(ts[m + (d + 1)]) \in Nat
      BY <1>2, <3>1
    <3>5. A[m] <= A[m + d]
      BY <1>1, <2>3
    <3>6. A[m] <= A[m + (d + 1)]
      BY <3>2, <3>3, <3>4, <3>5
    <3> QED
      BY <2>1, <3>6
  <2>4. \A d \in 0..(Len(ts) - m) : d \in H
    <3> HIDE DEF H
    <3> QED
      BY <2>1, <2>2, <2>3, UpTo
  <2> QED
    BY <1>1, <2>4
<1>5. ASSUME NEW m \in 0..Len(ts), NEW n \in 0..Len(ts), m <= n PROVE A[m] <= A[n]
  <2>1. n - m \in 0..(Len(ts) - m) /\ m + (n - m) = n
    BY <1>1, <1>5
  <2> QED
    BY <1>4, <2>1
<1>6. ASSUME NEW n \in 0..Len(ts) PROVE A[n] \in Nat /\ A[n] >= 3 /\ A[n] <= A[Len(ts)]
  <2>1. 0 \in 0..Len(ts) /\ Len(ts) \in 0..Len(ts) /\ 0 <= n /\ n <= Len(ts)
    BY <1>1
  <2>2. A[0] <= A[n] /\ A[n] <= A[Len(ts)]
    BY <1>5, <2>1
  <2> QED
    BY <1>3, <2>2
<1> QED
  BY <1>1, <1>2, <1>3, <1>5, <1>6

LEMMA OffsetsExist ==
  ASSUME NEW ts \in Seq(Tag)
  PROVE  \E A : Offsets(ts, A)
<1> DEFINE L == Len(ts)
           Good(A, m) == /\ A \in [0..L -> Nat] /\ A[0] = 3
                         /\ \A n \in 1..m : A[n] = A[n - 1] + 3 + ValueWords(ts[n])
           H == {m \in 0..L : \E A : Good(A, m)}
<1>1. L \in Nat /\ \A n \in 1..L : ValueWords(ts[n]) \in 0..2
  BY LenProperties, ElementOfSeq, TagFacts
<1> HIDE DEF L
<1>2. 0 \in H
  <2>1. Good([n \in 0..L |-> 3], 0)
    BY <1>1
  <2>2. 0 \in 0..L
    BY <1>1
  <2> HIDE DEF Good
  <2> QED
    BY <2>1, <2>2
<1>3. ASSUME NEW m \in 0..(L - 1), m \in H PROVE m + 1 \in H
  <2>1. PICK A : Good(A, m)
    BY <1>3
  <2> DEFINE B == [A EXCEPT ![m + 1] = A[m] + 3 + ValueWords(ts[m + 1])]
  <2>2. m \in 0..L /\ m + 1 \in 0..L /\ m + 1 \in 1..L /\ (m + 1) - 1 = m /\ m # m + 1 /\ m + 1 # 0
    BY <1>1
  <2>3. A[m] + 3 + ValueWords(ts[m + 1]) \in Nat
    <3>1. A[m] \in Nat
      BY <2>1, <2>2
    <3>2. ValueWords(ts[m + 1]) \in 0..2
      BY <1>1, <2>2
    <3> QED
      BY <3>1, <3>2
  <2>4. B \in [0..L -> Nat] /\ B[0] = 3 /\ B[m + 1] = A[m] + 3 + ValueWords(ts[m + 1])
        /\ \A n \in 0..L : n # m + 1 => B[n] = A[n]
    BY <2>1, <2>2, <2>3
  <2> HIDE DEF B
  <2>5. ASSUME NEW n \in 1..(m + 1) PROVE B[n] = B[n - 1] + 3 + ValueWords(ts[n])
    <3>1. CASE n = m + 1
      BY <2>2, <2>4, <3>1
    <3>2. CASE n # m + 1
      <4>1. n \in 1..m /\ n \in 0..L /\ n - 1 \in 0..L /\ n - 1 # m + 1
        BY <1>1, <2>2, <3>2
      <4>2. A[n] = A[n - 1] + 3 + ValueWords(ts[n])
        BY <2>1, <4>1
      <4> QED
        BY <2>4, <3>2, <4>1, <4>2
    <3> QED
      BY <3>1, <3>2
  <2>6. Good(B, m + 1)
    BY <2>4, <2>5
  <2> QED
    BY <2>2, <2>6
<1>4. L \in H
  <2>1. L \in Nat /\ L \in 0..L
    BY <1>1
  <2> HIDE DEF H
  <2> QED
    BY <1>2, <1>3, <2>1, UpTo
<1> QED
  BY <1>4 DEF Offsets, L

\* The message fits in what send_messages asks for, rounded up to 16 bytes.
LEMMA BufSizeFacts ==
  ASSUME NEW ts \in Seq(Tag), NEW A, Offsets(ts, A)
  PROVE  BufSize(ts) \in Nat /\ 4 * A[Len(ts)] <= BufSize(ts)
<1> DEFINE L == Len(ts)
           R(f) == f = [n \in 0..L |-> IF n = 0 THEN 12
                                       ELSE f[n - 1] + get_value_buffer_len(ts[n].proptag) + 12]
           bytes == CHOOSE f : R(f)
           g == [n \in 0..L |-> 4 * A[n]]
<1>1. /\ L \in Nat /\ \A n \in 0..L : A[n] \in Nat
      /\ \A n \in 1..L : ts[n] \in Tag /\ A[n] = A[n - 1] + 3 + ValueWords(ts[n])
      /\ A[0] = 3
  BY OffsetsFacts DEF Offsets
<1>2. \A n \in 1..L : get_value_buffer_len(ts[n].proptag) = 4 * ValueWords(ts[n]) /\ ValueWords(ts[n]) \in 0..2
  BY <1>1, TagFacts
<1>3. BufSize(ts) = bytes[L] + ((-bytes[L]) % 16)
  BY DEF BufSize
<1> HIDE DEF L
<1>4. R(g)
  <2>1. g[0] = 12
    BY <1>1
  <2>2. ASSUME NEW n \in 0..L, n # 0 PROVE g[n] = g[n - 1] + get_value_buffer_len(ts[n].proptag) + 12
    <3>1. n \in 1..L /\ n - 1 \in 0..L
      BY <1>1, <2>2
    <3>2. g[n] = 4 * A[n] /\ g[n - 1] = 4 * A[n - 1]
      BY <3>1
    <3>3. /\ A[n] = A[n - 1] + 3 + ValueWords(ts[n]) /\ A[n - 1] \in Nat
          /\ get_value_buffer_len(ts[n].proptag) = 4 * ValueWords(ts[n]) /\ ValueWords(ts[n]) \in 0..2
      BY <1>1, <1>2, <3>1
    <3>4. 4 * A[n] = 4 * A[n - 1] + get_value_buffer_len(ts[n].proptag) + 12
      BY <3>3
    <3> QED
      BY <3>2, <3>4
  <2>3. g = [n \in 0..L |-> g[n]]
    OBVIOUS
  <2>4. \A n \in 0..L : g[n] = IF n = 0 THEN 12 ELSE g[n - 1] + get_value_buffer_len(ts[n].proptag) + 12
    BY <2>1, <2>2
  <2> HIDE DEF g
  <2> QED
    BY <2>3, <2>4
<1>5. R(bytes)
  <2> HIDE DEF R
  <2> QED
    BY <1>4
<1>6. /\ bytes[0] = 12
      /\ \A n \in 1..L : bytes[n] = bytes[n - 1] + get_value_buffer_len(ts[n].proptag) + 12
  <2> HIDE DEF bytes
  <2>1. \A n \in 1..L : n \in 0..L /\ n # 0
    BY <1>1
  <2>2. 0 \in 0..L
    BY <1>1
  <2> QED
    BY <1>5, <2>1, <2>2
<1> HIDE DEF bytes
<1>7. bytes[L] = 4 * A[L]
  <2> DEFINE H == {n \in 0..L : bytes[n] = 4 * A[n]}
  <2>1. 0 \in H
    BY <1>1, <1>6
  <2>2. ASSUME NEW n \in 0..(L - 1), n \in H PROVE n + 1 \in H
    <3>1. n + 1 \in 1..L /\ (n + 1) - 1 = n /\ n \in 0..L /\ n + 1 \in 0..L
      BY <1>1
    <3>2. bytes[n + 1] = bytes[n] + get_value_buffer_len(ts[n + 1].proptag) + 12
      BY <1>6, <3>1
    <3>3. /\ A[n + 1] = A[n] + 3 + ValueWords(ts[n + 1]) /\ A[n] \in Nat
          /\ get_value_buffer_len(ts[n + 1].proptag) = 4 * ValueWords(ts[n + 1])
          /\ ValueWords(ts[n + 1]) \in 0..2 /\ bytes[n] = 4 * A[n]
      BY <1>1, <1>2, <2>2, <3>1
    <3>4. bytes[n + 1] = 4 * A[n + 1]
      BY <3>2, <3>3
    <3> QED
      BY <3>1, <3>4
  <2>3. L \in H
    <3>1. L \in Nat /\ L \in 0..L
      BY <1>1
    <3> HIDE DEF H
    <3> QED
      BY <2>1, <2>2, <3>1, UpTo
  <2> QED
    BY <2>3
<1>8. A[L] \in Nat
  BY <1>1
<1>9. (-(4 * A[L])) % 16 \in 0..15
  <2>1. \A x \in Int : x % 16 \in 0..15
    OBVIOUS
  <2>2. -(4 * A[L]) \in Int
    BY <1>8
  <2> QED
    BY <2>1, <2>2
<1>10. /\ 4 * A[L] + ((-(4 * A[L])) % 16) \in Nat
       /\ 4 * A[L] <= 4 * A[L] + ((-(4 * A[L])) % 16)
  <2>1. \A a \in Nat : \A p \in 0..15 : 4 * a + p \in Nat /\ 4 * a <= 4 * a + p
    OBVIOUS
  <2> QED
    BY <1>8, <1>9, <2>1
<1>11. BufSize(ts) = 4 * A[L] + ((-(4 * A[L])) % 16)
  BY <1>3, <1>7
<1> QED
  BY <1>10, <1>11 DEF L

\* The offset of the copy back is where the value of the tag starts.
LEMMA ValueAtFacts ==
  ASSUME NEW ts \in Seq(Tag), NEW A, Offsets(ts, A), NEW n \in 1..Len(ts)
  PROVE  ValueAt(ts, n) = A[n - 1] + 3
<1> DEFINE R(f) == f = [k \in 1..n |-> IF k = 1 THEN 6
                                       ELSE f[k - 1] + 3 + ValueWords(ts[k - 1])]
           at == CHOOSE f : R(f)
           g == [k \in 1..n |-> A[k - 1] + 3]
<1>1. /\ Len(ts) \in Nat /\ n \in Nat /\ 1 \in 1..n /\ n \in 1..n
      /\ \A k \in 0..Len(ts) : A[k] \in Nat
      /\ \A k \in 1..Len(ts) : ValueWords(ts[k]) \in 0..2 /\ A[k] = A[k - 1] + 3 + ValueWords(ts[k])
      /\ A[0] = 3
  <2>1. Len(ts) \in Nat /\ n \in Nat /\ 1 \in 1..n /\ n \in 1..n
    BY LenProperties
  <2>2. /\ \A k \in 0..Len(ts) : A[k] \in Nat
        /\ \A k \in 1..Len(ts) : ValueWords(ts[k]) \in 0..2 /\ A[k] = A[k - 1] + 3 + ValueWords(ts[k])
    BY OffsetsFacts
  <2> QED
    BY <2>1, <2>2 DEF Offsets
<1>2. ValueAt(ts, n) = at[n]
  BY DEF ValueAt
<1>3. R(g)
  <2>1. g[1] = 6
    BY <1>1
  <2>2. ASSUME NEW k \in 1..n, k # 1 PROVE g[k] = g[k - 1] + 3 + ValueWords(ts[k - 1])
    <3>1. k - 1 \in 1..n /\ k - 1 \in 1..Len(ts) /\ (k - 1) - 1 \in 0..Len(ts) /\ k - 1 \in 0..Len(ts)
      BY <1>1, <2>2
    <3>2. g[k] = A[k - 1] + 3 /\ g[k - 1] = A[(k - 1) - 1] + 3
      BY <3>1
    <3>3. /\ A[k - 1] = A[(k - 1) - 1] + 3 + ValueWords(ts[k - 1])
          /\ A[(k - 1) - 1] \in Nat /\ ValueWords(ts[k - 1]) \in 0..2
      BY <1>1, <3>1
    <3> HIDE DEF g
    <3> QED
      BY <3>2, <3>3
  <2>3. g = [k \in 1..n |-> g[k]]
    OBVIOUS
  <2>4. \A k \in 1..n : g[k] = IF k = 1 THEN 6 ELSE g[k - 1] + 3 + ValueWords(ts[k - 1])
    BY <2>1, <2>2
  <2> HIDE DEF g
  <2> QED
    BY <2>3, <2>4
<1>4. R(at)
  <2> HIDE DEF R
  <2> QED
    BY <1>3
<1>5. /\ at[1] = 6
      /\ \A k \in 1..n : k # 1 => at[k] = at[k - 1] + 3 + ValueWords(ts[k - 1])
  <2> HIDE DEF at
  <2> QED
    BY <1>1, <1>4
<1> HIDE DEF at
<1>6. at[n] = A[n - 1] + 3
  <2> DEFINE H == {k \in 0..(n - 1) : at[k + 1] = A[k] + 3}
  <2>1. 0 \in H
    BY <1>1, <1>5
  <2>2. ASSUME NEW k \in 0..(n - 1 - 1), k \in H PROVE k + 1 \in H
    <3>1. /\ (k + 1) + 1 \in 1..n /\ (k + 1) + 1 # 1 /\ ((k + 1) + 1) - 1 = k + 1
          /\ k + 1 \in 1..Len(ts) /\ (k + 1) - 1 = k /\ k \in 0..Len(ts) /\ k + 1 \in 0..(n - 1)
      BY <1>1
    <3>2. at[(k + 1) + 1] = at[k + 1] + 3 + ValueWords(ts[k + 1])
      BY <1>5, <3>1
    <3>3. /\ A[k + 1] = A[k] + 3 + ValueWords(ts[k + 1])
          /\ A[k] \in Nat /\ ValueWords(ts[k + 1]) \in 0..2 /\ at[k + 1] = A[k] + 3
      BY <1>1, <2>2, <3>1
    <3>4. at[(k + 1) + 1] = A[k + 1] + 3
      BY <3>2, <3>3
    <3> QED
      BY <3>1, <3>4
  <2>3. n - 1 \in H
    <3>1. n - 1 \in Nat /\ n - 1 \in 0..(n - 1)
      BY <1>1
    <3> HIDE DEF H
    <3> QED
      BY <2>1, <2>2, <3>1, UpTo
  <2>4. (n - 1) + 1 = n
    BY <1>1
  <2> QED
    BY <2>3, <2>4
<1> QED
  BY <1>2, <1>6
\* Where the pieces lie in a sequence that FlattenSeq puts together.
Pieces(s, L, B) ==
  /\ L \in Nat \ {0} /\ Len(s) = L
  /\ \A i \in 1..L : s[i] \in Seq(Nat)
  /\ B \in [0..L -> Nat] /\ B[0] = 0
  /\ \A n \in 1..L : B[n] = B[n - 1] + Len(s[n])
  /\ \A m, n \in 0..L : m <= n => B[m] <= B[n]

LEMMA FlattenFacts ==
  ASSUME NEW s, NEW L, NEW B, Pieces(s, L, B)
  PROVE  /\ FlattenSeq(s) \in Seq(Nat) /\ Len(FlattenSeq(s)) = B[L]
         /\ \A n \in 1..L : \A k \in 1..Len(s[n]) : FlattenSeq(s)[B[n - 1] + k] = s[n][k]
<1> USE DEF Pieces
<1> DEFINE Good(f, m) == /\ f \in [1..L -> Seq(Nat)] /\ f[1] = s[1]
                         /\ \A i \in 1..(m + 1) : i # 1 => f[i] = f[i - 1] \o s[i]
           R(f) == f = [i \in 1..L |-> IF i = 1 THEN s[i] ELSE f[i - 1] \o s[i]]
           flatten == CHOOSE f : R(f)
           G == {m \in 0..(L - 1) : \E f : Good(f, m)}
<1>1. L - 1 \in Nat /\ 0 \in 0..(L - 1) /\ L - 1 \in 0..(L - 1) /\ (L - 1) + 1 = L /\ 1 \in 1..L /\ L \in 1..L
  OBVIOUS
<1>2. 0 \in G
  <2>1. Good([i \in 1..L |-> s[1]], 0)
    <3>1. 0 + 1 = 1 /\ \A i \in 1..1 : i = 1
      OBVIOUS
    <3> QED
      BY <1>1, <3>1
  <2> HIDE DEF Good
  <2> QED
    BY <1>1, <2>1
<1>3. ASSUME NEW m \in 0..(L - 1 - 1), m \in G PROVE m + 1 \in G
  <2>1. PICK f : Good(f, m)
    BY <1>3
  <2> DEFINE g == [f EXCEPT ![m + 2] = f[m + 1] \o s[m + 2]]
  <2>2. /\ m + 1 \in 0..(L - 1) /\ m + 1 \in 1..L /\ m + 2 \in 1..L /\ m + 2 # 1 /\ m + 2 # m + 1
        /\ (m + 1) + 1 = m + 2 /\ (m + 2) - 1 = m + 1
    OBVIOUS
  <2>3. f[m + 1] \o s[m + 2] \in Seq(Nat)
    <3>1. f[m + 1] \in Seq(Nat) /\ s[m + 2] \in Seq(Nat)
      BY <2>1, <2>2
    <3> QED
      BY <3>1, ConcatProperties
  <2>4. g \in [1..L -> Seq(Nat)] /\ g[m + 2] = f[m + 1] \o s[m + 2]
        /\ \A i \in 1..L : i # m + 2 => g[i] = f[i]
    BY <2>1, <2>2, <2>3
  <2> HIDE DEF g
  <2>5. ASSUME NEW i \in 1..(m + 2), i # 1 PROVE g[i] = g[i - 1] \o s[i]
    <3>1. CASE i = m + 2
      BY <2>2, <2>4, <3>1
    <3>2. CASE i # m + 2
      <4>1. i \in 1..(m + 1) /\ i \in 1..L /\ i - 1 \in 1..L /\ i - 1 # m + 2
        BY <2>5, <3>2
      <4>2. f[i] = f[i - 1] \o s[i]
        BY <2>1, <2>5, <4>1
      <4> QED
        BY <2>4, <3>2, <4>1, <4>2
    <3> QED
      BY <3>1, <3>2
  <2>6. Good(g, m + 1)
    BY <1>1, <2>1, <2>2, <2>4, <2>5
  <2> HIDE DEF Good
  <2> QED
    BY <2>2, <2>6
<1>4. PICK f : Good(f, L - 1)
  <2>1. L - 1 \in G
    <3> HIDE DEF G
    <3> QED
      BY <1>1, <1>2, <1>3, UpTo
  <2> QED
    BY <2>1
<1>5. R(f)
  <2>1. f = [i \in 1..L |-> f[i]]
    BY <1>4
  <2>2. \A i \in 1..L : f[i] = IF i = 1 THEN s[i] ELSE f[i - 1] \o s[i]
    BY <1>1, <1>4
  <2> QED
    BY <2>1, <2>2
<1>6. R(flatten)
  <2> HIDE DEF R
  <2> QED
    BY <1>5
<1>7. flatten[1] = s[1] /\ \A i \in 1..L : i # 1 => flatten[i] = flatten[i - 1] \o s[i]
  <2> HIDE DEF flatten
  <2> QED
    BY <1>1, <1>6
<1>8. FlattenSeq(s) = flatten[L]
  BY DEF FlattenSeq
<1> HIDE DEF flatten
<1> DEFINE Q(m) == /\ flatten[m] \in Seq(Nat) /\ Len(flatten[m]) = B[m]
                   /\ \A n \in 1..m : \A k \in 1..Len(s[n]) : flatten[m][B[n - 1] + k] = s[n][k]
           H == {m \in 0..(L - 1) : Q(m + 1)}
<1>9. 0 \in H
  <2>1. s[1] \in Seq(Nat) /\ B[1] = 0 + Len(s[1]) /\ Len(s[1]) \in Nat
    BY <1>1, LenProperties
  <2>2. \A k \in 1..Len(s[1]) : 0 + k = k
    BY <2>1
  <2>3. \A n \in 1..1 : n = 1 /\ n - 1 = 0
    OBVIOUS
  <2>4. Q(1)
    BY <1>7, <2>1, <2>2, <2>3
  <2> HIDE DEF Q
  <2> QED
    BY <1>1, <2>4
<1>10. ASSUME NEW m \in 0..(L - 1 - 1), m \in H PROVE m + 1 \in H
  <2>1. /\ m + 1 \in 0..(L - 1) /\ m + 1 \in 1..L /\ m + 2 \in 1..L /\ m + 2 # 1
        /\ (m + 1) + 1 = m + 2 /\ (m + 2) - 1 = m + 1 /\ m + 1 \in 0..L
    OBVIOUS
  <2>2. Q(m + 1)
    BY <1>10
  <2> DEFINE a == flatten[m + 1]
             b == s[m + 2]
  <2>3. flatten[m + 2] = a \o b /\ a \in Seq(Nat) /\ b \in Seq(Nat) /\ Len(a) = B[m + 1]
    BY <1>7, <2>1, <2>2
  <2>4. /\ a \o b \in Seq(Nat) /\ Len(a \o b) = Len(a) + Len(b) /\ Len(a) \in Nat /\ Len(b) \in Nat
        /\ \A i \in 1..(Len(a) + Len(b)) : (a \o b)[i] = IF i <= Len(a) THEN a[i] ELSE b[i - Len(a)]
    <3>1. a \in Seq(Nat) /\ b \in Seq(Nat)
      BY <2>3
    <3> HIDE DEF a, b
    <3>2. Len(a) \in Nat /\ Len(b) \in Nat
      BY <3>1, LenProperties
    <3> QED
      BY <3>1, <3>2, ConcatProperties
  <2>5. B[m + 2] = B[m + 1] + Len(b)
    BY <2>1
  <2>6. ASSUME NEW n \in 1..(m + 2), NEW k \in 1..Len(s[n])
        PROVE  (a \o b)[B[n - 1] + k] = s[n][k]
    <3>1. CASE n = m + 2
      <4>1. B[n - 1] = Len(a) /\ Len(s[n]) = Len(b) /\ s[n] = b
        BY <2>1, <2>3, <3>1
      <4>2. /\ Len(a) + k \in 1..(Len(a) + Len(b)) /\ ~(Len(a) + k <= Len(a))
            /\ (Len(a) + k) - Len(a) = k
        <5>1. Len(a) \in Nat /\ Len(b) \in Nat /\ k \in 1..Len(b)
          BY <2>4, <4>1
        <5>2. \A x, y \in Nat : \A z \in 1..y :
                x + z \in 1..(x + y) /\ ~(x + z <= x) /\ (x + z) - x = z
          OBVIOUS
        <5> HIDE DEF a, b
        <5> QED
          BY <5>1, <5>2
      <4> HIDE DEF a, b
      <4> QED
        BY <2>4, <4>1, <4>2
    <3>2. CASE n # m + 2
      <4>1. n \in 1..(m + 1) /\ n \in 1..L /\ n - 1 \in 0..L /\ n <= m + 1 /\ n \in 0..L
        BY <3>2
      <4>2. B[n] = B[n - 1] + Len(s[n]) /\ B[n] <= B[m + 1] /\ B[n - 1] \in Nat /\ B[m + 1] \in Nat
        BY <2>1, <4>1
      <4>3. Len(s[n]) \in Nat
        BY <4>1, LenProperties
      <4>4. B[n - 1] + k \in 1..(Len(a) + Len(b)) /\ B[n - 1] + k <= Len(a)
        <5>1. Len(a) = B[m + 1] /\ Len(b) \in Nat
          BY <2>3, <2>4
        <5> HIDE DEF a, b
        <5>2. /\ k \in Nat \ {0} /\ k <= Len(s[n]) /\ B[n - 1] + Len(s[n]) <= Len(a)
              /\ Len(a) \in Nat
          BY <4>2, <4>3, <5>1
        <5>3. \A w, x, y, v, z \in Nat : z # 0 /\ z <= v /\ w + v <= x
                                         => w + z \in 1..(x + y) /\ w + z <= x
          OBVIOUS
        <5> QED
          BY <4>2, <4>3, <5>1, <5>2, <5>3
      <4>5. a[B[n - 1] + k] = s[n][k]
        BY <2>2, <4>1
      <4> HIDE DEF a, b
      <4> QED
        BY <2>4, <4>4, <4>5
    <3> QED
      BY <3>1, <3>2
  <2>7. Q(m + 2)
    <3>1. Len(flatten[m + 2]) = B[m + 2]
      <4> HIDE DEF a, b
      <4> QED
        BY <2>3, <2>4, <2>5
    <3> QED
      BY <2>3, <2>4, <2>6, <3>1
  <2> HIDE DEF Q
  <2> QED
    BY <2>1, <2>7
<1>11. L - 1 \in H
  <2> HIDE DEF H
  <2> QED
    BY <1>1, <1>9, <1>10, UpTo
<1> QED
  BY <1>1, <1>8, <1>11
\* The header, the tags where Offsets says, and the null tag.
LEMMA MessageFacts ==
  ASSUME NEW ts \in Seq(Tag), NEW A, Offsets(ts, A)
  PROVE  /\ Message(ts) \in Seq(Nat) /\ Len(Message(ts)) = A[Len(ts)]
         /\ Message(ts)[1] = BufSize(ts) /\ Message(ts)[2] = REQUEST
         /\ Message(ts)[A[Len(ts)]] = NULL_TAG
         /\ \A n \in 1..Len(ts) : /\ Message(ts)[A[n - 1]] = ts[n].proptag
                                  /\ Message(ts)[A[n - 1] + 1] = 4 * ValueWords(ts[n])
<1> DEFINE L == Len(ts)
           s == [n \in DOMAIN ts |-> TagWords(ts[n])]
           f == FlattenSeq(s)
           B == [n \in 0..L |-> A[n] - 3]
<1>1. /\ L \in Nat /\ DOMAIN ts = 1..L
      /\ \A n \in 0..L : A[n] \in Nat /\ A[n] >= 3 /\ A[n] <= A[L]
      /\ \A n \in 1..L : /\ ts[n] \in Tag /\ ValueWords(ts[n]) \in 0..2
                         /\ A[n] = A[n - 1] + 3 + ValueWords(ts[n])
      /\ \A m, n \in 0..L : m <= n => A[m] <= A[n]
      /\ A[0] = 3
  BY OffsetsFacts DEF Offsets
<1>2. \A n \in 1..L : /\ TagWords(ts[n]) \in Seq(Nat) /\ Len(TagWords(ts[n])) = 3 + ValueWords(ts[n])
                      /\ TagWords(ts[n])[1] = ts[n].proptag
                      /\ TagWords(ts[n])[2] = 4 * ValueWords(ts[n])
  BY <1>1, TagWordsFacts
<1> HIDE DEF L
<1>3. Len(s) = L /\ \A n \in 1..L : s[n] = TagWords(ts[n])
  BY <1>1
<1>4. /\ B \in [0..L -> Nat] /\ B[0] = 0 /\ \A m, n \in 0..L : m <= n => B[m] <= B[n]
      /\ \A n \in 0..L : B[n] = A[n] - 3
  <2>1. \A n \in 0..L : A[n] - 3 \in Nat
    BY <1>1
  <2>2. 0 \in 0..L
    BY <1>1
  <2>3. \A m, n \in 0..L : m <= n => A[m] - 3 <= A[n] - 3
    <3>1. \A x, y \in Nat : x <= y => x - 3 <= y - 3
      OBVIOUS
    <3> QED
      BY <1>1, <3>1
  <2> QED
    BY <1>1, <2>1, <2>2, <2>3
<1> HIDE DEF B, s
<1>5. \A n \in 1..L : B[n] = B[n - 1] + Len(s[n]) /\ Len(s[n]) = 3 + ValueWords(ts[n])
  <2> TAKE n \in 1..L
  <2>1. n \in 0..L /\ n - 1 \in 0..L
    BY <1>1
  <2>2. A[n] = A[n - 1] + 3 + ValueWords(ts[n]) /\ A[n - 1] \in Nat /\ ValueWords(ts[n]) \in 0..2
    BY <1>1, <2>1
  <2>3. A[n] - 3 = (A[n - 1] - 3) + (3 + ValueWords(ts[n]))
    BY <2>2
  <2> QED
    BY <1>2, <1>3, <1>4, <2>1, <2>3
<1>6. /\ f \in Seq(Nat) /\ Len(f) = A[L] - 3
      /\ \A n \in 1..L : f[A[n - 1] - 2] = ts[n].proptag /\ f[A[n - 1] - 1] = 4 * ValueWords(ts[n])
  <2>1. CASE L = 0
    <3>1. f = s
      BY <1>3, <2>1 DEF FlattenSeq
    <3>2. s = <<>>
      BY <1>1, <2>1 DEF s
    <3>3. 1..L = {} /\ A[L] - 3 = 0
      BY <1>1, <2>1
    <3>4. <<>> \in Seq(Nat) /\ Len(<<>>) = 0
      OBVIOUS
    <3> QED
      BY <3>1, <3>2, <3>3, <3>4
  <2>2. CASE L # 0
    <3>1. L \in Nat \ {0} /\ \A n \in 1..L : s[n] \in Seq(Nat)
      BY <1>1, <1>2, <1>3, <2>2
    <3>2. \A n \in 1..L : B[n] = B[n - 1] + Len(s[n])
      BY <1>5
    <3>3. /\ f \in Seq(Nat) /\ Len(f) = B[L]
          /\ \A n \in 1..L : \A k \in 1..Len(s[n]) : f[B[n - 1] + k] = s[n][k]
      <4>1. /\ Len(s) = L /\ B \in [0..L -> Nat] /\ B[0] = 0
            /\ \A m, n \in 0..L : m <= n => B[m] <= B[n]
        BY <1>3, <1>4
      <4>2. /\ FlattenSeq(s) \in Seq(Nat) /\ Len(FlattenSeq(s)) = B[L]
            /\ \A n \in 1..L : \A k \in 1..Len(s[n]) : FlattenSeq(s)[B[n - 1] + k] = s[n][k]
        <5>1. Pieces(s, L, B)
          BY <3>1, <3>2, <4>1 DEF Pieces
        <5> QED
          BY <5>1, FlattenFacts
      <4> QED
        BY <4>2
    <3> HIDE DEF f
    <3>4. ASSUME NEW n \in 1..L
          PROVE  f[A[n - 1] - 2] = ts[n].proptag /\ f[A[n - 1] - 1] = 4 * ValueWords(ts[n])
      <4>1. n - 1 \in 0..L /\ A[n - 1] \in Nat
        BY <1>1
      <4>2. 1 \in 1..Len(s[n]) /\ 2 \in 1..Len(s[n])
        <5>1. ValueWords(ts[n]) \in 0..2 /\ Len(s[n]) = 3 + ValueWords(ts[n])
          BY <1>1, <1>5
        <5>2. \A v \in 0..2 : 1 \in 1..(3 + v) /\ 2 \in 1..(3 + v)
          OBVIOUS
        <5> QED
          BY <5>1, <5>2
      <4>3. B[n - 1] + 1 = A[n - 1] - 2 /\ B[n - 1] + 2 = A[n - 1] - 1
        BY <1>4, <4>1
      <4>4. f[B[n - 1] + 1] = s[n][1] /\ f[B[n - 1] + 2] = s[n][2]
        BY <3>3, <4>2
      <4>5. s[n][1] = ts[n].proptag /\ s[n][2] = 4 * ValueWords(ts[n])
        BY <1>2, <1>3
      <4> QED
        BY <4>3, <4>4, <4>5
    <3>5. L \in 0..L
      BY <1>1
    <3> QED
      BY <1>4, <3>3, <3>4, <3>5
  <2> QED
    BY <2>1, <2>2
<1> HIDE DEF f
<1> DEFINE h == <<BufSize(ts), REQUEST>>
           z == <<NULL_TAG>>
<1>7. Message(ts) = (h \o f) \o z
  BY DEF Message, f, s
<1>8. h \in Seq(Nat) /\ Len(h) = 2 /\ h[1] = BufSize(ts) /\ h[2] = REQUEST
  BY BufSizeFacts DEF REQUEST
<1>9. z \in Seq(Nat) /\ Len(z) = 1 /\ z[1] = NULL_TAG
  BY DEF NULL_TAG
<1> HIDE DEF h, z
<1> DEFINE g == h \o f
           M == A[L]
<1>10. M \in Nat /\ M >= 3 /\ M - 3 \in Nat
  <2>1. L \in 0..L
    BY <1>1
  <2>2. \A x \in Nat : x >= 3 => x - 3 \in Nat
    OBVIOUS
  <2> QED
    BY <1>1, <2>1, <2>2
<1>11. /\ g \in Seq(Nat) /\ Len(g) = M - 1
       /\ g[1] = BufSize(ts) /\ g[2] = REQUEST
       /\ \A i \in 3..(M - 1) : g[i] = f[i - 2]
  <2>1. /\ g \in Seq(Nat) /\ Len(g) = Len(h) + Len(f)
        /\ \A i \in 1..(Len(h) + Len(f)) : g[i] = IF i <= Len(h) THEN h[i] ELSE f[i - Len(h)]
    BY <1>6, <1>8, ConcatProperties
  <2> HIDE DEF g, M
  <2>2. Len(h) + Len(f) = M - 1
    BY <1>6, <1>8, <1>10 DEF M
  <2>3. 1 \in 1..(M - 1) /\ 2 \in 1..(M - 1) /\ \A i \in 3..(M - 1) : i \in 1..(M - 1) /\ ~(i <= 2)
    BY <1>10
  <2> QED
    BY <1>8, <2>1, <2>2, <2>3
<1> HIDE DEF g, M
<1>12. /\ g \o z \in Seq(Nat) /\ Len(g \o z) = M /\ (g \o z)[M] = NULL_TAG
       /\ \A i \in 1..(M - 1) : (g \o z)[i] = g[i]
  <2>1. /\ g \o z \in Seq(Nat) /\ Len(g \o z) = Len(g) + Len(z)
        /\ \A i \in 1..(Len(g) + Len(z)) : (g \o z)[i] = IF i <= Len(g) THEN g[i] ELSE z[i - Len(g)]
    BY <1>9, <1>11, ConcatProperties
  <2>2. Len(g) + Len(z) = M
    BY <1>9, <1>10, <1>11
  <2>3. /\ M \in 1..M /\ ~(M <= M - 1) /\ M - (M - 1) = 1
        /\ \A i \in 1..(M - 1) : i \in 1..M /\ i <= M - 1
    BY <1>10
  <2> QED
    BY <1>9, <1>11, <2>1, <2>2, <2>3
<1>13. ASSUME NEW n \in 1..L
       PROVE  /\ (g \o z)[A[n - 1]] = ts[n].proptag
              /\ (g \o z)[A[n - 1] + 1] = 4 * ValueWords(ts[n])
  <2>1. n - 1 \in 0..L /\ n \in 0..L
    BY <1>1
  <2>2. /\ A[n - 1] \in Nat /\ A[n - 1] >= 3 /\ A[n] = A[n - 1] + 3 + ValueWords(ts[n])
        /\ ValueWords(ts[n]) \in 0..2 /\ A[n] <= M /\ A[n] \in Nat
    BY <1>1, <2>1 DEF M
  <2>3. \A a, v, b, c \in Nat : a >= 3 /\ b = a + 3 + v /\ b <= c =>
          /\ a \in 3..(c - 1) /\ a + 1 \in 3..(c - 1) /\ a \in 1..(c - 1) /\ a + 1 \in 1..(c - 1)
          /\ (a + 1) - 2 = a - 1
    OBVIOUS
  <2>4. ValueWords(ts[n]) \in Nat
    BY <2>2
  <2>5. /\ A[n - 1] \in 3..(M - 1) /\ A[n - 1] + 1 \in 3..(M - 1)
        /\ A[n - 1] \in 1..(M - 1) /\ A[n - 1] + 1 \in 1..(M - 1) /\ (A[n - 1] + 1) - 2 = A[n - 1] - 1
    BY <1>10, <2>2, <2>3, <2>4
  <2>6. g[A[n - 1]] = f[A[n - 1] - 2] /\ g[A[n - 1] + 1] = f[A[n - 1] - 1]
    BY <1>11, <2>5
  <2> QED
    BY <1>6, <1>12, <2>5, <2>6
<1>14. 1 \in 1..(M - 1) /\ 2 \in 1..(M - 1)
  BY <1>10
<1>15. Message(ts) = g \o z
  BY <1>7 DEF g
<1>16. /\ Message(ts) \in Seq(Nat) /\ Len(Message(ts)) = M
       /\ Message(ts)[1] = BufSize(ts) /\ Message(ts)[2] = REQUEST
       /\ Message(ts)[M] = NULL_TAG
  BY <1>11, <1>12, <1>14, <1>15
<1>17. \A n \in 1..L : /\ Message(ts)[A[n - 1]] = ts[n].proptag
                       /\ Message(ts)[A[n - 1] + 1] = 4 * ValueWords(ts[n])
  BY <1>13, <1>15
<1> QED
  BY <1>16, <1>17 DEF M, L
-----------------------------------------------------------------------------
(* The GPU reads a message as it was written                                *)

\* The message of ts is in buf, as far as the GPU needs it to find the tags.
Holds(buf, ts, A) ==
  /\ ts \in Seq(Tag) /\ Offsets(ts, A) /\ A[Len(ts)] <= BlockWords
  /\ buf \in [1..BlockWords -> Nat] /\ buf[A[Len(ts)]] = NULL_TAG
  /\ \A n \in 1..Len(ts) : /\ buf[A[n - 1]] = ts[n].proptag
                           /\ buf[A[n - 1] + 1] = 4 * ValueWords(ts[n])

\* It goes from tag to tag, and to all of them.
LEMMA TagStartsFacts ==
  ASSUME NEW ts, NEW buf, NEW A, Holds(buf, ts, A)
  PROVE  /\ DOMAIN TagStarts(buf) = 1..Len(ts)
         /\ \A n \in 1..Len(ts) : TagStarts(buf)[n] = A[n - 1]
<1> DEFINE N(f, i) == IF i > BlockWords - 2 \/ buf[i] = NULL_TAG
                      THEN <<>> ELSE <<i>> \o f[i + 3 + (buf[i + 1] \div 4)]
           R(f) == f = [i \in Nat |-> N(f, i)]
           From == CHOOSE f : R(f)
           Good(f, m) == f \in [Nat -> Seq(Nat)] /\ \A i \in Nat : i + m > BlockWords => f[i] = N(f, i)
           G == {m \in Nat : \E f : Good(f, m)}
           L == Len(ts)
<1>1. BlockWords \in Nat /\ ts \in Seq(Tag) /\ Offsets(ts, A) /\ buf \in [1..BlockWords -> Nat]
  BY MailboxAssumption DEF Holds
<1>2. ASSUME NEW i \in Nat, ~(i > BlockWords - 2)
      PROVE  i + 3 + (buf[i + 1] \div 4) \in Nat /\ i + 3 + (buf[i + 1] \div 4) > i
  <2>1. buf[i + 1] \in Nat
    <3>1. i + 1 \in 1..BlockWords
      BY <1>1, <1>2
    <3> QED
      BY <1>1, <3>1
  <2>2. \A x \in Nat : x \div 4 \in Nat
    OBVIOUS
  <2>3. \A d \in Nat : i + 3 + d \in Nat /\ i + 3 + d > i
    OBVIOUS
  <2> QED
    BY <2>1, <2>2, <2>3
<1>3. ASSUME NEW f \in [Nat -> Seq(Nat)], NEW i \in Nat PROVE N(f, i) \in Seq(Nat)
  <2>1. CASE i > BlockWords - 2
    BY <2>1
  <2>2. CASE ~(i > BlockWords - 2)
    <3>1. f[i + 3 + (buf[i + 1] \div 4)] \in Seq(Nat)
      BY <1>2, <2>2
    <3>2. <<i>> \in Seq(Nat) /\ <<>> \in Seq(Nat)
      OBVIOUS
    <3>3. <<i>> \o f[i + 3 + (buf[i + 1] \div 4)] \in Seq(Nat)
      BY <3>1, <3>2, ConcatProperties
    <3> QED
      BY <3>2, <3>3
  <2> QED
    BY <2>1, <2>2
<1>4. 0 \in G
  <2> DEFINE f == [i \in Nat |-> <<>>]
  <2>1. f \in [Nat -> Seq(Nat)]
    OBVIOUS
  <2>2. \A i \in Nat : i + 0 > BlockWords => f[i] = N(f, i)
    BY <1>1
  <2>3. Good(f, 0)
    BY <2>1, <2>2
  <2> HIDE DEF Good
  <2> QED
    BY <2>3
<1> DEFINE K == BlockWords + 1
<1>k. K \in Nat /\ K \in 0..K /\ K - 1 = BlockWords
  BY <1>1
<1> HIDE DEF K
<1>5. ASSUME NEW m \in 0..(K - 1), m \in G PROVE m + 1 \in G
  <2>1. PICK f : Good(f, m)
    BY <1>5
  <2> DEFINE p == BlockWords - m
             g == [f EXCEPT ![p] = N(f, p)]
  <2>2. p \in Nat /\ m + 1 \in Nat
    BY <1>1, <1>k
  <2>3. /\ g \in [Nat -> Seq(Nat)] /\ g[p] = N(f, p)
        /\ \A i \in Nat : i # p => g[i] = f[i]
    <3>1. N(f, p) \in Seq(Nat)
      <4> HIDE DEF N, p
      <4> QED
        BY <1>3, <2>1, <2>2
    <3> HIDE DEF N, p
    <3> QED
      BY <2>1, <2>2, <3>1
  <2> HIDE DEF g
  <2>4. ASSUME NEW i \in Nat, i >= p PROVE N(g, i) = N(f, i)
    <3>1. CASE i > BlockWords - 2
      BY <3>1
    <3>2. CASE ~(i > BlockWords - 2)
      <4> DEFINE j == i + 3 + (buf[i + 1] \div 4)
      <4>1. j \in Nat /\ j > i
        BY <1>2, <3>2
      <4> HIDE DEF j
      <4>2. j # p
        BY <1>1, <2>2, <2>4, <4>1
      <4>3. g[j] = f[j]
        BY <2>3, <4>1, <4>2
      <4> QED
        BY <4>3 DEF j
    <3> QED
      BY <3>1, <3>2
  <2>5. ASSUME NEW i \in Nat, i + (m + 1) > BlockWords PROVE g[i] = N(g, i)
    <3>1. i >= p /\ (i # p => i + m > BlockWords)
      BY <1>1, <2>5
    <3>2. i # p => f[i] = N(f, i)
      BY <2>1, <3>1
    <3> HIDE DEF N, p
    <3> QED
      BY <2>3, <2>4, <3>1, <3>2
  <2>6. Good(g, m + 1)
    <3> HIDE DEF N
    <3> QED
      BY <2>3, <2>5
  <2> HIDE DEF Good
  <2> QED
    BY <2>2, <2>6
<1>6. PICK f : Good(f, K)
  <2>1. K \in G
    <3> HIDE DEF G
    <3> QED
      BY <1>4, <1>5, <1>k, UpTo
  <2> HIDE DEF Good
  <2> QED
    BY <2>1
<1>7. R(f)
  <2> HIDE DEF N
  <2>1. \A i \in Nat : i + K > BlockWords
    BY <1>1 DEF K
  <2>2. f = [i \in Nat |-> f[i]] /\ \A i \in Nat : f[i] = N(f, i)
    BY <1>6, <2>1
  <2> QED
    BY <2>2
<1>8. R(From)
  <2> HIDE DEF R
  <2> QED
    BY <1>7
<1>9. \A i \in Nat : From[i] = N(From, i)
  <2> HIDE DEF From, N
  <2> QED
    BY <1>8
<1>10. TagStarts(buf) = From[3]
  BY DEF TagStarts
<1> HIDE DEF From
<1>11. /\ L \in Nat
       /\ \A n \in 0..L : A[n] \in Nat /\ A[n] <= A[L]
       /\ \A n \in 1..L : /\ ts[n] \in Tag /\ ValueWords(ts[n]) \in 0..2
                          /\ A[n] = A[n - 1] + 3 + ValueWords(ts[n])
       /\ A[0] = 3 /\ A[L] <= BlockWords
       /\ buf[A[L]] = NULL_TAG
       /\ \A n \in 1..L : /\ buf[A[n - 1]] = ts[n].proptag
                          /\ buf[A[n - 1] + 1] = 4 * ValueWords(ts[n])
  BY <1>1, OffsetsFacts DEF Holds, Offsets
<1> HIDE DEF L
<1> DEFINE T(d) == From[A[L - d]]
           H == {d \in 0..L : /\ T(d) \in Seq(Nat) /\ Len(T(d)) = d
                              /\ \A n \in 1..d : T(d)[n] = A[L - d + n - 1]}
<1>12. 0 \in H
  <2>1. L - 0 = L /\ L \in 0..L /\ 0 \in 0..L
    BY <1>11
  <2>2. From[A[L]] = <<>>
    BY <1>9, <1>11, <2>1
  <2>3. <<>> \in Seq(Nat) /\ Len(<<>>) = 0 /\ 1..0 = {}
    OBVIOUS
  <2> QED
    BY <2>1, <2>2, <2>3
<1>13. ASSUME NEW d \in 0..(L - 1), d \in H PROVE d + 1 \in H
  <2> DEFINE j == L - (d + 1)
             a == A[j]
             b == T(d)
  <2>1. /\ j \in 0..L /\ j + 1 \in 1..L /\ (j + 1) - 1 = j /\ j + 1 = L - d /\ j + 1 \in 0..L
        /\ d + 1 \in 0..L /\ d \in Nat
    BY <1>11
  <2>2. /\ b \in Seq(Nat) /\ Len(b) = d /\ \A n \in 1..d : b[n] = A[L - d + n - 1]
    BY <1>13
  <2> HIDE DEF j
  <2>3. /\ a \in Nat /\ A[j + 1] = a + 3 + ValueWords(ts[j + 1]) /\ A[j + 1] \in Nat
        /\ A[j + 1] <= A[L] /\ A[L] \in Nat /\ A[L] <= BlockWords
        /\ ValueWords(ts[j + 1]) \in 0..2 /\ ts[j + 1] \in Tag
        /\ buf[a] = ts[j + 1].proptag /\ buf[a + 1] = 4 * ValueWords(ts[j + 1])
    <3>1. L \in 0..L
      BY <1>11
    <3> QED
      BY <1>11, <2>1, <3>1
  <2>4. ~(a > BlockWords - 2)
    <3>1. \A x, v, y, z, w \in Nat : y = x + 3 + v /\ y <= z /\ z <= w => ~(x > w - 2)
      OBVIOUS
    <3>2. ValueWords(ts[j + 1]) \in Nat
      BY <2>3
    <3> HIDE DEF a
    <3> QED
      BY <1>1, <2>3, <3>1, <3>2
  <2>5. buf[a] # NULL_TAG
    BY <2>3, TagFacts
  <2>6. a + 3 + (buf[a + 1] \div 4) = A[j + 1]
    <3>1. \A v \in 0..2 : (4 * v) \div 4 = v
      <4>1. (4 * 0) \div 4 = 0 /\ (4 * 1) \div 4 = 1 /\ (4 * 2) \div 4 = 2
        OBVIOUS
      <4>2. \A v \in 0..2 : v = 0 \/ v = 1 \/ v = 2
        OBVIOUS
      <4> QED
        BY <4>1, <4>2
    <3> QED
      BY <2>3, <3>1
  <2>7. From[a] = <<a>> \o b
    <3>1. From[a] = <<a>> \o From[a + 3 + (buf[a + 1] \div 4)]
      BY <1>9, <2>3, <2>4, <2>5
    <3> QED
      BY <2>1, <2>6, <3>1
  <2> HIDE DEF b, a
  <2>8. /\ <<a>> \o b \in Seq(Nat) /\ Len(<<a>> \o b) = 1 + d
        /\ \A i \in 1..(1 + d) : (<<a>> \o b)[i] = IF i <= 1 THEN <<a>>[i] ELSE b[i - 1]
    <3>1. <<a>> \in Seq(Nat) /\ Len(<<a>>) = 1
      BY <2>3
    <3>2. /\ <<a>> \o b \in Seq(Nat) /\ Len(<<a>> \o b) = Len(<<a>>) + Len(b)
          /\ \A i \in 1..(Len(<<a>>) + Len(b)) :
               (<<a>> \o b)[i] = IF i <= Len(<<a>>) THEN <<a>>[i] ELSE b[i - Len(<<a>>)]
      BY <2>2, <3>1, ConcatProperties
    <3> QED
      BY <2>2, <3>1, <3>2
  <2>9. ASSUME NEW n \in 1..(d + 1) PROVE (<<a>> \o b)[n] = A[L - (d + 1) + n - 1]
    <3>1. CASE n = 1
      <4>1. L - (d + 1) + n - 1 = j /\ n \in 1..(1 + d)
        BY <1>11, <2>1, <3>1 DEF j
      <4> QED
        BY <2>8, <3>1, <4>1 DEF a
    <3>2. CASE n # 1
      <4>1. /\ n \in 1..(1 + d) /\ ~(n <= 1) /\ n - 1 \in 1..d
            /\ L - d + (n - 1) - 1 = L - (d + 1) + n - 1
        BY <1>11, <2>1, <3>2
      <4> QED
        BY <2>2, <2>8, <4>1
    <3> QED
      BY <3>1, <3>2
  <2>10. T(d + 1) = <<a>> \o b
    BY <2>7 DEF j, a
  <2>11. Len(T(d + 1)) = d + 1
    BY <2>1, <2>8, <2>10
  <2> HIDE DEF T
  <2> QED
    BY <2>1, <2>8, <2>9, <2>10, <2>11
<1>14. L \in H
  <2>1. L \in Nat /\ L \in 0..L
    BY <1>11
  <2> HIDE DEF H
  <2> QED
    BY <1>12, <1>13, <2>1, UpTo
<1>15. /\ From[3] \in Seq(Nat) /\ Len(From[3]) = L
       /\ \A n \in 1..L : From[3][n] = A[n - 1]
  <2>1. L - L = 0 /\ \A n \in 1..L : L - L + n - 1 = n - 1
    BY <1>11
  <2> QED
    BY <1>11, <1>14, <2>1
<1> QED
  BY <1>10, <1>15 DEF L
\* Each value of a message has words of its own, before the null tag.
LEMMA ValuesApart ==
  ASSUME NEW ts \in Seq(Tag), NEW A, Offsets(ts, A)
  PROVE  /\ \A n \in 1..Len(ts) : \A k \in 1..ValueWords(ts[n]) :
              A[n - 1] + 2 + k \in Nat /\ A[n - 1] + 2 + k > 3 /\ A[n - 1] + 2 + k <= A[Len(ts)]
         /\ \A m, n \in 1..Len(ts) : \A j \in 1..ValueWords(ts[m]), k \in 1..ValueWords(ts[n]) :
              A[m - 1] + 2 + j = A[n - 1] + 2 + k => m = n /\ j = k
<1>1. /\ Len(ts) \in Nat
      /\ \A n \in 0..Len(ts) : A[n] \in Nat /\ A[n] >= 3 /\ A[n] <= A[Len(ts)]
      /\ \A n \in 1..Len(ts) : ValueWords(ts[n]) \in 0..2 /\ A[n] = A[n - 1] + 3 + ValueWords(ts[n])
      /\ \A m, n \in 0..Len(ts) : m <= n => A[m] <= A[n]
  BY OffsetsFacts
<1>2. ASSUME NEW n \in 1..Len(ts), NEW k \in 1..ValueWords(ts[n])
      PROVE  /\ A[n - 1] \in Nat /\ A[n] \in Nat /\ A[Len(ts)] \in Nat /\ k \in Nat
             /\ A[n - 1] >= 3 /\ k > 0 /\ A[n - 1] + 2 + k < A[n] /\ A[n] <= A[Len(ts)]
  <2>1. n - 1 \in 0..Len(ts) /\ n \in 0..Len(ts) /\ Len(ts) \in 0..Len(ts)
    BY <1>1
  <2>2. \A a, v, b \in Nat : \A x \in 1..v : b = a + 3 + v => a + 2 + x < b /\ x \in Nat /\ x > 0
    OBVIOUS
  <2>3. ValueWords(ts[n]) \in Nat
    BY <1>1
  <2> QED
    BY <1>1, <2>1, <2>2, <2>3
<1>3. ASSUME NEW n \in 1..Len(ts), NEW k \in 1..ValueWords(ts[n])
      PROVE  A[n - 1] + 2 + k \in Nat /\ A[n - 1] + 2 + k > 3 /\ A[n - 1] + 2 + k <= A[Len(ts)]
  <2>1. \A a, b, c, x \in Nat : a >= 3 /\ a + 2 + x < b /\ b <= c
                                => a + 2 + x \in Nat /\ a + 2 + x > 3 /\ a + 2 + x <= c
    OBVIOUS
  <2> QED
    BY <1>2, <2>1
<1>4. ASSUME NEW m \in 1..Len(ts), NEW n \in 1..Len(ts), m < n,
             NEW j \in 1..ValueWords(ts[m]), NEW k \in 1..ValueWords(ts[n])
      PROVE  A[m - 1] + 2 + j # A[n - 1] + 2 + k
  <2>1. m \in 0..Len(ts) /\ n - 1 \in 0..Len(ts) /\ m <= n - 1
    BY <1>1, <1>4
  <2>2. A[m] <= A[n - 1]
    BY <1>1, <2>1
  <2>3. A[m - 1] \in Nat /\ A[m] \in Nat /\ j \in Nat /\ A[m - 1] + 2 + j < A[m]
    BY <1>2
  <2>4. A[n - 1] \in Nat /\ k \in Nat
    BY <1>2
  <2>5. \A a, b, c, x, y \in Nat : a + 2 + x < b /\ b <= c => a + 2 + x # c + 2 + y
    OBVIOUS
  <2> QED
    BY <2>2, <2>3, <2>4, <2>5
<1>5. ASSUME NEW m \in 1..Len(ts), NEW n \in 1..Len(ts),
             NEW j \in 1..ValueWords(ts[m]), NEW k \in 1..ValueWords(ts[n]),
             A[m - 1] + 2 + j = A[n - 1] + 2 + k
      PROVE  m = n /\ j = k
  <2>1. ~(m < n) /\ ~(n < m)
    BY <1>4, <1>5
  <2>2. m = n
    BY <1>1, <2>1
  <2>3. A[n - 1] \in Nat /\ j \in Nat /\ k \in Nat
    BY <1>2
  <2>4. \A a, x, y \in Nat : a + 2 + x = a + 2 + y => x = y
    OBVIOUS
  <2> QED
    BY <1>5, <2>2, <2>3, <2>4
<1> QED
  BY <1>3, <1>5

\* An answer goes to the words of the values and to the code, no others.
LEMMA AnsweredFacts ==
  ASSUME NEW ts, NEW buf, NEW A, Holds(buf, ts, A), NEW code \in Codes
  PROVE  /\ Answered(buf, code) \in [1..BlockWords -> Nat] /\ Answered(buf, code)[2] = code
         /\ \A n \in 1..Len(ts) : \A k \in 1..ValueWords(ts[n]) :
              Answered(buf, code)[A[n - 1] + 2 + k] = Answer(ts[n].proptag, n, k)
         /\ \A i \in 1..BlockWords :
              Answered(buf, code)[i] # buf[i] => i # 1 /\ i <= A[Len(ts)]
<1> DEFINE L == Len(ts)
           starts == TagStarts(buf)
           value(i) == {nk \in (DOMAIN starts) \X (1..2) :
                          /\ nk[2] <= buf[starts[nk[1]] + 1] \div 4
                          /\ i = starts[nk[1]] + 2 + nk[2]}
           w == Answered(buf, code)
<1>1. /\ BlockWords \in Nat /\ ts \in Seq(Tag) /\ Offsets(ts, A) /\ buf \in [1..BlockWords -> Nat]
      /\ A[L] <= BlockWords /\ code \in Nat
      /\ \A n \in 1..L : buf[A[n - 1]] = ts[n].proptag /\ buf[A[n - 1] + 1] = 4 * ValueWords(ts[n])
  BY MailboxAssumption DEF Holds, Codes, REQUEST, RESPONSE_SUCCESS, RESPONSE_ERROR
<1>2. /\ L \in Nat /\ A[L] \in Nat /\ A[L] >= 3
      /\ \A n \in 1..L : /\ ts[n] \in Tag /\ ValueWords(ts[n]) \in 0..2 /\ ts[n].proptag \in Nat
                         /\ A[n - 1] \in Nat
  <2>1. L \in 0..L /\ \A n \in 1..L : n - 1 \in 0..L
    BY <1>1, OffsetsFacts
  <2> QED
    BY <1>1, <2>1, OffsetsFacts, TagFacts
<1>3. DOMAIN starts = 1..L /\ \A n \in 1..L : starts[n] = A[n - 1]
  BY TagStartsFacts
<1>4. /\ \A n \in 1..L : \A k \in 1..ValueWords(ts[n]) :
           A[n - 1] + 2 + k \in Nat /\ A[n - 1] + 2 + k > 3 /\ A[n - 1] + 2 + k <= A[L]
      /\ \A m, n \in 1..L : \A j \in 1..ValueWords(ts[m]), k \in 1..ValueWords(ts[n]) :
           A[m - 1] + 2 + j = A[n - 1] + 2 + k => m = n /\ j = k
  BY <1>1, ValuesApart
<1>5. w = [i \in 1..BlockWords |->
             IF i = 2 THEN code
             ELSE IF value(i) = {} THEN buf[i]
             ELSE LET nk == CHOOSE nk \in value(i) : TRUE
                  IN  Answer(buf[starts[nk[1]]], nk[1], nk[2])]
  BY DEF Answered
<1> HIDE DEF L, starts, w
<1>6. \A n \in 1..L : buf[starts[n] + 1] \div 4 = ValueWords(ts[n])
  <2> TAKE n \in 1..L
  <2>1. (4 * 0) \div 4 = 0 /\ (4 * 1) \div 4 = 1 /\ (4 * 2) \div 4 = 2
    OBVIOUS
  <2>2. \A v \in 0..2 : v = 0 \/ v = 1 \/ v = 2
    OBVIOUS
  <2>3. \A v \in 0..2 : (4 * v) \div 4 = v
    BY <2>1, <2>2
  <2> QED
    BY <1>1, <1>2, <1>3, <2>3
<1>7. ASSUME NEW i, NEW nk \in value(i)
      PROVE  /\ nk[1] \in 1..L /\ nk[2] \in 1..ValueWords(ts[nk[1]])
             /\ i = A[nk[1] - 1] + 2 + nk[2] /\ buf[starts[nk[1]]] = ts[nk[1]].proptag
  <2>1. /\ nk[1] \in 1..L /\ nk[2] \in 1..2
        /\ nk[2] <= buf[starts[nk[1]] + 1] \div 4 /\ i = starts[nk[1]] + 2 + nk[2]
    BY <1>3
  <2>2. ValueWords(ts[nk[1]]) \in 0..2 /\ nk[2] <= ValueWords(ts[nk[1]])
    BY <1>2, <1>6, <2>1
  <2>3. \A v \in 0..2 : \A x \in 1..2 : x <= v => x \in 1..v
    OBVIOUS
  <2>4. nk[2] \in 1..ValueWords(ts[nk[1]])
    BY <2>1, <2>2, <2>3
  <2> QED
    BY <1>1, <1>3, <2>1, <2>4
<1>8. ASSUME NEW n \in 1..L, NEW k \in 1..ValueWords(ts[n])
      PROVE  <<n, k>> \in value(A[n - 1] + 2 + k)
  <2>1. k \in 1..2 /\ k <= ValueWords(ts[n])
    <3>1. \A v \in 0..2 : \A x \in 1..v : x \in 1..2 /\ x <= v
      OBVIOUS
    <3> QED
      BY <1>2, <3>1
  <2>2. <<n, k>> \in (DOMAIN starts) \X (1..2) /\ <<n, k>>[1] = n /\ <<n, k>>[2] = k
    BY <1>3, <2>1
  <2> QED
    BY <1>3, <1>6, <2>1, <2>2
<1> HIDE DEF value
<1>9. ASSUME NEW i \in 1..BlockWords, i # 2, value(i) # {}
      PROVE  \E n \in 1..L : \E k \in 1..ValueWords(ts[n]) :
               i = A[n - 1] + 2 + k /\ w[i] = Answer(ts[n].proptag, n, k)
  <2> DEFINE nk == CHOOSE nk \in value(i) : TRUE
  <2>1. nk \in value(i)
    BY <1>9
  <2>2. w[i] = Answer(buf[starts[nk[1]]], nk[1], nk[2])
    BY <1>5, <1>9
  <2> HIDE DEF nk
  <2> QED
    BY <1>7, <2>1, <2>2
<1>10. ASSUME NEW n \in 1..L, NEW k \in 1..ValueWords(ts[n])
       PROVE  w[A[n - 1] + 2 + k] = Answer(ts[n].proptag, n, k)
  <2> DEFINE i == A[n - 1] + 2 + k
  <2>1. i \in Nat /\ i > 3 /\ i <= A[L]
    BY <1>4
  <2>2. <<n, k>> \in value(i)
    BY <1>8
  <2>3. i \in 1..BlockWords /\ i # 2
    <3> HIDE DEF i
    <3> QED
      BY <1>1, <1>2, <2>1
  <2>4. PICK m \in 1..L : \E j \in 1..ValueWords(ts[m]) :
          i = A[m - 1] + 2 + j /\ w[i] = Answer(ts[m].proptag, m, j)
    <3> HIDE DEF i
    <3> QED
      BY <1>9, <2>2, <2>3
  <2>5. PICK j \in 1..ValueWords(ts[m]) :
          i = A[m - 1] + 2 + j /\ w[i] = Answer(ts[m].proptag, m, j)
    BY <2>4
  <2>6. m = n /\ j = k
    BY <1>4, <2>5
  <2> QED
    BY <2>5, <2>6
<1>11. ASSUME NEW i \in 1..BlockWords
       PROVE  w[i] \in Nat /\ (w[i] # buf[i] => i # 1 /\ i <= A[L])
  <2>1. CASE i = 2
    <3>1. w[i] = code
      BY <1>5, <2>1
    <3> QED
      BY <1>1, <1>2, <2>1, <3>1
  <2>2. CASE i # 2 /\ value(i) = {}
    <3>1. w[i] = buf[i]
      BY <1>5, <2>2
    <3> QED
      BY <1>1, <3>1
  <2>3. CASE i # 2 /\ value(i) # {}
    <3>1. PICK n \in 1..L : \E k \in 1..ValueWords(ts[n]) :
            i = A[n - 1] + 2 + k /\ w[i] = Answer(ts[n].proptag, n, k)
      BY <1>9, <2>3
    <3>2. PICK k \in 1..ValueWords(ts[n]) :
            i = A[n - 1] + 2 + k /\ w[i] = Answer(ts[n].proptag, n, k)
      BY <3>1
    <3>3. i > 3 /\ i <= A[L]
      BY <1>4, <3>2
    <3>4. Answer(ts[n].proptag, n, k) \in Nat
      <4>1. \A p, x, y \in Nat : 100 * p + 10 * x + y \in Nat
        OBVIOUS
      <4>2. ts[n].proptag \in Nat /\ n \in Nat /\ k \in Nat
        BY <1>2
      <4> QED
        BY <4>1, <4>2 DEF Answer
    <3>5. i # 1
      BY <3>3
    <3> QED
      BY <3>3, <3>4, <3>5, <3>2
  <2> QED
    BY <2>1, <2>2, <2>3
<1>12. w \in [1..BlockWords -> Nat] /\ w[2] = code
  <2>1. 2 \in 1..BlockWords
    BY <1>1, <1>2
  <2>2. w[2] = code
    BY <1>5, <2>1
  <2>3. w = [i \in 1..BlockWords |-> w[i]]
    BY <1>5
  <2> QED
    BY <1>11, <2>2, <2>3
<1> QED
  BY <1>10, <1>11, <1>12 DEF w, L
-----------------------------------------------------------------------------
(* What the steps of the kernel and of the GPU do                           *)

Calls == [retry : BOOLEAN, tags : Seq(Tag)]

\* The call that is made next, and those left after it.
LEMMA TodoFacts ==
  ASSUME NEW s, NEW n \in 0..Len(Program), s = SubSeq(Program, n + 1, Len(Program)), s # <<>>
  PROVE  /\ n + 1 \in DOMAIN Program /\ Head(s) = Program[n + 1]
         /\ n + 1 \in 0..Len(Program) /\ Tail(s) = SubSeq(Program, (n + 1) + 1, Len(Program))
<1> DEFINE N == Len(Program)
           r == SubSeq(Program, (n + 1) + 1, N)
<1>1. Program \in Seq(Calls) /\ N \in Nat /\ n \in Nat /\ n <= N /\ DOMAIN Program = 1..N
  BY MailboxAssumption, LenProperties DEF Calls
<1>2. \A i \in 1..N : Program[i] \in Calls
  BY <1>1, ElementOfSeq
<1>3. \A i \in (n + 1)..N : i \in 1..N /\ Program[i] \in Calls
  BY <1>1, <1>2
<1>4. \A i \in ((n + 1) + 1)..N : Program[i] \in Calls
  BY <1>1, <1>2
<1>5. /\ s \in Seq(Calls) /\ Len(s) = IF n + 1 <= N THEN N - (n + 1) + 1 ELSE 0
      /\ \A i \in 1..(N - (n + 1) + 1) : s[i] = Program[(n + 1) + i - 1]
  <2>1. n + 1 \in Int /\ N \in Int
    BY <1>1
  <2> HIDE DEF N
  <2> QED
    BY <1>3, <2>1, SubSeqProperties DEF N
<1>6. /\ r \in Seq(Calls) /\ Len(r) = IF (n + 1) + 1 <= N THEN N - ((n + 1) + 1) + 1 ELSE 0
      /\ \A i \in 1..(N - ((n + 1) + 1) + 1) : r[i] = Program[((n + 1) + 1) + i - 1]
  <2>1. (n + 1) + 1 \in Int /\ N \in Int
    BY <1>1
  <2> QED
    BY <1>4, <2>1, SubSeqProperties
<1> HIDE DEF N, r
<1>7. Len(s) # 0 /\ n + 1 <= N
  BY <1>1, <1>5, EmptySeq
<1>8. Len(s) = N - n /\ 1 \in 1..(N - n) /\ \A i \in 1..(N - n) : s[i] = Program[n + i]
  <2>1. N - (n + 1) + 1 = N - n /\ \A i \in 1..(N - n) : (n + 1) + i - 1 = n + i
    BY <1>1
  <2> QED
    BY <1>1, <1>5, <1>7, <2>1
<1>9. Len(r) = N - n - 1 /\ \A i \in 1..(N - n - 1) : r[i] = Program[n + (i + 1)]
  <2>1. /\ N - ((n + 1) + 1) + 1 = N - n - 1
        /\ \A i \in 1..(N - n - 1) : ((n + 1) + 1) + i - 1 = n + (i + 1)
    BY <1>1
  <2>2. CASE (n + 1) + 1 <= N
    BY <1>6, <2>1, <2>2
  <2>3. CASE ~((n + 1) + 1 <= N)
    <3>1. N - n - 1 = 0 /\ Len(r) = 0 /\ 1..0 = {}
      BY <1>1, <1>6, <1>7, <2>3
    <3> QED
      BY <3>1
  <2> QED
    BY <2>2, <2>3
<1>10. Head(s) = Program[n + 1]
  BY <1>5, <1>8
<1>11. Tail(s) = r
  <2>1. /\ Tail(s) \in Seq(Calls) /\ Len(Tail(s)) = N - n - 1
        /\ \A i \in 1..(N - n - 1) : Tail(s)[i] = s[i + 1]
    BY <1>5, <1>8, HeadTailProperties
  <2>2. \A i \in 1..(N - n - 1) : i + 1 \in 1..(N - n)
    BY <1>1
  <2>3. \A i \in 1..Len(Tail(s)) : Tail(s)[i] = r[i]
    BY <1>8, <1>9, <2>1, <2>2
  <2> QED
    BY <1>6, <1>9, <2>1, <2>3, SeqEqual
<1>12. n + 1 \in 1..N /\ n + 1 \in 0..N
  BY <1>1, <1>7
<1> QED
  BY <1>1, <1>10, <1>11, <1>12 DEF N, r

\* Every message fits in its block.
LEMMA CallFacts ==
  ASSUME NEW c \in DOMAIN Program, NEW ts, ts = Program[c].tags
  PROVE  /\ ts \in Seq(Tag)
         /\ \E A : /\ Offsets(ts, A) /\ A[Len(ts)] \in Nat /\ A[Len(ts)] >= 3
                   /\ A[Len(ts)] <= BlockWords
<1>1. ts \in Seq(Tag)
  <2>1. Program \in Seq(Calls) /\ DOMAIN Program = 1..Len(Program)
    BY MailboxAssumption, LenProperties DEF Calls
  <2>2. Program[c] \in Calls
    BY <2>1, ElementOfSeq
  <2> QED
    BY <2>2 DEF Calls
<1>2. PICK A : Offsets(ts, A)
  BY <1>1, OffsetsExist
<1>3. BufSize(ts) \in Nat /\ 4 * A[Len(ts)] <= BufSize(ts)
  BY <1>1, <1>2, BufSizeFacts
<1>4. A[Len(ts)] \in Nat /\ A[Len(ts)] >= 3
  <2>1. Len(ts) \in 0..Len(ts)
    BY <1>1, LenProperties
  <2> QED
    BY <1>1, <1>2, <2>1, OffsetsFacts
<1>5. BufSize(ts) <= 4 * BlockWords /\ BlockWords \in Nat
  BY BlocksSuffice, MailboxAssumption
<1>6. \A a, b, w \in Nat : 4 * a <= b /\ b <= 4 * w => a <= w
  OBVIOUS
<1>7. A[Len(ts)] <= BlockWords
  BY <1>3, <1>4, <1>5, <1>6
<1> QED
  BY <1>1, <1>2, <1>4, <1>7

\* A block in which the message lies gives the GPU what it reads.
LEMMA SentFacts ==
  ASSUME NEW c \in DOMAIN Program, NEW ts, ts = Program[c].tags,
         NEW A, Offsets(ts, A), A[Len(ts)] <= BlockWords,
         NEW buf \in [1..BlockWords -> Nat], Sent(buf, Message(ts))
  PROVE  Holds(buf, ts, A) /\ buf[1] = BufSize(ts) /\ buf[2] = REQUEST
<1> DEFINE L == Len(ts)
<1>1. ts \in Seq(Tag) /\ L \in Nat
  BY CallFacts, LenProperties
<1>2. /\ Len(Message(ts)) = A[L]
      /\ Message(ts)[1] = BufSize(ts) /\ Message(ts)[2] = REQUEST
      /\ Message(ts)[A[L]] = NULL_TAG
      /\ \A n \in 1..L : /\ Message(ts)[A[n - 1]] = ts[n].proptag
                         /\ Message(ts)[A[n - 1] + 1] = 4 * ValueWords(ts[n])
  BY <1>1, MessageFacts
<1>3. \A i \in 1..A[L] : buf[i] = Message(ts)[i]
  BY <1>2 DEF Sent
<1>4. /\ \A n \in 0..L : A[n] \in Nat /\ A[n] >= 3 /\ A[n] <= A[L]
      /\ \A n \in 1..L : ValueWords(ts[n]) \in 0..2 /\ A[n] = A[n - 1] + 3 + ValueWords(ts[n])
  BY <1>1, OffsetsFacts
<1> HIDE DEF L
<1>5. A[L] \in Nat /\ A[L] >= 3
  <2>1. L \in 0..L
    BY <1>1
  <2> QED
    BY <1>4, <2>1
<1>6. 1 \in 1..A[L] /\ 2 \in 1..A[L] /\ A[L] \in 1..A[L]
  BY <1>5
<1>7. ASSUME NEW n \in 1..L PROVE A[n - 1] \in 1..A[L] /\ A[n - 1] + 1 \in 1..A[L]
  <2>1. n - 1 \in 0..L /\ n \in 0..L
    BY <1>1
  <2>2. A[n - 1] \in Nat /\ A[n - 1] >= 3 /\ A[n] \in Nat /\ A[n] <= A[L] /\ ValueWords(ts[n]) \in Nat
    BY <1>4, <2>1
  <2>3. \A a, v, b, z \in Nat : a >= 3 /\ b = a + 3 + v /\ b <= z => a \in 1..z /\ a + 1 \in 1..z
    OBVIOUS
  <2> QED
    BY <1>4, <1>5, <2>2, <2>3
<1>8. \A n \in 1..L : /\ buf[A[n - 1]] = ts[n].proptag
                      /\ buf[A[n - 1] + 1] = 4 * ValueWords(ts[n])
  BY <1>2, <1>3, <1>7
<1>9. buf[1] = BufSize(ts) /\ buf[2] = REQUEST /\ buf[A[L]] = NULL_TAG
  BY <1>2, <1>3, <1>6
<1> QED
  BY <1>1, <1>8, <1>9 DEF Holds, L

\* The copy back changes the values that have an answer, and nothing else.
LEMMA CopyBackFacts ==
  ASSUME NEW ts \in Seq(Tag), NEW A, Offsets(ts, A), A[Len(ts)] <= BlockWords,
         NEW buf \in [1..BlockWords -> Nat]
  PROVE  /\ CopyBack(ts, buf) \in Seq(Tag)
         /\ \A n \in DOMAIN ts : \A k \in 1..2 :
              CopyBack(ts, buf)[n].value[k] =
                IF k <= ValueWords(ts[n]) THEN buf[ValueAt(ts, n) + k - 1] ELSE ts[n].value[k]
<1> DEFINE V(n) == [k \in 1..2 |-> IF k <= ValueWords(ts[n])
                                   THEN buf[ValueAt(ts, n) + k - 1] ELSE ts[n].value[k]]
           t(n) == [ts[n] EXCEPT !.value = V(n)]
<1>1. /\ Len(ts) \in Nat /\ DOMAIN ts = 1..Len(ts) /\ \A n \in 1..Len(ts) : ts[n] \in Tag
      /\ BlockWords \in Nat
  BY MailboxAssumption, LenProperties, ElementOfSeq
<1>2. ASSUME NEW n \in 1..Len(ts), NEW k \in 1..2, k <= ValueWords(ts[n])
      PROVE  buf[ValueAt(ts, n) + k - 1] \in Nat
  <2>1. ValueAt(ts, n) = A[n - 1] + 3 /\ ValueWords(ts[n]) \in 0..2 /\ A[n - 1] \in Nat
        /\ A[Len(ts)] \in Nat
    <3>1. n - 1 \in 0..Len(ts) /\ Len(ts) \in 0..Len(ts)
      BY <1>1
    <3> QED
      BY <3>1, ValueAtFacts, OffsetsFacts
  <2>2. k \in 1..ValueWords(ts[n])
    <3>1. \A v \in 0..2 : \A x \in 1..2 : x <= v => x \in 1..v
      OBVIOUS
    <3> QED
      BY <1>2, <2>1, <3>1
  <2>3. A[n - 1] + 2 + k \in Nat /\ A[n - 1] + 2 + k > 3 /\ A[n - 1] + 2 + k <= A[Len(ts)]
    BY <2>2, ValuesApart
  <2>4. ValueAt(ts, n) + k - 1 = A[n - 1] + 2 + k
    BY <2>1
  <2>5. A[n - 1] + 2 + k \in 1..BlockWords
    <3>1. \A x, y, z \in Nat : x > 3 /\ x <= y /\ y <= z => x \in 1..z
      OBVIOUS
    <3> QED
      BY <1>1, <2>1, <2>3, <3>1
  <2> QED
    BY <2>4, <2>5
<1>3. ASSUME NEW n \in 1..Len(ts) PROVE V(n) \in [1..2 -> Nat]
  <2>1. ts[n].value \in [1..2 -> Nat]
    BY <1>1, TagFacts
  <2> QED
    BY <1>2, <2>1
<1> HIDE DEF V
<1>4. ASSUME NEW n \in 1..Len(ts) PROVE t(n) \in Tag /\ t(n).value = V(n)
  BY <1>1, <1>3 DEF Tag
<1>5. CopyBack(ts, buf) = [n \in 1..Len(ts) |-> t(n)]
  BY <1>1 DEF CopyBack, V
<1> HIDE DEF t
<1>6. CopyBack(ts, buf) \in Seq(Tag)
  BY <1>1, <1>4, <1>5
<1>7. ASSUME NEW n \in 1..Len(ts), NEW k \in 1..2
      PROVE  CopyBack(ts, buf)[n].value[k] =
               IF k <= ValueWords(ts[n]) THEN buf[ValueAt(ts, n) + k - 1] ELSE ts[n].value[k]
  <2>1. CopyBack(ts, buf)[n] = t(n)
    BY <1>5
  <2>2. CopyBack(ts, buf)[n].value = V(n)
    BY <1>4, <2>1
  <2>3. V(n)[k] = IF k <= ValueWords(ts[n])
                  THEN buf[ValueAt(ts, n) + k - 1] ELSE ts[n].value[k]
    BY DEF V
  <2> QED
    BY <2>2, <2>3
<1> QED
  BY <1>1, <1>6, <1>7
-----------------------------------------------------------------------------
(* The invariant: one lemma for each action                                 *)

\* The call that is made is one of the program's, and so are those left.
LEMMA TodoTyped ==
  ASSUME TypeOK, todo # <<>>
  PROVE  /\ \E c \in DOMAIN Program : Head(todo) = Program[c] /\ Head(todo).tags = Program[c].tags
         /\ Head(todo).tags \in Seq(Tag)
         /\ \E n \in 0..Len(Program) : Tail(todo) = SubSeq(Program, n + 1, Len(Program))
<1>1. PICK n \in 0..Len(Program) : todo = SubSeq(Program, n + 1, Len(Program))
  BY DEF TypeOK
<1>2. /\ n + 1 \in DOMAIN Program /\ Head(todo) = Program[n + 1]
      /\ n + 1 \in 0..Len(Program) /\ Tail(todo) = SubSeq(Program, (n + 1) + 1, Len(Program))
  BY <1>1, TodoFacts
<1>3. Program[n + 1].tags \in Seq(Tag)
  BY <1>2, CallFacts
<1> QED
  BY <1>2, <1>3

\* While the kernel is not in the read loop, nothing is on its way.
LEMMA Quiet ==
  ASSUME OneMessage, pc # "read"
  PROVE  toGpu = <<>> /\ gpu.at = "idle" /\ Answers = {}
BY DEF OneMessage

LEMMA InitInv == Init => MailboxInv
<1> SUFFICES ASSUME Init PROVE MailboxInv
  OBVIOUS
<1>1. TypeOK
  <2>1. 0 \in 0..Len(Program) /\ Program = SubSeq(Program, 0 + 1, Len(Program))
    <3>1. Program \in Seq(Calls)
      BY MailboxAssumption DEF Calls
    <3>2. 0 \in 0..Len(Program) /\ 0 + 1 = 1 /\ Len(Program) \in Nat
      BY <3>1, LenProperties
    <3>3. \A i \in 1..Len(Program) : Program[i] \in Calls
      BY <3>1, ElementOfSeq
    <3> DEFINE p == SubSeq(Program, 1, Len(Program))
    <3>4. /\ p \in Seq(Calls) /\ Len(p) = IF 1 <= Len(Program) THEN Len(Program) - 1 + 1 ELSE 0
          /\ \A i \in 1..(Len(Program) - 1 + 1) : p[i] = Program[1 + i - 1]
      <4>1. 1 \in Int /\ Len(Program) \in Int
        BY <3>2
      <4> QED
        BY <3>3, <4>1, SubSeqProperties
    <3> HIDE DEF p
    <3>5. Len(p) = Len(Program) /\ \A i \in 1..Len(p) : p[i] = Program[i]
      BY <3>2, <3>4
    <3>6. p = Program
      BY <3>1, <3>4, <3>5, SeqEqual
    <3> QED
      BY <3>2, <3>6 DEF p
  <2>2. /\ todo = Program /\ toGpu = <<>> /\ toArm = <<>> /\ tags = <<>>
        /\ <<>> \in Seq(Nat) /\ <<>> \in Seq(Tag) /\ Len(<<>>) = 0
    BY DEF Init
  <2>3. 0 \in 0..MaxOther /\ 0 \in 0..MaxFaults /\ Depth \in Nat /\ Stale \in Nat
    BY MailboxAssumption
  <2>4. \E n \in 0..Len(Program) : todo = SubSeq(Program, n + 1, Len(Program))
    BY <2>1, <2>2
  <2>5. Len(toGpu) <= Depth /\ Len(toArm) <= Depth
    BY <2>2, <2>3
  <2> QED
    BY <2>2, <2>3, <2>4, <2>5 DEF Init, TypeOK, Codes
<1>2. Answers = {}
  BY DEF Init, Answers
<1> QED
  BY <1>1, <1>2 DEF Init, MailboxInv, BufferFreed, OneMessage, MessageOK

LEMMA CallInv ==
  ASSUME MailboxInv, Call
  PROVE  MailboxInv'
<1>1. toGpu = <<>> /\ gpu.at = "idle" /\ Answers = {}
  BY Quiet DEF MailboxInv, Call
<1>2. Answers' = {} /\ toGpu' = <<>> /\ gpu'.at = "idle" /\ pc' = "start"
  BY <1>1 DEF Answers, Call, gpuVars
<1>3. TypeOK'
  BY TodoTyped DEF MailboxInv, TypeOK, Call, gpuVars
<1> QED
  BY <1>2, <1>3 DEF MailboxInv, BufferFreed, OneMessage, MessageOK, Call, gpuVars

LEMMA OutOfMemoryInv ==
  ASSUME MailboxInv, OutOfMemory
  PROVE  MailboxInv'
<1>1. toGpu = <<>> /\ gpu.at = "idle" /\ Answers = {}
  BY Quiet DEF MailboxInv, OutOfMemory
<1>2. Answers' = {} /\ toGpu' = <<>> /\ gpu'.at = "idle" /\ pc' = "idle"
  BY <1>1 DEF Answers, OutOfMemory, Return
<1>3. TypeOK'
  <2>1. todo # <<>>
    BY DEF MailboxInv, OneMessage, OutOfMemory
  <2>2. \E n \in 0..Len(Program) : todo' = SubSeq(Program, n + 1, Len(Program))
    BY <2>1, TodoTyped DEF MailboxInv, TypeOK, OutOfMemory, Return
  <2>3. faults' \in 0..MaxFaults
    BY MailboxAssumption DEF MailboxInv, TypeOK, OutOfMemory
  <2>4. result' \in -1..2
    BY DEF OutOfMemory, Return
  <2>5. /\ tags' \in Seq(Tag) /\ msg' \in Blocks \cup {NULL} /\ held' \subseteq Blocks
        /\ mem' \in [Blocks -> [1..BlockWords -> Nat]]
        /\ toGpu' \in Seq(Nat) /\ Len(toGpu') <= Depth
        /\ toArm' \in Seq(Nat) /\ Len(toArm') <= Depth
        /\ gpu' \in [at : {"idle", "busy", "done"}, msg : Blocks \cup {NULL}, code : Codes]
        /\ others' \in 0..MaxOther
    BY DEF MailboxInv, TypeOK, OutOfMemory
  <2> QED
    BY <1>2, <2>2, <2>3, <2>4, <2>5 DEF TypeOK
<1> QED
  BY <1>2, <1>3 DEF MailboxInv, BufferFreed, OneMessage, MessageOK, OutOfMemory

\* What the message is where it lies.
LEMMA SendMessagesMem ==
  ASSUME MailboxInv, SendMessages
  PROVE  \E A : /\ Offsets(tags, A) /\ A[Len(tags)] \in Nat /\ Len(Message(tags)) = A[Len(tags)]
                /\ 4 * A[Len(tags)] <= BufSize(tags) /\ tags \in Seq(Tag)
                /\ msg' \in Blocks /\ held = {} /\ held' = {msg'}
                /\ mem' = [mem EXCEPT ![msg'] = [i \in 1..BlockWords |->
                             IF i <= Len(Message(tags)) THEN Message(tags)[i] ELSE mem[msg'][i]]]
                /\ mem' \in [Blocks -> [1..BlockWords -> Nat]]
                /\ Sent(mem'[msg'], Message(tags)) /\ mem'[msg'][1] = BufSize(tags)
<1>1. todo # <<>> /\ tags = Head(todo).tags
  BY DEF MailboxInv, OneMessage, SendMessages
<1>2. PICK c \in DOMAIN Program : tags = Program[c].tags
  BY <1>1, TodoTyped DEF MailboxInv
<1>3. PICK A : Offsets(tags, A) /\ A[Len(tags)] \in Nat /\ A[Len(tags)] >= 3 /\ A[Len(tags)] <= BlockWords
  BY <1>2, CallFacts
<1>4. tags \in Seq(Tag)
  BY <1>2, CallFacts
<1> DEFINE text == Message(tags)
           K == A[Len(tags)]
<1>5. text \in Seq(Nat) /\ Len(text) = K /\ text[1] = BufSize(tags)
  BY <1>3, <1>4, MessageFacts
<1>6. 4 * K <= BufSize(tags)
  BY <1>3, <1>4, BufSizeFacts
<1> HIDE DEF text, K
<1>7. \A i \in 1..K : text[i] \in Nat
  BY <1>5, ElementOfSeq
<1>8. /\ msg' \in Blocks
      /\ mem' = [mem EXCEPT ![msg'] = [i \in 1..BlockWords |->
                   IF i <= Len(text) THEN text[i] ELSE mem[msg'][i]]]
      /\ held' = held \cup {msg'} /\ mem \in [Blocks -> [1..BlockWords -> Nat]]
  BY DEF SendMessages, MailboxInv, TypeOK, text
<1>9. held = {}
  BY DEF MailboxInv, BufferFreed, SendMessages
<1> DEFINE b == [i \in 1..BlockWords |-> IF i <= Len(text) THEN text[i] ELSE mem[msg'][i]]
<1>10. K \in Nat /\ K >= 3 /\ K <= BlockWords /\ BlockWords \in Nat
  BY <1>3, MailboxAssumption DEF K
<1>11. b \in [1..BlockWords -> Nat]
  <2>1. ASSUME NEW i \in 1..BlockWords PROVE b[i] \in Nat
    <3>1. CASE i <= K
      <4>1. i \in 1..K
        BY <1>10, <3>1
      <4> QED
        BY <1>5, <1>7, <3>1, <4>1
    <3>2. CASE ~(i <= K)
      BY <1>5, <1>8, <3>2
    <3> QED
      BY <3>1, <3>2
  <2>2. b = [i \in 1..BlockWords |-> b[i]]
    OBVIOUS
  <2> HIDE DEF b
  <2> QED
    BY <2>1, <2>2
<1>12. \A i \in 1..K : b[i] = text[i]
  <2>1. \A i \in 1..K : i \in 1..BlockWords /\ i <= K
    BY <1>10
  <2> QED
    BY <1>5, <2>1
<1>13. mem'[msg'] = b /\ mem' \in [Blocks -> [1..BlockWords -> Nat]]
  <2>1. mem' = [mem EXCEPT ![msg'] = b]
    BY <1>8
  <2> HIDE DEF b
  <2> QED
    BY <1>8, <1>11, <2>1
<1> HIDE DEF b
<1>14. 1 \in 1..K
  BY <1>10
<1>15. Sent(mem'[msg'], text) /\ mem'[msg'][1] = BufSize(tags)
  BY <1>5, <1>12, <1>13, <1>14 DEF Sent
<1>16. held' = {msg'}
  BY <1>8, <1>9
<1> QED
  BY <1>3, <1>4, <1>5, <1>6, <1>8, <1>9, <1>13, <1>15, <1>16 DEF text, K

LEMMA SendMessagesInv ==
  ASSUME MailboxInv, SendMessages
  PROVE  MailboxInv'
<1>1. toGpu = <<>> /\ gpu.at = "idle" /\ Answers = {}
  BY Quiet DEF MailboxInv, SendMessages
<1>2. Answers' = {} /\ toGpu' = <<>> /\ gpu'.at = "idle" /\ pc' = "send"
  BY <1>1 DEF Answers, SendMessages, gpuVars
<1>3. /\ msg' \in Blocks /\ held' = {msg'} /\ tags' = tags
      /\ mem' \in [Blocks -> [1..BlockWords -> Nat]] /\ Sent(mem'[msg'], Message(tags))
  BY SendMessagesMem DEF SendMessages, callVars
<1>4. TypeOK'
  <2>1. msg' \in Blocks \cup {NULL} /\ held' \subseteq Blocks
    BY <1>3
  <2> QED
    BY <1>2, <1>3, <2>1 DEF MailboxInv, TypeOK, SendMessages, callVars, gpuVars
<1>5. BufferFreed'
  BY <1>2, <1>3 DEF BufferFreed
<1>6. OneMessage'
  BY <1>2, <1>3 DEF MailboxInv, OneMessage, SendMessages, callVars
<1>7. MessageOK'
  BY <1>2, <1>3 DEF MessageOK
<1> QED
  BY <1>4, <1>5, <1>6, <1>7 DEF MailboxInv
LEMMA MailboxSendInv ==
  ASSUME MailboxInv, MailboxSend
  PROVE  MailboxInv'
<1>1. toGpu = <<>> /\ gpu.at = "idle" /\ Answers = {} /\ pc = "send" /\ msg \in Blocks
  BY Quiet DEF MailboxInv, OneMessage, MailboxSend
<1>2. msg \in Nat /\ msg + PROPERTY_CHANNEL \in Nat
  BY <1>1, MailboxAssumption DEF PROPERTY_CHANNEL
<1>3. /\ toGpu' = <<msg + PROPERTY_CHANNEL>> /\ pc' = "read" /\ gpu'.at = "idle" /\ Answers' = {}
      /\ msg' = msg /\ mem' = mem /\ tags' = tags
  BY <1>1 DEF MailboxSend, Answers, callVars, gpuVars
<1>4. TypeOK'
  <2>1. toGpu' \in Seq(Nat) /\ Len(toGpu') = 1
    BY <1>2, <1>3
  <2>2. 1 <= Depth
    BY MailboxAssumption
  <2> QED
    BY <2>1, <2>2 DEF MailboxInv, TypeOK, MailboxSend, callVars, gpuVars
<1>5. BufferFreed'
  BY DEF MailboxInv, BufferFreed, MailboxSend
<1>6. OneMessage'
  BY <1>1, <1>3 DEF MailboxInv, OneMessage, MailboxSend, callVars, gpuVars
<1>7. MessageOK'
  BY <1>1, <1>3 DEF MailboxInv, MessageOK
<1> QED
  BY <1>4, <1>5, <1>6, <1>7 DEF MailboxInv

LEMMA MailboxReadInv ==
  ASSUME MailboxInv, MailboxRead
  PROVE  MailboxInv'
<1>1. /\ toArm \in Seq(Nat) /\ toArm # <<>> /\ Len(toArm) <= Depth /\ Depth \in Nat
  BY MailboxAssumption DEF MailboxInv, TypeOK, MailboxRead
<1>2. /\ toArm' \in Seq(Nat) /\ Len(toArm') = Len(toArm) - 1 /\ Len(toArm) \in Nat
      /\ \A i \in 1..Len(toArm') : toArm'[i] = toArm[i + 1]
      /\ DOMAIN toArm = 1..Len(toArm) /\ DOMAIN toArm' = 1..Len(toArm')
      /\ Head(toArm) = toArm[1] /\ Len(toArm) # 0
  <2>1. toArm' = Tail(toArm)
    BY DEF MailboxRead
  <2> QED
    BY <1>1, <2>1, HeadTailProperties, LenProperties, EmptySeq
<1>3. \A i \in Answers' : i \in Nat /\ i + 1 \in Answers /\ i + 1 # 1
  <2> TAKE i \in Answers'
  <2>1. i \in 1..Len(toArm') /\ toArm'[i] % 16 = PROPERTY_CHANNEL
    BY <1>2 DEF Answers
  <2>2. i + 1 \in 1..Len(toArm) /\ i + 1 # 1 /\ i \in Nat
    BY <1>2, <2>1
  <2> QED
    BY <1>2, <2>1, <2>2 DEF Answers
<1>4. Head(toArm) % 16 = PROPERTY_CHANNEL => 1 \in Answers
  BY <1>2 DEF Answers
<1>5. /\ pc = "read" /\ pc' \in {"read", "reply"} /\ (pc' = "reply" <=> Head(toArm) % 16 = PROPERTY_CHANNEL)
      /\ msg' = msg /\ mem' = mem /\ tags' = tags /\ toGpu' = toGpu /\ gpu' = gpu /\ todo' = todo
      /\ held' = held
  BY DEF MailboxRead, callVars, gpuVars
<1>6. pc' = "reply" => Answers' = {} /\ Answers # {} /\ toGpu' = <<>> /\ gpu'.at = "idle"
  BY <1>3, <1>4, <1>5 DEF MailboxInv, OneMessage
<1>7. Answers' # {} => Answers # {}
  BY <1>3
<1>8. TypeOK'
  <2>1. Len(toArm') <= Depth
    BY <1>1, <1>2
  <2> QED
    BY <1>2, <1>5, <2>1 DEF MailboxInv, TypeOK, MailboxRead, callVars, gpuVars
<1>9. BufferFreed'
  BY <1>5 DEF MailboxInv, BufferFreed
<1>10. OneMessage'
  <2>1. ASSUME NEW i \in Answers', NEW j \in Answers' PROVE pc' = "read" /\ i = j
    <3>1. i + 1 = j + 1
      BY <1>3 DEF MailboxInv, OneMessage
    <3>2. i = j
      BY <1>3, <3>1
    <3> QED
      BY <1>5, <1>6, <3>2
  <2> QED
    BY <1>5, <1>6, <1>7, <2>1 DEF MailboxInv, OneMessage
<1>11. MessageOK'
  BY <1>5, <1>6, <1>7 DEF MailboxInv, MessageOK
<1> QED
  BY <1>8, <1>9, <1>10, <1>11 DEF MailboxInv

\* What the caller gets.
LEMMA ReplyFacts ==
  ASSUME MailboxInv, Reply
  PROVE  /\ msg \in Blocks /\ tags' \in Seq(Tag)
         /\ mem[msg][2] = gpu.code /\ gpu.code \in Codes
         /\ gpu.code = RESPONSE_SUCCESS =>
              /\ DOMAIN tags \subseteq Nat
              /\ \A n \in DOMAIN tags : \A k \in 1..2 :
                tags'[n].value[k] = IF k <= ValueWords(tags[n])
                                    THEN Answer(tags[n].proptag, n, k) ELSE tags[n].value[k]
         /\ gpu.code # RESPONSE_SUCCESS => tags' = tags
<1>1. /\ msg \in Blocks /\ todo # <<>> /\ tags = Head(todo).tags
      /\ mem[msg] \in [1..BlockWords -> Nat] /\ gpu.code \in Codes /\ tags \in Seq(Tag)
  BY DEF MailboxInv, TypeOK, OneMessage, Reply
<1>2. mem[msg][2] = gpu.code
  BY DEF MailboxInv, MessageOK, Reply
<1>3. PICK c \in DOMAIN Program : tags = Program[c].tags
  BY <1>1, TodoTyped DEF MailboxInv
<1>4. PICK A : Offsets(tags, A) /\ A[Len(tags)] <= BlockWords
  BY <1>3, CallFacts
<1> DEFINE t == CopyBack(tags, mem[msg])
<1>5. /\ t \in Seq(Tag)
      /\ \A n \in DOMAIN tags : \A k \in 1..2 :
           t[n].value[k] = IF k <= ValueWords(tags[n])
                           THEN mem[msg][ValueAt(tags, n) + k - 1] ELSE tags[n].value[k]
  BY <1>1, <1>4, CopyBackFacts
<1>6. tags' = IF gpu.code = RESPONSE_SUCCESS THEN t ELSE tags
  BY <1>2 DEF Reply
<1> HIDE DEF t
<1>7. ASSUME gpu.code = RESPONSE_SUCCESS, NEW n \in DOMAIN tags, NEW k \in 1..2
      PROVE  tags'[n].value[k] = IF k <= ValueWords(tags[n])
                                 THEN Answer(tags[n].proptag, n, k) ELSE tags[n].value[k]
  <2>1. CASE k <= ValueWords(tags[n])
    <3>1. k \in 1..ValueWords(tags[n])
      <4>1. tags[n] \in Tag
        BY <1>1, ElementOfSeq, LenProperties
      <4>2. ValueWords(tags[n]) \in 0..2
        BY <4>1, TagFacts
      <4>3. \A v \in 0..2 : \A x \in 1..2 : x <= v => x \in 1..v
        OBVIOUS
      <4> QED
        BY <2>1, <4>2, <4>3
    <3>2. mem[msg][ValueAt(tags, n) + k - 1] = Answer(tags[n].proptag, n, k)
      BY <1>7, <3>1 DEF MailboxInv, MessageOK, Reply
    <3> QED
      BY <1>5, <1>6, <1>7, <2>1, <3>2
  <2>2. CASE ~(k <= ValueWords(tags[n]))
    BY <1>5, <1>6, <1>7, <2>2
  <2> QED
    BY <2>1, <2>2
<1>8. DOMAIN tags \subseteq Nat
  BY <1>1, LenProperties
<1> QED
  BY <1>1, <1>2, <1>5, <1>6, <1>7, <1>8

LEMMA ReplyInv ==
  ASSUME MailboxInv, Reply
  PROVE  MailboxInv'
<1>1. toGpu = <<>> /\ gpu.at = "idle" /\ Answers = {} /\ todo # <<>>
  BY Quiet DEF MailboxInv, OneMessage, Reply
<1>2. Answers' = {} /\ toGpu' = <<>> /\ gpu'.at = "idle" /\ pc' = "idle"
  BY <1>1 DEF Answers, Reply, Return, gpuVars
<1>3. held' = {}
  BY DEF MailboxInv, BufferFreed, Reply
<1>4. TypeOK'
  <2>1. \E n \in 0..Len(Program) : todo' = SubSeq(Program, n + 1, Len(Program))
    BY <1>1, TodoTyped DEF MailboxInv, TypeOK, Reply, Return
  <2>2. result' \in -1..2
    <3>1. result' \in {1, 2, 0}
      BY ReplyFacts DEF Reply, Return, Codes
    <3> QED
      BY <3>1
  <2>3. tags' \in Seq(Tag)
    BY ReplyFacts
  <2>4. /\ msg' \in Blocks \cup {NULL} /\ held' \subseteq Blocks
        /\ mem' \in [Blocks -> [1..BlockWords -> Nat]]
        /\ toGpu' \in Seq(Nat) /\ Len(toGpu') <= Depth
        /\ toArm' \in Seq(Nat) /\ Len(toArm') <= Depth
        /\ gpu' \in [at : {"idle", "busy", "done"}, msg : Blocks \cup {NULL}, code : Codes]
        /\ others' \in 0..MaxOther /\ faults' \in 0..MaxFaults
    BY <1>3 DEF MailboxInv, TypeOK, Reply, gpuVars
  <2> QED
    BY <1>2, <2>1, <2>2, <2>3, <2>4 DEF TypeOK
<1> QED
  BY <1>2, <1>3, <1>4 DEF MailboxInv, BufferFreed, OneMessage, MessageOK

LEMMA GpuTakeInv ==
  ASSUME MailboxInv, GpuTake
  PROVE  MailboxInv'
<1>1. /\ pc = "read" /\ msg \in Blocks /\ toGpu = <<msg + PROPERTY_CHANNEL>> /\ Answers = {}
      /\ Sent(mem[msg], Message(tags)) /\ gpu.at = "idle"
  BY DEF MailboxInv, OneMessage, MessageOK, GpuTake
<1>2. msg \in Nat /\ msg % 16 = 0
  BY <1>1, MailboxAssumption
<1>3. Head(toGpu) = msg + PROPERTY_CHANNEL /\ Tail(toGpu) = <<>>
  BY <1>1
<1>4. Head(toGpu) % 16 = PROPERTY_CHANNEL /\ Head(toGpu) - PROPERTY_CHANNEL = msg
  <2>1. \A x \in Nat : x % 16 = 0 => (x + 8) % 16 = 8 /\ (x + 8) - 8 = x
    OBVIOUS
  <2> QED
    BY <1>2, <1>3, <2>1 DEF PROPERTY_CHANNEL
<1>5. /\ toGpu' = <<>> /\ gpu' = [at |-> "busy", msg |-> msg, code |-> REQUEST]
      /\ Answers' = {} /\ pc' = "read" /\ msg' = msg /\ mem' = mem /\ tags' = tags /\ todo' = todo
      /\ held' = held
  BY <1>1, <1>3, <1>4 DEF GpuTake, Answers, callVars
<1>6. TypeOK'
  <2>1. toGpu' \in Seq(Nat) /\ Len(toGpu') <= Depth
    BY <1>5, MailboxAssumption
  <2>2. gpu' \in [at : {"idle", "busy", "done"}, msg : Blocks \cup {NULL}, code : Codes]
    BY <1>1, <1>5 DEF Codes
  <2> QED
    BY <2>1, <2>2 DEF MailboxInv, TypeOK, GpuTake, callVars
<1>7. BufferFreed'
  BY <1>1, <1>5 DEF MailboxInv, BufferFreed
<1>8. OneMessage'
  BY <1>1, <1>5 DEF MailboxInv, OneMessage
<1>9. MessageOK'
  BY <1>1, <1>5 DEF MessageOK
<1> QED
  BY <1>6, <1>7, <1>8, <1>9 DEF MailboxInv
\* An answer goes to the message that the kernel waits for, within its size.
LEMMA GpuAnswerMem ==
  ASSUME MailboxInv, NEW code \in Codes, GpuAnswer(code)
  PROVE  /\ pc = "read" /\ msg \in Blocks /\ gpu.msg = msg /\ toGpu = <<>> /\ Answers = {}
         /\ mem' \in [Blocks -> [1..BlockWords -> Nat]] /\ mem'[msg][2] = code
         /\ \A m \in Blocks : m # msg => mem'[m] = mem[m]
         /\ \A i \in 1..BlockWords : mem'[msg][i] # mem[msg][i] => 4 * i <= mem'[msg][1]
         /\ code = RESPONSE_SUCCESS =>
              \A n \in DOMAIN tags : \A k \in 1..ValueWords(tags[n]) :
                mem'[msg][ValueAt(tags, n) + k - 1] = Answer(tags[n].proptag, n, k)
<1>1. /\ pc = "read" /\ msg \in Blocks /\ gpu.msg = msg /\ toGpu = <<>> /\ Answers = {}
      /\ Sent(mem[msg], Message(tags)) /\ todo # <<>> /\ tags = Head(todo).tags
      /\ mem \in [Blocks -> [1..BlockWords -> Nat]] /\ gpu.at = "busy"
  BY DEF MailboxInv, TypeOK, OneMessage, MessageOK, GpuAnswer
<1>2. PICK c \in DOMAIN Program : tags = Program[c].tags
  BY <1>1, TodoTyped DEF MailboxInv
<1>3. PICK A : Offsets(tags, A) /\ A[Len(tags)] \in Nat /\ A[Len(tags)] >= 3 /\ A[Len(tags)] <= BlockWords
  BY <1>2, CallFacts
<1> DEFINE buf == mem[msg]
<1>4. tags \in Seq(Tag) /\ buf \in [1..BlockWords -> Nat] /\ BlockWords \in Nat
  BY <1>1, <1>2, CallFacts, MailboxAssumption
<1>5. Holds(buf, tags, A) /\ buf[1] = BufSize(tags) /\ buf[2] = REQUEST
  BY <1>1, <1>2, <1>3, <1>4, SentFacts
<1>6. BufSize(tags) \in Nat /\ 4 * A[Len(tags)] <= BufSize(tags)
  BY <1>3, <1>4, BufSizeFacts
<1>7. mem' = IF code = REQUEST THEN mem ELSE [mem EXCEPT ![msg] = Answered(buf, code)]
  BY <1>1 DEF GpuAnswer
<1>8. CASE code = REQUEST
  <2>1. mem' = mem /\ code # RESPONSE_SUCCESS
    BY <1>7, <1>8 DEF REQUEST, RESPONSE_SUCCESS
  <2> QED
    BY <1>1, <1>5, <1>8, <2>1
<1>9. CASE code # REQUEST
  <2> DEFINE w == Answered(buf, code)
  <2>1. /\ w \in [1..BlockWords -> Nat] /\ w[2] = code
        /\ \A n \in 1..Len(tags) : \A k \in 1..ValueWords(tags[n]) :
             w[A[n - 1] + 2 + k] = Answer(tags[n].proptag, n, k)
        /\ \A i \in 1..BlockWords : w[i] # buf[i] => i # 1 /\ i <= A[Len(tags)]
    BY <1>5, AnsweredFacts
  <2>2. mem' = [mem EXCEPT ![msg] = w]
    BY <1>7, <1>9
  <2> HIDE DEF w, buf
  <2>3. /\ mem'[msg] = w /\ mem' \in [Blocks -> [1..BlockWords -> Nat]]
        /\ \A m \in Blocks : m # msg => mem'[m] = mem[m]
    BY <1>1, <2>1, <2>2
  <2>4. w[1] = BufSize(tags)
    <3>1. 1 \in 1..BlockWords
      BY <1>3, <1>4
    <3> QED
      BY <1>5, <2>1, <3>1
  <2>5. ASSUME NEW i \in 1..BlockWords, w[i] # buf[i] PROVE 4 * i <= w[1]
    <3>1. i \in Nat /\ i <= A[Len(tags)]
      BY <1>4, <2>1, <2>5
    <3>2. \A x, y, z \in Nat : x <= y /\ 4 * y <= z => 4 * x <= z
      OBVIOUS
    <3> QED
      BY <1>3, <1>6, <2>4, <3>1, <3>2
  <2>6. ASSUME NEW n \in DOMAIN tags, NEW k \in 1..ValueWords(tags[n])
        PROVE  w[ValueAt(tags, n) + k - 1] = Answer(tags[n].proptag, n, k)
    <3>1. n \in 1..Len(tags)
      BY <1>4, LenProperties
    <3>2. ValueAt(tags, n) = A[n - 1] + 3
      BY <1>3, <1>4, <3>1, ValueAtFacts
    <3>3. A[n - 1] \in Nat
      <4>1. n - 1 \in 0..Len(tags)
        BY <1>4, <3>1, LenProperties
      <4> QED
        BY <1>3, <1>4, <4>1, OffsetsFacts
    <3>4. k \in Nat
      <4>1. tags[n] \in Tag
        BY <1>4, <3>1, ElementOfSeq
      <4>2. ValueWords(tags[n]) \in 0..2
        BY <4>1, TagFacts
      <4> QED
        BY <4>2
    <3>5. ValueAt(tags, n) + k - 1 = A[n - 1] + 2 + k
      BY <3>2, <3>3, <3>4
    <3> QED
      BY <2>1, <3>1, <3>5
  <2> QED
    BY <1>1, <2>1, <2>3, <2>5, <2>6 DEF buf
<1> QED
  BY <1>8, <1>9

LEMMA GpuAnswerInv ==
  ASSUME MailboxInv, NEW code \in Codes, GpuAnswer(code)
  PROVE  MailboxInv'
<1>1. /\ pc = "read" /\ msg \in Blocks /\ gpu.msg = msg /\ toGpu = <<>> /\ Answers = {}
      /\ mem' \in [Blocks -> [1..BlockWords -> Nat]] /\ mem'[msg][2] = code
      /\ code = RESPONSE_SUCCESS =>
           \A n \in DOMAIN tags : \A k \in 1..ValueWords(tags[n]) :
             mem'[msg][ValueAt(tags, n) + k - 1] = Answer(tags[n].proptag, n, k)
  BY GpuAnswerMem
<1>2. /\ gpu' = [gpu EXCEPT !.at = "done", !.code = code]
      /\ pc' = pc /\ msg' = msg /\ toGpu' = toGpu /\ toArm' = toArm /\ tags' = tags
      /\ todo' = todo /\ result' = result /\ held' = held /\ others' = others
      /\ gpu \in [at : {"idle", "busy", "done"}, msg : Blocks \cup {NULL}, code : Codes]
  BY DEF GpuAnswer, callVars, MailboxInv, TypeOK
<1>3. gpu'.at = "done" /\ gpu'.msg = msg /\ gpu'.code = code
      /\ gpu' \in [at : {"idle", "busy", "done"}, msg : Blocks \cup {NULL}, code : Codes]
  BY <1>1, <1>2
<1>4. Answers' = {}
  BY <1>1, <1>2 DEF Answers
<1>5. TypeOK'
  <2>1. faults' \in 0..MaxFaults
    BY MailboxAssumption DEF MailboxInv, TypeOK, GpuAnswer
  <2> QED
    BY <1>1, <1>2, <1>3, <2>1 DEF MailboxInv, TypeOK
<1>6. BufferFreed'
  BY <1>1, <1>2 DEF MailboxInv, BufferFreed
<1>7. OneMessage'
  BY <1>1, <1>2, <1>3, <1>4 DEF MailboxInv, OneMessage
<1>8. MessageOK'
  BY <1>1, <1>2, <1>3, <1>4 DEF MessageOK
<1> QED
  BY <1>5, <1>6, <1>7, <1>8 DEF MailboxInv

\* What a mail appended to the FIFO to the CPU adds to the answers in it.
LEMMA AppendAnswer ==
  ASSUME TypeOK, NEW mail \in Nat, toArm' = Append(toArm, mail)
  PROVE  /\ toArm' \in Seq(Nat) /\ Len(toArm') = Len(toArm) + 1
         /\ Answers' = Answers \cup {i \in {Len(toArm')} : mail % 16 = PROPERTY_CHANNEL}
<1>1. /\ toArm \in Seq(Nat) /\ toArm' \in Seq(Nat) /\ Len(toArm') = Len(toArm) + 1
      /\ \A i \in 1..Len(toArm) : toArm'[i] = toArm[i]
      /\ toArm'[Len(toArm) + 1] = mail
  BY AppendProperties DEF TypeOK
<1>2. DOMAIN toArm = 1..Len(toArm) /\ DOMAIN toArm' = 1..Len(toArm') /\ Len(toArm) \in Nat
  BY <1>1, LenProperties
<1>3. 1..(Len(toArm) + 1) = 1..Len(toArm) \cup {Len(toArm) + 1}
  BY <1>2
<1>4. Answers = {i \in 1..Len(toArm) : toArm[i] % 16 = PROPERTY_CHANNEL}
  BY <1>2 DEF Answers
<1>5. Answers' = {i \in 1..(Len(toArm) + 1) : toArm'[i] % 16 = PROPERTY_CHANNEL}
  BY <1>1, <1>2 DEF Answers
<1> QED
  BY <1>1, <1>3, <1>4, <1>5

LEMMA GpuPostInv ==
  ASSUME MailboxInv, GpuPost
  PROVE  MailboxInv'
<1>1. /\ pc = "read" /\ msg \in Blocks /\ gpu.msg = msg /\ toGpu = <<>> /\ Answers = {}
      /\ gpu.at = "done"
  BY DEF MailboxInv, OneMessage, GpuPost
<1>2. msg + PROPERTY_CHANNEL \in Nat
  BY <1>1, MailboxAssumption DEF PROPERTY_CHANNEL
<1>3. /\ toArm' = Append(toArm, msg + PROPERTY_CHANNEL) /\ gpu' = [gpu EXCEPT !.at = "idle"]
      /\ pc' = pc /\ msg' = msg /\ mem' = mem /\ tags' = tags /\ toGpu' = toGpu /\ todo' = todo
      /\ held' = held
      /\ gpu \in [at : {"idle", "busy", "done"}, msg : Blocks \cup {NULL}, code : Codes]
  BY <1>1 DEF GpuPost, callVars, MailboxInv, TypeOK
<1>4. /\ gpu'.at = "idle" /\ gpu'.code = gpu.code
      /\ gpu' \in [at : {"idle", "busy", "done"}, msg : Blocks \cup {NULL}, code : Codes]
  BY <1>3
<1>5. /\ toArm' \in Seq(Nat) /\ Len(toArm') = Len(toArm) + 1
      /\ \A i, j \in Answers' : i = j
  <2>1. /\ toArm' \in Seq(Nat) /\ Len(toArm') = Len(toArm) + 1
        /\ Answers' \subseteq Answers \cup {Len(toArm')}
    BY <1>2, <1>3, AppendAnswer DEF MailboxInv
  <2> QED
    BY <1>1, <2>1
<1>6. TypeOK'
  <2>1. Len(toArm') <= Depth
    <3>1. Len(toArm) \in Nat /\ Depth \in Nat /\ Len(toArm) < Depth
      BY MailboxAssumption, LenProperties DEF MailboxInv, TypeOK, GpuPost
    <3> QED
      BY <1>5, <3>1
  <2> QED
    BY <1>4, <1>5, <2>1 DEF MailboxInv, TypeOK, GpuPost, callVars
<1>7. BufferFreed'
  BY <1>1, <1>3 DEF MailboxInv, BufferFreed
<1>8. OneMessage'
  BY <1>1, <1>3, <1>4, <1>5 DEF MailboxInv, OneMessage
<1>9. MessageOK'
  BY <1>1, <1>3, <1>4 DEF MailboxInv, MessageOK
<1> QED
  BY <1>6, <1>7, <1>8, <1>9 DEF MailboxInv

LEMMA GpuOtherInv ==
  ASSUME MailboxInv, GpuOther
  PROVE  MailboxInv'
<1>1. PICK mail \in OtherMail : toArm' = Append(toArm, mail)
  BY DEF GpuOther
<1>2. mail \in Nat /\ mail % 16 # PROPERTY_CHANNEL
  BY MailboxAssumption
<1>3. toArm' \in Seq(Nat) /\ Len(toArm') = Len(toArm) + 1 /\ Answers' = Answers
  BY <1>1, <1>2, AppendAnswer DEF MailboxInv
<1>4. /\ pc' = pc /\ msg' = msg /\ mem' = mem /\ tags' = tags /\ toGpu' = toGpu /\ todo' = todo
      /\ held' = held /\ gpu' = gpu
  BY DEF GpuOther, callVars
<1>5. TypeOK'
  <2>1. Len(toArm') <= Depth
    <3>1. Len(toArm) \in Nat /\ Depth \in Nat /\ Len(toArm) < Depth
      BY MailboxAssumption, LenProperties DEF MailboxInv, TypeOK, GpuOther
    <3> QED
      BY <1>3, <3>1
  <2>2. others' \in 0..MaxOther
    BY MailboxAssumption DEF MailboxInv, TypeOK, GpuOther
  <2> QED
    BY <1>3, <2>1, <2>2 DEF MailboxInv, TypeOK, GpuOther, callVars
<1> QED
  BY <1>3, <1>4, <1>5 DEF MailboxInv, BufferFreed, OneMessage, MessageOK

LEMMA StutterInv ==
  ASSUME MailboxInv, UNCHANGED vars
  PROVE  MailboxInv'
<1>1. Answers' = Answers
  BY DEF vars, Answers
<1> QED
  BY <1>1 DEF vars, callVars, gpuVars, MailboxInv, TypeOK, BufferFreed, OneMessage, MessageOK

-----------------------------------------------------------------------------
\* The invariant of the mailbox (mailbox.c:64-126): at most one message is on its
\* way, in memory as it was sent until the GPU answers it, each answer then where the
\* copy back reads it, and the buffer held for as long.
THEOREM MailboxInvHolds == Spec => []MailboxInv
<1>1. Init => MailboxInv
  BY InitInv
<1>2. MailboxInv /\ [Next]_vars => MailboxInv'
  <2> SUFFICES ASSUME MailboxInv, [Next]_vars PROVE MailboxInv'
    OBVIOUS
  <2>1. CASE Call
    BY <2>1, CallInv
  <2>2. CASE OutOfMemory
    BY <2>2, OutOfMemoryInv
  <2>3. CASE SendMessages
    BY <2>3, SendMessagesInv
  <2>4. CASE MailboxSend
    BY <2>4, MailboxSendInv
  <2>5. CASE MailboxRead
    BY <2>5, MailboxReadInv
  <2>6. CASE Reply
    BY <2>6, ReplyInv
  <2>7. CASE GpuTake
    BY <2>7, GpuTakeInv
  <2>8. CASE \E code \in Codes : GpuAnswer(code)
    BY <2>8, GpuAnswerInv
  <2>9. CASE GpuPost
    BY <2>9, GpuPostInv
  <2>10. CASE GpuOther
    BY <2>10, GpuOtherInv
  <2>11. CASE UNCHANGED vars
    BY <2>11, StutterInv
  <2> QED
    BY <2>1, <2>2, <2>3, <2>4, <2>5, <2>6, <2>7, <2>8, <2>9, <2>10, <2>11
    DEF Next, Kernel, Gpu
<1> QED
  BY <1>1, <1>2, PTL DEF Spec

\* send_messages has its buffer while a message is out and at no other time: it
\* gives it back on every way out (mailbox.c:99-124).
THEOREM BufferFreedHolds == Spec => []BufferFreed
<1>1. MailboxInv => BufferFreed
  BY DEF MailboxInv
<1> QED
  BY <1>1, MailboxInvHolds, PTL

\* For every array of tags, nothing is written outside the block that is held,
\* nor past the size in the first word of the message (mailbox.c:64-97).
THEOREM WritesInBufferHolds == Spec => WritesInBuffer
<1> DEFINE A == \A m \in Blocks : \A i \in 1..BlockWords :
                  mem'[m][i] # mem[m][i] => m \in held' /\ 4 * i <= mem'[m][1]
<1>1. MailboxInv /\ [Next]_vars => [A]_vars
  <2> SUFFICES ASSUME MailboxInv, Next PROVE A
    OBVIOUS
  <2>1. CASE SendMessages
    <3>1. PICK B : /\ Offsets(tags, B) /\ B[Len(tags)] \in Nat /\ Len(Message(tags)) = B[Len(tags)]
                   /\ 4 * B[Len(tags)] <= BufSize(tags) /\ tags \in Seq(Tag)
                   /\ msg' \in Blocks /\ held = {} /\ held' = {msg'}
                   /\ mem' = [mem EXCEPT ![msg'] = [i \in 1..BlockWords |->
                                IF i <= Len(Message(tags)) THEN Message(tags)[i] ELSE mem[msg'][i]]]
                   /\ mem'[msg'][1] = BufSize(tags)
      BY <2>1, SendMessagesMem
    <3>2. mem \in [Blocks -> [1..BlockWords -> Nat]]
      BY DEF MailboxInv, TypeOK
    <3>3. ASSUME NEW m \in Blocks, NEW i \in 1..BlockWords, mem'[m][i] # mem[m][i]
          PROVE  m \in held' /\ 4 * i <= mem'[m][1]
      <4>1. m = msg'
        BY <3>1, <3>2, <3>3
      <4>2. i <= Len(Message(tags))
        BY <3>1, <3>2, <3>3, <4>1
      <4>3. BufSize(tags) \in Nat /\ i \in Nat
        BY <3>1, BufSizeFacts, MailboxAssumption
      <4>4. \A x, y, z \in Nat : x <= y /\ 4 * y <= z => 4 * x <= z
        OBVIOUS
      <4>5. 4 * i <= BufSize(tags)
        BY <3>1, <4>2, <4>3, <4>4
      <4> QED
        BY <3>1, <4>1, <4>5
    <3> QED
      BY <3>3
  <2>2. CASE \E code \in Codes : GpuAnswer(code)
    <3>1. PICK code \in Codes : GpuAnswer(code)
      BY <2>2
    <3>2. /\ pc = "read" /\ \A m \in Blocks : m # msg => mem'[m] = mem[m]
          /\ \A i \in 1..BlockWords : mem'[msg][i] # mem[msg][i] => 4 * i <= mem'[msg][1]
      BY <3>1, GpuAnswerMem
    <3>3. held' = {msg}
      BY <3>1, <3>2 DEF MailboxInv, BufferFreed, GpuAnswer
    <3> QED
      BY <3>2, <3>3
  <2>3. CASE ~SendMessages /\ ~(\E code \in Codes : GpuAnswer(code))
    <3>1. mem' = mem
      BY <2>3 DEF Next, Kernel, Gpu, Call, OutOfMemory, MailboxSend, MailboxRead, Reply, GpuTake,
                  GpuPost, GpuOther
    <3> QED
      BY <3>1
  <2> QED
    BY <2>1, <2>2, <2>3
<1>2. Spec => [][A]_vars
  BY <1>1, MailboxInvHolds, PTL DEF Spec
<1> QED
  BY <1>2 DEF WritesInBuffer

\* For every array of tags, send_messages returns 0 exactly when the GPU has
\* answered this request, with each value the answer to its own tag (mailbox.c:99-124).
THEOREM AnswersInPlaceHolds == Spec => AnswersInPlace
<1> DEFINE ok == pc = "reply" /\ gpu.code = RESPONSE_SUCCESS
           A == pc # "idle" /\ pc' = "idle" =>
                  LET ok1 == pc = "reply" /\ gpu.code = RESPONSE_SUCCESS
                  IN  /\ result' = 0 <=> ok1
                      /\ \A n \in DOMAIN tags : \A k \in 1..2 :
                           tags'[n].value[k] =
                             IF ok1 /\ k <= ValueWords(tags[n])
                             THEN Answer(tags[n].proptag, n, k) ELSE tags[n].value[k]
<1>1. MailboxInv /\ [Next]_vars => [A]_vars
  <2> SUFFICES ASSUME MailboxInv, Next, pc # "idle", pc' = "idle" PROVE A
    OBVIOUS
  <2>1. OutOfMemory \/ Reply
    BY DEF Next, Kernel, Gpu, Call, SendMessages, MailboxSend, MailboxRead, GpuTake,
           GpuAnswer, GpuPost, GpuOther
  <2>2. CASE OutOfMemory
    <3>1. result' = -1 /\ tags' = tags /\ ~ok
      BY <2>2 DEF OutOfMemory, Return
    <3>2. result' # 0
      BY <3>1
    <3> QED
      BY <3>1, <3>2
  <2>3. CASE Reply
    <3>1. pc = "reply" /\ mem[msg][2] = gpu.code /\ gpu.code \in Codes
      BY <2>3, ReplyFacts DEF Reply
    <3>2. result' = 0 <=> ok
      BY <2>3, <3>1 DEF Reply, Return, Codes, REQUEST, RESPONSE_ERROR, RESPONSE_SUCCESS
    <3>3. ASSUME NEW n \in DOMAIN tags, NEW k \in 1..2
          PROVE  tags'[n].value[k] = IF ok /\ k <= ValueWords(tags[n])
                                     THEN Answer(tags[n].proptag, n, k) ELSE tags[n].value[k]
      BY <2>3, <3>1, ReplyFacts
    <3> QED
      BY <3>2, <3>3
  <2> QED
    BY <2>1, <2>2, <2>3
<1>2. Spec => [][A]_vars
  BY <1>1, MailboxInvHolds, PTL DEF Spec
<1> QED
  BY <1>2 DEF AnswersInPlace

=============================================================================
