-------------------------- MODULE SerialBootProofs --------------------------
(***************************************************************************)
(* Proofs about loading the kernel, for any image that fits into memory,   *)
(* any size of chunk and any number of faults of the line: SerialInv is an *)
(* invariant of SerialBoot, and the check sum catches a single error.      *)
(***************************************************************************)
EXTENDS SerialBoot, TLAPS, SequenceTheorems, FiniteSetTheorems

-----------------------------------------------------------------------------
(* Bytes and the check sum                                                  *)

\* A byte is its three bits.
LEMMA BitFacts ==
  ASSUME NEW x \in Byte
  PROVE  /\ Bit(x, 4) \in {0, 1} /\ Bit(x, 2) \in {0, 1} /\ Bit(x, 1) \in {0, 1}
         /\ x = 4 * Bit(x, 4) + 2 * Bit(x, 2) + Bit(x, 1)
BY DEF Byte, Bit

\* x ^ y is a byte, bit by bit.
LEMMA XorFacts ==
  ASSUME NEW x \in Byte, NEW y \in Byte
  PROVE  /\ Xor(x, y) \in Byte
         /\ Bit(Xor(x, y), 4) = (Bit(x, 4) + Bit(y, 4)) % 2
         /\ Bit(Xor(x, y), 2) = (Bit(x, 2) + Bit(y, 2)) % 2
         /\ Bit(Xor(x, y), 1) = (Bit(x, 1) + Bit(y, 1)) % 2
<1> DEFINE a == (Bit(x, 4) + Bit(y, 4)) % 2
           b == (Bit(x, 2) + Bit(y, 2)) % 2
           c == (Bit(x, 1) + Bit(y, 1)) % 2
<1>1. a \in {0, 1} /\ b \in {0, 1} /\ c \in {0, 1}
  BY BitFacts
<1>2. Xor(x, y) = 4 * a + 2 * b + 1 * c
  BY DEF Xor
<1> HIDE DEF a, b, c
<1>3. Xor(x, y) \in Byte /\ Bit(Xor(x, y), 4) = a /\ Bit(Xor(x, y), 2) = b /\ Bit(Xor(x, y), 1) = c
  BY <1>1, <1>2 DEF Byte, Bit
<1> QED
  BY <1>3 DEF a, b, c

\* x ^ y tells y from every other byte, and x too.
LEMMA XorCancels ==
  ASSUME NEW x \in Byte, NEW y \in Byte, NEW z \in Byte
  PROVE  /\ Xor(x, y) = Xor(x, z) => y = z
         /\ Xor(y, x) = Xor(z, x) => y = z
<1>1. \A i, j, k \in {0, 1} : (i + j) % 2 = (i + k) % 2 \/ (j + i) % 2 = (k + i) % 2 => j = k
  OBVIOUS
<1>2. ASSUME Xor(x, y) = Xor(x, z) \/ Xor(y, x) = Xor(z, x) PROVE y = z
  <2>1. Bit(y, 4) = Bit(z, 4)
    BY <1>1, <1>2, XorFacts, BitFacts
  <2>2. Bit(y, 2) = Bit(z, 2)
    BY <1>1, <1>2, XorFacts, BitFacts
  <2>3. Bit(y, 1) = Bit(z, 1)
    BY <1>1, <1>2, XorFacts, BitFacts
  <2>4. /\ y = 4 * Bit(y, 4) + 2 * Bit(y, 2) + Bit(y, 1)
        /\ z = 4 * Bit(z, 4) + 2 * Bit(z, 2) + Bit(z, 1)
    BY BitFacts
  <2> QED
    BY <2>1, <2>2, <2>3, <2>4
<1> QED
  BY <1>2

\* Two packets with a valid check sum do not differ in one byte only.
LEMMA OneByteOff ==
  ASSUME NEW f, NEW g, \A i \in 1..4 : f[i].val \in Byte /\ g[i] \in Byte,
         f[4].val = Xor(Xor(f[1].val, f[2].val), f[3].val), g[4] = Xor(Xor(g[1], g[2]), g[3]),
         NEW d \in 1..4, \A i \in 1..4 : f[i].val # g[i] <=> i = d
  PROVE  FALSE
<1>1. /\ f[1].val \in Byte /\ f[2].val \in Byte /\ f[3].val \in Byte /\ f[4].val \in Byte
      /\ g[1] \in Byte /\ g[2] \in Byte /\ g[3] \in Byte /\ g[4] \in Byte
  OBVIOUS
<1>2. Xor(f[1].val, f[2].val) \in Byte /\ Xor(g[1], g[2]) \in Byte
  BY <1>1, XorFacts
<1>3. CASE d = 1
  <2>1. f[1].val # g[1] /\ f[2].val = g[2] /\ f[3].val = g[3] /\ f[4].val = g[4]
    BY <1>3
  <2>2. Xor(f[1].val, f[2].val) = Xor(g[1], g[2])
    BY <1>1, <1>2, <2>1, XorCancels
  <2> QED
    BY <1>1, <2>1, <2>2, XorCancels
<1>4. CASE d = 2
  <2>1. f[1].val = g[1] /\ f[2].val # g[2] /\ f[3].val = g[3] /\ f[4].val = g[4]
    BY <1>4
  <2>2. Xor(f[1].val, f[2].val) = Xor(g[1], g[2])
    BY <1>1, <1>2, <2>1, XorCancels
  <2> QED
    BY <1>1, <2>1, <2>2, XorCancels
<1>5. CASE d = 3
  <2>1. f[1].val = g[1] /\ f[2].val = g[2] /\ f[3].val # g[3] /\ f[4].val = g[4]
    BY <1>5
  <2> QED
    BY <1>1, <1>2, <2>1, XorCancels
<1>6. CASE d = 4
  <2>1. f[1].val = g[1] /\ f[2].val = g[2] /\ f[3].val = g[3] /\ f[4].val # g[4]
    BY <1>6
  <2> QED
    BY <2>1
<1> QED
  BY <1>3, <1>4, <1>5, <1>6

-----------------------------------------------------------------------------
(* Sequences and packets                                                    *)

\* A byte arrives at the end of a line or of a packet.
LEMMA AppendFacts ==
  ASSUME NEW S, NEW s \in Seq(S), NEW x \in S
  PROVE  /\ Append(s, x) \in Seq(S) /\ Len(Append(s, x)) = Len(s) + 1
         /\ DOMAIN Append(s, x) = 1..(Len(s) + 1)
         /\ \A i \in 1..Len(s) : Append(s, x)[i] = s[i]
         /\ Append(s, x)[Len(s) + 1] = x
<1>1. Len(s) \in Nat
  BY LenProperties
<1> QED
  BY <1>1, LenProperties

\* The first byte of a line is taken.
LEMMA TakeFacts ==
  ASSUME NEW S, NEW s \in Seq(S), s # <<>>
  PROVE  /\ Head(s) = s[1] /\ Head(s) \in S /\ Len(s) \in Nat \ {0}
         /\ Tail(s) \in Seq(S) /\ Len(Tail(s)) = Len(s) - 1
         /\ DOMAIN Tail(s) = 1..(Len(s) - 1)
         /\ \A i \in 1..(Len(s) - 1) : Tail(s)[i] = s[i + 1]
<1>1. Len(s) \in Nat \ {0}
  BY EmptySeq
<1> QED
  BY <1>1, HeadTailProperties, LenProperties

\* A packet is four bytes, the last one the check sum of the others.
LEMMA PacketFacts ==
  ASSUME NEW type \in Byte, NEW addr \in Byte, NEW data \in Byte
  PROVE  /\ Packet(type, addr, data) \in Seq(Byte) /\ Len(Packet(type, addr, data)) = 4
         /\ Packet(type, addr, data)[1] = type /\ Packet(type, addr, data)[2] = addr
         /\ Packet(type, addr, data)[3] = data
         /\ Packet(type, addr, data)[4] = Xor(Xor(type, addr), data)
<1>1. Xor(Xor(type, addr), data) \in Byte
  BY XorFacts
<1> QED
  BY <1>1 DEF Packet

\* The ranges of the variables.
LEMMA TypeFacts ==
  ASSUME TypeOK
  PROVE  /\ Len(Image) \in Nat /\ pos \in Nat /\ pos <= Len(Image) /\ left \in Nat /\ numw \in Nat
         /\ out \in Seq(Byte) /\ Len(out) \in Nat /\ DOMAIN out = 1..Len(out)
         /\ up \in Seq(WireByte) /\ Len(up) \in Nat /\ DOMAIN up = 1..Len(up)
         /\ packet \in Seq(WireByte) /\ Len(packet) \in 0..3 /\ DOMAIN packet = 1..Len(packet)
         /\ InFlight \in Nat /\ stored \in Nat
         /\ Arrived \in Nat /\ Arrived = Len(packet) + Len(up) /\ InFlight = Arrived + Len(out)
         /\ down \in Seq(Byte \cup {Banner})
         /\ out = <<>> <=> Len(out) = 0
         /\ up = <<>> <=> Len(up) = 0
         /\ packet = <<>> <=> Len(packet) = 0
         /\ FF \in Byte /\ WRITE \in Byte /\ JUMP \in Byte /\ READ \in Byte /\ Read88 \in Byte
<1>1. Len(Image) \in Nat
  BY SerialAssumption, LenProperties
<1>2. out \in Seq(Byte) /\ up \in Seq(WireByte) /\ packet \in Seq(WireByte) /\ Len(packet) < 4
  BY DEF TypeOK
<1>3. /\ Len(out) \in Nat /\ DOMAIN out = 1..Len(out)
      /\ Len(up) \in Nat /\ DOMAIN up = 1..Len(up)
      /\ Len(packet) \in Nat /\ DOMAIN packet = 1..Len(packet)
  BY <1>2, LenProperties
<1>4. /\ out = <<>> <=> Len(out) = 0
      /\ up = <<>> <=> Len(up) = 0
      /\ packet = <<>> <=> Len(packet) = 0
  BY <1>2, EmptySeq
<1>5. FF \in Byte /\ WRITE \in Byte /\ JUMP \in Byte /\ READ \in Byte /\ Read88 \in Byte
  BY DEF FF, WRITE, JUMP, READ, Read88, Byte
<1>6. /\ Arrived \in Nat /\ Arrived = Len(packet) + Len(up) /\ InFlight = Arrived + Len(out)
      /\ InFlight \in Nat /\ Len(packet) \in 0..3
  BY <1>2, <1>3 DEF InFlight, Arrived
<1>7. /\ pos \in Nat /\ pos <= Len(Image) /\ left \in Nat /\ numw \in Nat /\ stored \in Nat
      /\ down \in Seq(Byte \cup {Banner})
  BY <1>1, SerialAssumption DEF TypeOK
<1> QED
  BY <1>1, <1>2, <1>3, <1>4, <1>5, <1>6, <1>7

\* The addresses and the words of the image are bytes.
LEMMA ImageFacts ==
  ASSUME NEW k \in 1..Len(Image)
  PROVE  Image[k] \in Byte /\ LoadAddr + k - 1 \in Byte
BY SerialAssumption, ElementOfSeq, LenProperties DEF Byte

\* The packet that is being sent is four bytes with a check sum.
LEMMA CurrentFacts ==
  ASSUME TypeOK, PlaceOK
  PROVE  /\ CurrentPacket \in Seq(Byte) /\ Len(CurrentPacket) = 4
         /\ CurrentPacket[4] = Xor(Xor(CurrentPacket[1], CurrentPacket[2]), CurrentPacket[3])
         /\ \A i \in 1..4 : CurrentPacket[i] \in Byte
         /\ host \in {"send", "wait"} =>
              /\ pos + 1 \in 1..Len(Image)
              /\ CurrentPacket[1] = WRITE /\ CurrentPacket[2] = LoadAddr + pos
              /\ CurrentPacket[3] = Image[pos + 1]
         /\ host \notin {"send", "wait"} =>
              CurrentPacket[1] = JUMP /\ CurrentPacket[2] = LoadAddr /\ CurrentPacket[3] = FF
<1>1. ASSUME host \in {"send", "wait"}
      PROVE  /\ pos + 1 \in 1..Len(Image) /\ WRITE \in Byte
             /\ LoadAddr + pos \in Byte /\ Image[pos + 1] \in Byte
  <2>1. pos + 1 \in 1..Len(Image)
    BY <1>1, TypeFacts DEF PlaceOK
  <2>2. Image[pos + 1] \in Byte /\ LoadAddr + (pos + 1) - 1 \in Byte
    BY <2>1, ImageFacts
  <2>3. LoadAddr + (pos + 1) - 1 = LoadAddr + pos
    BY TypeFacts, SerialAssumption DEF Byte
  <2> QED
    BY <2>1, <2>2, <2>3, TypeFacts
<1>2. JUMP \in Byte /\ LoadAddr \in Byte /\ FF \in Byte
  BY TypeFacts, SerialAssumption
<1>3. \E t, a, d \in Byte :
        /\ CurrentPacket = Packet(t, a, d)
        /\ host \in {"send", "wait"} => t = WRITE /\ a = LoadAddr + pos /\ d = Image[pos + 1]
        /\ host \notin {"send", "wait"} => t = JUMP /\ a = LoadAddr /\ d = FF
  BY <1>1, <1>2 DEF CurrentPacket
<1>4. PICK t, a, d \in Byte :
        /\ CurrentPacket = Packet(t, a, d)
        /\ host \in {"send", "wait"} => t = WRITE /\ a = LoadAddr + pos /\ d = Image[pos + 1]
        /\ host \notin {"send", "wait"} => t = JUMP /\ a = LoadAddr /\ d = FF
  BY <1>3
<1>5. /\ Len(CurrentPacket) = 4 /\ CurrentPacket[1] = t /\ CurrentPacket[2] = a
      /\ CurrentPacket[3] = d /\ CurrentPacket[4] = Xor(Xor(t, a), d)
      /\ CurrentPacket \in Seq(Byte)
  BY <1>4, PacketFacts
<1>6. \A i \in 1..4 : CurrentPacket[i] \in Byte
  BY <1>5, ElementOfSeq
<1> QED
  BY <1>1, <1>4, <1>5, <1>6

-----------------------------------------------------------------------------
(* Chunks of the image                                                      *)

\* A number has one quotient and one remainder.
LEMMA DivUnique ==
  ASSUME NEW c \in Nat \ {0}, NEW q \in Nat, NEW d \in Nat,
         NEW r \in 0..(c - 1), NEW s \in 0..(c - 1), c * q + r = c * d + s
  PROVE  q = d /\ r = s
<1>1. \A k \in Nat \ {0} : c * k >= c
  OBVIOUS
<1>2. CASE q > d
  <2>1. c * (q - d) >= c /\ c * q - c * d = c * (q - d)
    BY <1>1, <1>2
  <2> QED
    BY <1>2, <2>1
<1>3. CASE q < d
  <2>1. c * (d - q) >= c /\ c * d - c * q = c * (d - q)
    BY <1>1, <1>3
  <2> QED
    BY <1>3, <2>1
<1>4. CASE q = d
  BY <1>4
<1> QED
  BY <1>2, <1>3, <1>4

\* Chunks begin at the multiples of c.
LEMMA ChunkStart ==
  ASSUME NEW c \in Nat \ {0}, NEW n \in Nat, n % c = 0
  PROVE  /\ (n + c) % c = 0
         /\ \A r \in 0..(c - 1) : c * ((n + r) \div c) = n
<1>1. \A m \in Nat : m = c * (m \div c) + (m % c) /\ m % c \in 0..(c - 1) /\ m \div c \in Nat
  OBVIOUS
<1>2. n = c * (n \div c) /\ n \div c \in Nat
  BY <1>1
<1>3. (n + c) % c = 0
  <2>1. n + c = c * ((n \div c) + 1) + 0
    BY <1>2
  <2>2. n + c \in Nat /\ (n \div c) + 1 \in Nat /\ 0 \in 0..(c - 1)
    BY <1>2
  <2>3. /\ n + c = c * ((n + c) \div c) + ((n + c) % c)
        /\ (n + c) % c \in 0..(c - 1) /\ (n + c) \div c \in Nat
    BY <1>1, <2>2
  <2> QED
    BY <2>1, <2>2, <2>3, DivUnique
<1>4. ASSUME NEW r \in 0..(c - 1) PROVE c * ((n + r) \div c) = n
  <2>1. n + r \in Nat /\ n + r = c * (n \div c) + r
    BY <1>2
  <2>2. /\ n + r = c * ((n + r) \div c) + ((n + r) % c)
        /\ (n + r) % c \in 0..(c - 1) /\ (n + r) \div c \in Nat
    BY <1>1, <2>1
  <2>3. (n + r) \div c = n \div c
    BY <1>2, <2>1, <2>2, DivUnique
  <2> QED
    BY <1>2, <2>3
<1> QED
  BY <1>3, <1>4

\* The end of the chunk that begins at n.
LEMMA MinFacts ==
  ASSUME NEW a \in Int, NEW b \in Int
  PROVE  Min({a, b}) = IF a <= b THEN a ELSE b
<1>1. \E x \in {a, b} : \A y \in {a, b} : x <= y
  OBVIOUS
<1>2. Min({a, b}) \in {a, b} /\ \A y \in {a, b} : Min({a, b}) <= y
  BY <1>1 DEF Min
<1> QED
  BY <1>2

\* f.read(128) reads up to the next multiple, or to the end of the file.
LEMMA ChunkFacts ==
  ASSUME TypeOK, pos % ChunkWords = 0 \/ pos = Len(Image)
  PROVE  /\ Chunk = <<>> <=> pos = Len(Image)
         /\ Chunk # <<>> =>
              /\ Len(Chunk) \in 1..ChunkWords /\ pos + Len(Chunk) <= Len(Image)
              /\ \/ (pos + Len(Chunk)) % ChunkWords = 0
                 \/ pos + Len(Chunk) = Len(Image)
              /\ \A k \in (pos + 1)..(pos + Len(Chunk)) : Sent(k) <=> ~AllZeros(Chunk)
<1> DEFINE end == Min({Len(Image), pos + ChunkWords})
<1>1. /\ Len(Image) \in Nat /\ pos \in Nat /\ pos <= Len(Image) /\ ChunkWords \in Nat \ {0}
      /\ end = IF Len(Image) <= pos + ChunkWords THEN Len(Image) ELSE pos + ChunkWords
  <2>1. Len(Image) \in Nat /\ pos \in Nat /\ pos <= Len(Image)
    BY TypeFacts
  <2>2. ChunkWords \in Nat \ {0}
    BY SerialAssumption
  <2>3. Len(Image) \in Int /\ pos + ChunkWords \in Int
    BY <2>1, <2>2
  <2>4. end = IF Len(Image) <= pos + ChunkWords THEN Len(Image) ELSE pos + ChunkWords
    BY <2>3, MinFacts
  <2> QED
    BY <2>1, <2>2, <2>4
<1>2. Chunk = SubSeq(Image, pos + 1, end)
  BY DEF Chunk
<1> HIDE DEF end
<1>3. /\ Chunk \in Seq(Byte)
      /\ Len(Chunk) = IF pos + 1 <= end THEN end - (pos + 1) + 1 ELSE 0
  <2>1. \A i \in (pos + 1)..end : Image[i] \in Byte
    BY <1>1, ImageFacts
  <2>2. pos + 1 \in Int /\ end \in Int
    BY <1>1
  <2>3. Image \in Seq(Byte)
    BY SerialAssumption
  <2>4. pos + 1 >= 1 /\ end <= Len(Image)
    BY <1>1
  <2> QED
    BY <2>1, <2>2, <2>3, <2>4, <1>2, SubSeqProperties
<1>4. Chunk = <<>> <=> Len(Chunk) = 0
  BY <1>3, EmptySeq
<1>5. /\ Chunk = <<>> <=> pos = Len(Image)
      /\ Chunk # <<>> =>
           /\ Len(Chunk) \in 1..ChunkWords /\ pos + Len(Chunk) = end
           /\ pos % ChunkWords = 0
  <2>1. pos + 1 <= end <=> pos < Len(Image)
    BY <1>1
  <2>2. end - (pos + 1) + 1 = end - pos
    BY <1>1
  <2>3. CASE pos = Len(Image)
    BY <1>1, <1>3, <1>4, <2>1, <2>3
  <2>4. CASE pos < Len(Image)
    <3>1. Len(Chunk) = end - pos
      BY <1>3, <2>1, <2>2, <2>4
    <3>2. end - pos \in 1..ChunkWords /\ pos + (end - pos) = end
      BY <1>1, <2>4
    <3>3. pos # Len(Image)
      BY <1>1, <2>4
    <3> QED
      BY <3>1, <3>2, <3>3, <1>4
  <2> QED
    BY <1>1, <2>3, <2>4
<1>6. ASSUME Chunk # <<>>
      PROVE  /\ pos + Len(Chunk) <= Len(Image)
             /\ (pos + Len(Chunk)) % ChunkWords = 0 \/ pos + Len(Chunk) = Len(Image)
  BY <1>1, <1>5, <1>6, ChunkStart
<1>7. ASSUME Chunk # <<>>, NEW k \in (pos + 1)..(pos + Len(Chunk))
      PROVE  Sent(k) <=> ~AllZeros(Chunk)
  <2>1. k - 1 - pos \in 0..(ChunkWords - 1) /\ pos + (k - 1 - pos) = k - 1
    BY <1>1, <1>5, <1>7
  <2>2. ChunkWords * ((k - 1) \div ChunkWords) = pos
    BY <1>1, <1>5, <1>7, <2>1, ChunkStart
  <2> QED
    BY <2>2 DEF Sent, Chunk
<1> QED
  BY <1>5, <1>6, <1>7

\* Words that are not sent leave RAM as it was; one that is sent goes to its address.
LEMMA LoadedFacts ==
  ASSUME NEW r \in [Byte -> Byte], NEW n \in 0..Len(Image)
  PROVE  /\ Loaded(r, n) \in [Byte -> Byte]
         /\ \A m \in n..Len(Image) :
              (\A k \in (n + 1)..m : ~Sent(k)) => Loaded(r, m) = Loaded(r, n)
         /\ n < Len(Image) /\ Sent(n + 1) =>
              Loaded(r, n + 1) = [Loaded(r, n) EXCEPT ![LoadAddr + n] = Image[n + 1]]
<1>1. LoadAddr \in Nat /\ Len(Image) \in Nat /\ n \in Nat
  BY SerialAssumption, LenProperties DEF Byte
<1>2. ASSUME NEW m \in 0..Len(Image) PROVE Loaded(r, m) \in [Byte -> Byte]
  <2>1. ASSUME NEW a \in Byte, NEW k \in 1..m, a = LoadAddr + k - 1
        PROVE  Image[a - LoadAddr + 1] \in Byte
    <3>1. a - LoadAddr + 1 = k /\ k \in 1..Len(Image)
      BY <1>1, <2>1
    <3> QED
      BY <3>1, ImageFacts
  <2> QED
    BY <2>1 DEF Loaded
<1>3. ASSUME NEW m \in n..Len(Image), \A k \in (n + 1)..m : ~Sent(k)
      PROVE  Loaded(r, m) = Loaded(r, n)
  <2>1. ASSUME NEW a \in Byte
        PROVE  (\E k \in 1..m : Sent(k) /\ a = LoadAddr + k - 1)
               <=> (\E k \in 1..n : Sent(k) /\ a = LoadAddr + k - 1)
    <3>1. \A k \in 1..m : k \in 1..n \/ k \in (n + 1)..m
      BY <1>1
    <3>2. \A k \in 1..n : k \in 1..m
      BY <1>1
    <3> QED
      BY <1>3, <3>1, <3>2
  <2> QED
    BY <2>1 DEF Loaded
<1>4. ASSUME n < Len(Image), Sent(n + 1)
      PROVE  Loaded(r, n + 1) = [Loaded(r, n) EXCEPT ![LoadAddr + n] = Image[n + 1]]
  <2>1. \A k \in 1..(n + 1) : k \in 1..n \/ k = n + 1
    BY <1>1
  <2>2. n + 1 \in 1..(n + 1) /\ \A k \in 1..n : k \in 1..(n + 1)
    BY <1>1
  <2>3. LoadAddr + (n + 1) - 1 = LoadAddr + n /\ (LoadAddr + n) - LoadAddr + 1 = n + 1
    BY <1>1
  <2>4. ASSUME NEW a \in Byte
        PROVE  (\E k \in 1..(n + 1) : Sent(k) /\ a = LoadAddr + k - 1)
               <=> a = LoadAddr + n \/ (\E k \in 1..n : Sent(k) /\ a = LoadAddr + k - 1)
    BY <1>4, <2>1, <2>2, <2>3
  <2>5. ASSUME NEW a \in Byte
        PROVE  Loaded(r, n + 1)[a] = IF a = LoadAddr + n THEN Image[n + 1] ELSE Loaded(r, n)[a]
    BY <2>3, <2>4 DEF Loaded
  <2>6. Loaded(r, n) \in [Byte -> Byte] /\ Loaded(r, n + 1) \in [Byte -> Byte]
    BY <1>1, <1>2, <1>4
  <2> QED
    BY <2>5, <2>6
<1> QED
  BY <1>2, <1>3, <1>4

-----------------------------------------------------------------------------
(* The bytes under way                                                      *)

\* Nothing moves.
LEMMA StillFacts ==
  ASSUME UNCHANGED <<packet, up, out>>
  PROVE  /\ InFlight' = InFlight /\ Arrived' = Arrived
         /\ \A i : Wire(i)' = Wire(i)
         /\ WholePackets' <=> WholePackets
         /\ errors' = errors => (OneChanged' <=> OneChanged)
BY DEF InFlight, Arrived, Wire, Arriving, WholePackets, CheckSummed, OneChanged, Changed

\* Bytes that keep their order are still whole packets.
LEMMA KeptFacts ==
  ASSUME InFlight \in Nat, InFlight' = InFlight, \A i \in 1..InFlight : Wire(i)' = Wire(i),
         WholePackets
  PROVE  WholePackets'
<1>1. PICK n \in 0..InFlight :
        InFlight = 4 * n /\ \A m \in 0..(n - 1) : CheckSummed(4 * m)
  BY DEF WholePackets
<1>2. ASSUME NEW m \in 0..(n - 1) PROVE CheckSummed(4 * m)'
  <2>1. /\ 4 * m + 1 \in 1..InFlight /\ 4 * m + 2 \in 1..InFlight
        /\ 4 * m + 3 \in 1..InFlight /\ 4 * m + 4 \in 1..InFlight
    BY <1>1
  <2> QED
    BY <1>1, <2>1 DEF CheckSummed
<1> QED
  BY <1>1, <1>2 DEF WholePackets

\* A byte goes on the line.
LEMMA SendFacts ==
  ASSUME TypeOK, out # <<>>, NEW w \in WireByte, w.sent = Head(out),
         up' = Append(up, w), out' = Tail(out), packet' = packet
  PROVE  /\ up' \in Seq(WireByte) /\ out' \in Seq(Byte)
         /\ InFlight' = InFlight /\ Arrived' = Arrived + 1
         /\ \A i \in 1..InFlight : Wire(i)' = Wire(i)
         /\ \A i \in 1..Arrived : Arriving(i)' = Arriving(i)
         /\ \A i : i = Arrived + 1 => Arriving(i)' = w
<1>1. /\ Len(up) \in Nat /\ Len(packet) \in Nat /\ up \in Seq(WireByte) /\ out \in Seq(Byte)
      /\ Arrived = Len(packet) + Len(up) /\ InFlight = Arrived + Len(out)
  BY TypeFacts
<1>2. /\ up' \in Seq(WireByte) /\ Len(up') = Len(up) + 1
      /\ \A i \in 1..Len(up) : up'[i] = up[i]
      /\ up'[Len(up) + 1] = w
  BY <1>1, AppendFacts
<1>3. /\ Head(out) = out[1] /\ Len(out) \in Nat \ {0}
      /\ out' \in Seq(Byte) /\ Len(out') = Len(out) - 1
      /\ \A i \in 1..(Len(out) - 1) : out'[i] = out[i + 1]
  BY <1>1, TakeFacts
<1>4. InFlight' = InFlight /\ Arrived' = Arrived + 1
  BY <1>1, <1>2, <1>3 DEF InFlight, Arrived
<1>5. ASSUME NEW i \in 1..Arrived PROVE Arriving(i)' = Arriving(i)
  <2>1. i <= Len(packet) \/ i - Len(packet) \in 1..Len(up)
    BY <1>1
  <2> QED
    BY <1>2, <2>1 DEF Arriving
<1>6. ASSUME NEW i, i = Arrived + 1 PROVE Arriving(i)' = w
  <2>1. ~(i <= Len(packet)) /\ i - Len(packet) = Len(up) + 1
    BY <1>1, <1>6
  <2> QED
    BY <1>2, <2>1 DEF Arriving
<1>7. ASSUME NEW i \in 1..InFlight PROVE Wire(i)' = Wire(i)
  <2>1. CASE i \in 1..Arrived
    <3>1. i <= Arrived /\ i <= Arrived + 1
      BY <1>1, <2>1
    <3> QED
      BY <1>4, <1>5, <2>1, <3>1 DEF Wire
  <2>2. CASE i = Arrived + 1
    <3>1. ~(i <= Arrived) /\ i <= Arrived + 1 /\ i - Arrived = 1
      BY <1>1, <2>2
    <3>2. Arriving(i)' = w
      BY <1>6, <2>2
    <3> QED
      BY <1>3, <1>4, <3>1, <3>2 DEF Wire
  <2>3. CASE i > Arrived + 1
    <3>1. /\ ~(i <= Arrived) /\ ~(i <= Arrived + 1)
          /\ i - (Arrived + 1) \in 1..(Len(out) - 1) /\ (i - (Arrived + 1)) + 1 = i - Arrived
      BY <1>1, <1>3, <2>3
    <3>2. out'[i - (Arrived + 1)] = out[i - Arrived]
      BY <1>3, <3>1
    <3> QED
      BY <1>4, <3>1, <3>2 DEF Wire
  <2> QED
    BY <1>1, <2>1, <2>2, <2>3
<1> QED
  BY <1>2, <1>3, <1>4, <1>5, <1>6, <1>7

\* The board takes a byte from the line.
LEMMA GetcFacts ==
  ASSUME TypeOK, up # <<>>, packet' = Append(packet, Head(up)), up' = Tail(up), out' = out
  PROVE  /\ up' \in Seq(WireByte) /\ packet' \in Seq(WireByte) /\ Len(packet') = Len(packet) + 1
         /\ InFlight' = InFlight /\ Arrived' = Arrived
         /\ \A i \in 1..Arrived : Arriving(i)' = Arriving(i)
         /\ \A i \in 1..InFlight : Wire(i)' = Wire(i)
<1>1. /\ Len(packet) \in Nat /\ up \in Seq(WireByte) /\ packet \in Seq(WireByte)
      /\ Arrived = Len(packet) + Len(up) /\ InFlight = Arrived + Len(out) /\ Len(out) \in Nat
  BY TypeFacts
<1>2. /\ Head(up) = up[1] /\ Head(up) \in WireByte /\ Len(up) \in Nat \ {0}
      /\ up' \in Seq(WireByte) /\ Len(up') = Len(up) - 1
      /\ \A i \in 1..(Len(up) - 1) : up'[i] = up[i + 1]
  BY <1>1, TakeFacts
<1>3. /\ packet' \in Seq(WireByte) /\ Len(packet') = Len(packet) + 1
      /\ \A i \in 1..Len(packet) : packet'[i] = packet[i]
      /\ packet'[Len(packet) + 1] = Head(up)
  BY <1>1, <1>2, AppendFacts
<1>4. InFlight' = InFlight /\ Arrived' = Arrived
  BY <1>1, <1>2, <1>3 DEF InFlight, Arrived
<1>5. ASSUME NEW i \in 1..Arrived PROVE Arriving(i)' = Arriving(i)
  <2>1. CASE i \in 1..Len(packet)
    <3>1. i <= Len(packet) /\ i <= Len(packet) + 1
      BY <1>1, <2>1
    <3> QED
      BY <1>3, <2>1, <3>1 DEF Arriving
  <2>2. CASE i = Len(packet) + 1
    <3>1. ~(i <= Len(packet)) /\ i <= Len(packet) + 1 /\ i - Len(packet) = 1
      BY <1>1, <2>2
    <3> QED
      BY <1>2, <1>3, <2>2, <3>1 DEF Arriving
  <2>3. CASE i > Len(packet) + 1
    <3>1. /\ ~(i <= Len(packet)) /\ ~(i <= Len(packet) + 1)
          /\ i - (Len(packet) + 1) \in 1..(Len(up) - 1)
          /\ (i - (Len(packet) + 1)) + 1 = i - Len(packet)
      BY <1>1, <1>2, <2>3
    <3>2. up'[i - (Len(packet) + 1)] = up[i - Len(packet)]
      BY <1>2, <3>1
    <3> QED
      BY <1>3, <3>1, <3>2 DEF Arriving
  <2> QED
    BY <1>1, <2>1, <2>2, <2>3
<1>6. ASSUME NEW i \in 1..InFlight PROVE Wire(i)' = Wire(i)
  <2>1. CASE i <= Arrived
    BY <1>1, <1>4, <1>5, <2>1 DEF Wire
  <2>2. CASE ~(i <= Arrived)
    BY <1>4, <2>2 DEF Wire
  <2> QED
    BY <2>1, <2>2
<1> QED
  BY <1>2, <1>3, <1>4, <1>5, <1>6

\* The board has dealt with a packet: the bytes behind it move up by four.
LEMMA HandledFacts ==
  ASSUME TypeOK, Complete, Handled, out' = out
  PROVE  /\ packet' = <<>> /\ up' \in Seq(WireByte)
         /\ Arrived - 4 \in Nat /\ Arrived' = Arrived - 4 /\ InFlight' = InFlight - 4
         /\ \A i \in 1..(Arrived - 4) : Arriving(i)' = Arriving(i + 4)
         /\ \A i \in 1..(InFlight - 4) : Wire(i)' = Wire(i + 4)
<1>1. /\ Len(packet) = 3 /\ up # <<>> /\ up \in Seq(WireByte) /\ Len(out) \in Nat
      /\ Arrived = Len(packet) + Len(up) /\ InFlight = Arrived + Len(out)
      /\ packet' = <<>> /\ up' = Tail(up)
  BY TypeFacts DEF Complete, Handled
<1>2. /\ Len(up) \in Nat \ {0} /\ up' \in Seq(WireByte) /\ Len(up') = Len(up) - 1
      /\ \A i \in 1..(Len(up) - 1) : up'[i] = up[i + 1]
  BY <1>1, TakeFacts
<1>3. Len(packet') = 0
  BY <1>1
<1>4. Arrived - 4 \in Nat /\ Arrived' = Arrived - 4 /\ InFlight' = InFlight - 4
  BY <1>1, <1>2, <1>3 DEF Arrived, InFlight
<1>5. ASSUME NEW i \in 1..(Arrived - 4) PROVE Arriving(i)' = Arriving(i + 4)
  <2>1. /\ ~(i <= 0) /\ ~(i + 4 <= Len(packet)) /\ i \in 1..(Len(up) - 1)
        /\ i - 0 = i /\ (i + 4) - Len(packet) = i + 1
    BY <1>1, <1>2
  <2> QED
    BY <1>2, <1>3, <2>1 DEF Arriving
<1>6. ASSUME NEW i \in 1..(InFlight - 4) PROVE Wire(i)' = Wire(i + 4)
  <2>1. CASE i <= Arrived - 4
    <3>1. i \in 1..(Arrived - 4) /\ i + 4 <= Arrived
      BY <1>1, <1>4, <2>1
    <3> QED
      BY <1>4, <1>5, <2>1, <3>1 DEF Wire
  <2>2. CASE ~(i <= Arrived - 4)
    <3>1. ~(i + 4 <= Arrived) /\ i - (Arrived - 4) = (i + 4) - Arrived
      BY <1>1, <1>4, <2>2
    <3> QED
      BY <1>4, <2>2, <3>1 DEF Wire
  <2> QED
    BY <2>1, <2>2
<1> QED
  BY <1>1, <1>2, <1>4, <1>5, <1>6

-----------------------------------------------------------------------------
(* The steps of the loader                                                  *)

LEMMA HostStartInv ==
  ASSUME SerialInv, HostStart
  PROVE  SerialInv'
<1>1. /\ host = "banner" /\ host' = "read" /\ down # <<>> /\ down' = Tail(down)
      /\ UNCHANGED <<pos, left, numw, out, up, board, packet, mem, ram, stored, entry, errors, lost>>
  BY DEF HostStart, boardVars
<1>2. /\ InFlight = 0 /\ Len(down) <= 1 /\ board # "reset" /\ out = <<>>
      /\ lost = 0 => WholePackets
  BY <1>1 DEF SerialInv, WholeOK
<1>3. down' = <<>>
  <2>1. /\ down \in Seq(Byte \cup {Banner}) /\ Len(down) \in Nat \ {0}
        /\ down' \in Seq(Byte \cup {Banner}) /\ Len(down') = Len(down) - 1
    BY <1>1, TypeFacts, TakeFacts DEF SerialInv
  <2>2. Len(down') = 0
    BY <1>2, <2>1
  <2> QED
    BY <2>1, <2>2, EmptySeq
<1>4. InFlight' = InFlight /\ (WholePackets' <=> WholePackets) /\ (OneChanged' <=> OneChanged)
  BY <1>1, StillFacts
<1>5. TypeOK'
  BY <1>1, <1>3 DEF SerialInv, TypeOK
<1>6. PlaceOK'
  BY <1>1 DEF SerialInv, PlaceOK
<1>7. WholeOK'
  BY <1>1, <1>2, <1>4 DEF WholeOK
<1>8. FlightOK'
  BY <1>1, <1>2, <1>3, <1>4 DEF SerialInv, FlightOK
<1>9. CleanOK'
  BY <1>1 DEF SerialInv, CleanOK
<1> QED
  BY <1>5, <1>6, <1>7, <1>8, <1>9 DEF SerialInv

LEMMA ReadChunkInv ==
  ASSUME SerialInv, ReadChunk
  PROVE  SerialInv'
<1>1. /\ host = "read" /\ left = 0 /\ Chunk # <<>>
      /\ UNCHANGED <<host, numw, out, up, down, board, packet, mem, ram, stored, entry, errors, lost>>
  BY DEF ReadChunk, boardVars
<1>2. /\ Len(Chunk) \in 1..ChunkWords /\ pos + Len(Chunk) <= Len(Image)
      /\ (pos + Len(Chunk)) % ChunkWords = 0 \/ pos + Len(Chunk) = Len(Image)
      /\ \A k \in (pos + 1)..(pos + Len(Chunk)) : Sent(k) <=> ~AllZeros(Chunk)
  <2>1. pos % ChunkWords = 0 \/ pos = Len(Image)
    BY <1>1, TypeFacts DEF SerialInv, PlaceOK
  <2> QED
    BY <1>1, <2>1, ChunkFacts DEF SerialInv
<1>3. \/ pos' = pos + Len(Chunk) /\ left' = 0 /\ AllZeros(Chunk)
      \/ pos' = pos /\ left' = Len(Chunk) /\ ~AllZeros(Chunk)
  BY <1>1 DEF ReadChunk
<1>4. pos \in Nat /\ numw \in Nat /\ ChunkWords \in Nat /\ Len(Image) \in Nat
  BY TypeFacts, SerialAssumption DEF SerialInv
<1>5. TypeOK'
  <2>1. pos' \in 0..Len(Image) /\ left' \in 0..ChunkWords
    BY <1>2, <1>3, <1>4
  <2> QED
    BY <1>1, <2>1 DEF SerialInv, TypeOK
<1>6. PlaceOK'
  <2>1. pos' + left' = pos + Len(Chunk) /\ numw <= pos' /\ numw' = numw
    BY <1>1, <1>2, <1>3, <1>4 DEF SerialInv, PlaceOK
  <2>2. \A k \in (pos' + 1)..(pos' + left') : Sent(k)
    BY <1>2, <1>3, <1>4
  <2> QED
    BY <1>1, <1>2, <2>1, <2>2 DEF PlaceOK
<1>7. WholeOK'
  BY <1>1, StillFacts DEF SerialInv, WholeOK
<1>8. FlightOK'
  <2>1. ASSUME errors <= 1 PROVE InFlight = 0 /\ down = <<>> /\ OneChanged
    BY <1>1, <2>1 DEF SerialInv, FlightOK
  <2> QED
    BY <1>1, <2>1, StillFacts DEF FlightOK
<1>9. CleanOK'
  <2>1. ASSUME errors = 0, lost = 0 PROVE stored = numw /\ mem = Loaded(ram, pos')
    <3>1. stored = numw /\ mem = Loaded(ram, pos)
      BY <1>1, <2>1 DEF SerialInv, CleanOK
    <3>2. Loaded(ram, pos') = Loaded(ram, pos)
      <4>1. ram \in [Byte -> Byte] /\ pos \in 0..Len(Image)
        BY DEF SerialInv, TypeOK
      <4>2. pos' \in pos..Len(Image) /\ \A k \in (pos + 1)..pos' : ~Sent(k)
        <5>1. CASE pos' = pos
          BY <1>4, <4>1, <5>1
        <5>2. CASE pos' = pos + Len(Chunk) /\ AllZeros(Chunk)
          BY <1>2, <1>4, <4>1, <5>2
        <5> QED
          BY <1>3, <5>1, <5>2
      <4>3. \A m \in pos..Len(Image) :
              (\A k \in (pos + 1)..m : ~Sent(k)) => Loaded(ram, m) = Loaded(ram, pos)
        BY <4>1, LoadedFacts
      <4> QED
        BY <4>2, <4>3
    <3> QED
      BY <3>1, <3>2
  <2> QED
    BY <1>1, <2>1 DEF SerialInv, CleanOK
<1> QED
  BY <1>5, <1>6, <1>7, <1>8, <1>9 DEF SerialInv

\* A packet is handed to write_packet.
LEMMA NewPacket ==
  ASSUME SerialInv, NEW p \in Seq(Byte), Len(p) = 4, p[4] = Xor(Xor(p[1], p[2]), p[3]),
         CurrentPacket' = p, out' = p, host = "read", host' \in {"send", "jump"},
         UNCHANGED <<pos, numw, up, down, boardVars, errors, lost>>
  PROVE  WholeOK' /\ FlightOK' /\ CleanOK'
<1>1. UNCHANGED <<up, packet, board, mem, ram, stored, entry>>
  BY DEF boardVars
<1>2. /\ Arrived \in Nat /\ InFlight = Arrived /\ board # "reset" /\ p # <<>>
      /\ lost = 0 => WholePackets
  <2>1. out = <<>> /\ board # "reset" /\ (lost = 0 => WholePackets)
    BY DEF SerialInv, WholeOK
  <2>2. Arrived \in Nat /\ InFlight = Arrived + 0
    BY <2>1, TypeFacts DEF SerialInv
  <2>3. p # <<>>
    BY EmptySeq
  <2> QED
    BY <2>1, <2>2, <2>3
<1>3. Arrived' = Arrived /\ InFlight' = InFlight + 4
  BY <1>1, <1>2 DEF Arrived, InFlight
<1>4. ASSUME NEW i \in 1..InFlight PROVE Wire(i)' = Wire(i)
  BY <1>1, <1>2, <1>3 DEF Wire, Arriving
<1>5. ASSUME NEW i \in 1..4, NEW j, j = InFlight + i PROVE Wire(j)' = p[i]
  <2>1. ~(j <= Arrived) /\ j - Arrived = i
    BY <1>2, <1>5
  <2> QED
    BY <1>3, <2>1 DEF Wire
<1>6. lost = 0 => WholePackets'
  <2> SUFFICES ASSUME lost = 0 PROVE WholePackets'
    OBVIOUS
  <2>1. PICK n \in 0..InFlight :
          InFlight = 4 * n /\ \A m \in 0..(n - 1) : CheckSummed(4 * m)
    BY <1>2 DEF WholePackets
  <2>2. ASSUME NEW m \in 0..n PROVE CheckSummed(4 * m)'
    <3>1. CASE m = n
      <4>1. /\ Wire(4 * m + 1)' = p[1] /\ Wire(4 * m + 2)' = p[2]
            /\ Wire(4 * m + 3)' = p[3] /\ Wire(4 * m + 4)' = p[4]
        BY <1>5, <2>1, <3>1
      <4> QED
        BY <4>1 DEF CheckSummed
    <3>2. CASE m # n
      <4>1. /\ 4 * m + 1 \in 1..InFlight /\ 4 * m + 2 \in 1..InFlight
            /\ 4 * m + 3 \in 1..InFlight /\ 4 * m + 4 \in 1..InFlight /\ m \in 0..(n - 1)
        BY <2>1, <3>2
      <4> QED
        BY <1>4, <2>1, <4>1 DEF CheckSummed
    <3> QED
      BY <3>1, <3>2
  <2>3. n + 1 \in 0..InFlight' /\ InFlight' = 4 * (n + 1) /\ (n + 1) - 1 = n
    BY <1>2, <1>3, <2>1
  <2> QED
    BY <2>2, <2>3 DEF WholePackets
<1>7. WholeOK'
  BY <1>1, <1>2, <1>6 DEF WholeOK
<1>8. ASSUME errors <= 1
      PROVE  InFlight = 0 /\ down = <<>> /\ OneChanged
  BY <1>8 DEF SerialInv, FlightOK
<1>9. FlightOK'
  <2>1. SUFFICES ASSUME errors <= 1 PROVE FlightOK'
    BY DEF FlightOK
  <2>2. InFlight' = 4 /\ \A i \in 1..4 : Wire(i)' = p[i]
    <3>1. \A i \in 1..4 : i = InFlight + i
      BY <1>8, <2>1
    <3> QED
      BY <1>3, <1>5, <1>8, <2>1, <3>1
  <2>3. OneChanged'
    BY <1>1, <1>3, <1>8, <2>1 DEF OneChanged, Changed, Arriving
  <2> QED
    BY <1>8, <2>1, <2>2, <2>3 DEF FlightOK
<1>10. CleanOK'
  <2>1. errors = 0 => InFlight' = 4
    BY <1>3, <1>8
  <2> QED
    BY <1>1, <2>1 DEF SerialInv, CleanOK
<1> QED
  BY <1>7, <1>9, <1>10

LEMMA WriteWordInv ==
  ASSUME SerialInv, WriteWord
  PROVE  SerialInv'
<1>1. /\ host = "read" /\ left > 0 /\ host' = "send" /\ pos' = pos /\ left' = left /\ numw' = numw
      /\ UNCHANGED <<up, down, boardVars, errors, lost>>
  BY DEF WriteWord
<1>2. pos + 1 \in 1..Len(Image)
  BY <1>1, TypeFacts DEF SerialInv, PlaceOK
<1>3. WRITE \in Byte /\ LoadAddr + pos \in Byte /\ Image[pos + 1] \in Byte
  <2>1. LoadAddr + (pos + 1) - 1 = LoadAddr + pos
    BY TypeFacts, SerialAssumption DEF SerialInv, Byte
  <2> QED
    BY <1>2, <2>1, ImageFacts, TypeFacts DEF SerialInv
<1>4. /\ out' \in Seq(Byte) /\ Len(out') = 4 /\ CurrentPacket' = out'
      /\ out'[4] = Xor(Xor(out'[1], out'[2]), out'[3])
  <2>1. out' = Packet(WRITE, LoadAddr + pos, Image[pos + 1])
    BY DEF WriteWord
  <2>2. CurrentPacket' = Packet(WRITE, LoadAddr + pos, Image[pos + 1])
    BY <1>1 DEF CurrentPacket, Packet
  <2>3. \A t, a, d \in Byte :
          /\ Packet(t, a, d) \in Seq(Byte) /\ Len(Packet(t, a, d)) = 4
          /\ Packet(t, a, d)[4] = Xor(Xor(Packet(t, a, d)[1], Packet(t, a, d)[2]), Packet(t, a, d)[3])
    BY PacketFacts
  <2> HIDE DEF Packet
  <2> QED
    BY <1>3, <2>1, <2>2, <2>3
<1>5. TypeOK'
  BY <1>1, <1>4 DEF SerialInv, TypeOK, boardVars
<1>6. PlaceOK'
  BY <1>1 DEF SerialInv, PlaceOK
<1>7. WholeOK' /\ FlightOK' /\ CleanOK'
  BY <1>1, <1>4, NewPacket
<1> QED
  BY <1>5, <1>6, <1>7 DEF SerialInv

LEMMA WriteJumpInv ==
  ASSUME SerialInv, WriteJump
  PROVE  SerialInv'
<1>1. /\ host = "read" /\ left = 0 /\ host' = "jump"
      /\ pos' = pos /\ left' = left /\ numw' = numw /\ Chunk = <<>>
      /\ UNCHANGED <<up, down, boardVars, errors, lost>>
  BY DEF WriteJump
<1>2. pos = Len(Image)
  <2>1. pos % ChunkWords = 0 \/ pos = Len(Image)
    BY <1>1, TypeFacts DEF SerialInv, PlaceOK
  <2> QED
    BY <1>1, <2>1, ChunkFacts DEF SerialInv
<1>3. JUMP \in Byte /\ LoadAddr \in Byte /\ FF \in Byte
  BY TypeFacts, SerialAssumption DEF SerialInv
<1>4. /\ out' \in Seq(Byte) /\ Len(out') = 4 /\ CurrentPacket' = out'
      /\ out'[4] = Xor(Xor(out'[1], out'[2]), out'[3])
  <2>1. out' = Packet(JUMP, LoadAddr, FF) /\ CurrentPacket' = Packet(JUMP, LoadAddr, FF)
    BY <1>1 DEF WriteJump, CurrentPacket
  <2> HIDE DEF Packet
  <2> QED
    BY <1>3, <2>1, PacketFacts
<1>5. TypeOK'
  BY <1>1, <1>4 DEF SerialInv, TypeOK, boardVars
<1>6. PlaceOK'
  BY <1>1, <1>2 DEF SerialInv, PlaceOK
<1>7. WholeOK' /\ FlightOK' /\ CleanOK'
  BY <1>1, <1>4, NewPacket
<1> QED
  BY <1>5, <1>6, <1>7 DEF SerialInv

LEMMA ReadUntilProcInv ==
  ASSUME SerialInv, ReadUntilProc
  PROVE  SerialInv'
<1>1. /\ host = "wait" /\ down # <<>> /\ down' = Tail(down)
      /\ UNCHANGED <<out, up, board, packet, mem, ram, stored, entry, errors, lost>>
  BY DEF ReadUntilProc, boardVars
<1>2. /\ out = <<>> /\ left > 0 /\ board # "reset" /\ (lost = 0 => WholePackets)
      /\ errors <= 1 => /\ InFlight = 0 /\ OneChanged
                        /\ \A i \in 1..(Len(down) - 1) : down[i] # FF
  BY <1>1 DEF SerialInv, PlaceOK, WholeOK, FlightOK
<1>3. /\ down \in Seq(Byte \cup {Banner}) /\ Len(down) \in Nat \ {0}
      /\ Head(down) = down[1] /\ down' \in Seq(Byte \cup {Banner}) /\ Len(down') = Len(down) - 1
      /\ \A i \in 1..(Len(down) - 1) : down'[i] = down[i + 1]
  BY <1>1, TypeFacts, TakeFacts DEF SerialInv
<1>4. /\ pos \in Nat /\ left \in Nat /\ numw \in Nat /\ stored \in Nat /\ ChunkWords \in Nat
      /\ Len(Image) \in Nat
  BY TypeFacts, SerialAssumption DEF SerialInv
<1>5. /\ InFlight' = InFlight /\ (WholePackets' <=> WholePackets)
      /\ OneChanged' <=> OneChanged
  BY <1>1, StillFacts
<1>6. CASE Head(down) = FF
  <2>1. host' = "read" /\ pos' = pos + 1 /\ left' = left - 1 /\ numw' = numw + 1
    BY <1>6 DEF ReadUntilProc
  <2>2. /\ pos' \in 0..Len(Image) /\ left' \in 0..ChunkWords /\ numw' \in 0..Len(Image)
        /\ pos' + left' = pos + left /\ numw' <= pos'
        /\ \A k \in (pos' + 1)..(pos' + left') : k \in (pos + 1)..(pos + left)
    <3>1. pos + left <= Len(Image) /\ numw <= pos /\ left \in 0..ChunkWords
      BY DEF SerialInv, PlaceOK, TypeOK
    <3> QED
      BY <1>2, <1>4, <2>1, <3>1
  <2>3. TypeOK'
    BY <1>1, <1>3, <2>1, <2>2 DEF SerialInv, TypeOK
  <2>4. PlaceOK'
    BY <2>1, <2>2 DEF SerialInv, PlaceOK
  <2>5. WholeOK'
    BY <1>1, <1>2, <1>5, <2>1 DEF WholeOK
  <2>6. ASSUME errors <= 1 PROVE down' = <<>>
    <3>1. ~(1 \in 1..(Len(down) - 1))
      BY <1>2, <1>3, <1>6, <2>6
    <3>2. Len(down') = 0
      BY <1>3, <3>1
    <3> QED
      BY <1>3, <3>2, EmptySeq
  <2>7. FlightOK'
    BY <1>1, <1>2, <1>5, <2>1, <2>6 DEF FlightOK
  <2>8. ASSUME errors = 0, lost = 0
        PROVE  stored = numw + 1 /\ mem = Loaded(ram, pos + 1)
    <3>1. InFlight = 0
      BY <1>2, <2>8
    <3>2. stored = numw + 1
      BY <1>1, <2>8, <3>1 DEF SerialInv, CleanOK
    <3>3. stored # numw
      BY <1>4, <3>2
    <3> QED
      BY <2>8, <3>2, <3>3 DEF SerialInv, CleanOK
  <2>9. CleanOK'
    BY <1>1, <2>1, <2>8 DEF SerialInv, CleanOK
  <2> QED
    BY <2>3, <2>4, <2>5, <2>7, <2>9 DEF SerialInv
<1>7. CASE Head(down) # FF
  <2>1. UNCHANGED <<host, pos, left, numw>>
    BY <1>7 DEF ReadUntilProc
  <2>2. TypeOK'
    BY <1>1, <1>3, <2>1 DEF SerialInv, TypeOK
  <2>3. PlaceOK'
    BY <2>1 DEF SerialInv, PlaceOK
  <2>4. WholeOK'
    BY <1>1, <1>2, <1>5, <2>1 DEF WholeOK
  <2>5. FlightOK'
    <3>1. ASSUME errors <= 1, NEW i \in 1..(Len(down') - 1) PROVE down'[i] # FF
      <4>1. i \in 1..(Len(down) - 1) /\ i + 1 \in 1..(Len(down) - 1)
        BY <1>3
      <4> QED
        BY <1>2, <1>3, <3>1, <4>1
    <3> QED
      BY <1>1, <1>2, <1>5, <2>1, <3>1 DEF FlightOK
  <2>6. ~(errors = 0 /\ lost = 0)
    <3>1. errors = 0 /\ lost = 0 => down = <<FF>>
      BY <1>1, <1>2 DEF SerialInv, CleanOK
    <3> QED
      BY <1>7, <3>1
  <2>7. CleanOK'
    BY <1>1, <2>6 DEF CleanOK
  <2> QED
    BY <2>2, <2>3, <2>4, <2>5, <2>7 DEF SerialInv
<1> QED
  BY <1>6, <1>7

\* What is left of a line of which the first k bytes are thrown away.
LEMMA FlushFacts ==
  ASSUME NEW S, NEW s \in Seq(S), NEW k \in 0..Len(s)
  PROVE  /\ SubSeq(s, k + 1, Len(s)) \in Seq(S)
         /\ s = <<>> => SubSeq(s, k + 1, Len(s)) = <<>>
<1>1. Len(s) \in Nat /\ \A i \in 1..Len(s) : s[i] \in S
  BY LenProperties, ElementOfSeq
<1>2. /\ SubSeq(s, k + 1, Len(s)) \in Seq(S)
      /\ Len(SubSeq(s, k + 1, Len(s))) = IF k + 1 <= Len(s) THEN Len(s) - (k + 1) + 1 ELSE 0
  <2>1. k + 1 \in Int /\ Len(s) \in Int /\ \A i \in (k + 1)..Len(s) : s[i] \in S
    BY <1>1
  <2> QED
    BY <2>1, <1>1, SubSeqProperties
<1>3. s = <<>> => SubSeq(s, k + 1, Len(s)) = <<>>
  <2> SUFFICES ASSUME s = <<>> PROVE SubSeq(s, k + 1, Len(s)) = <<>>
    OBVIOUS
  <2>1. Len(s) = 0 /\ ~(k + 1 <= Len(s))
    BY <1>1
  <2>2. Len(SubSeq(s, k + 1, Len(s))) = 0
    BY <1>2, <2>1
  <2> QED
    BY <1>2, <2>2, EmptySeq
<1> QED
  BY <1>2, <1>3

\* A byte leaves the loader and arrives as w, or is lost.
LEMMA WriteByteInv ==
  ASSUME SerialInv, WriteByte
  PROVE  SerialInv'
<1>1. /\ out # <<>> /\ host \in {"send", "jump"} /\ out' = Tail(out)
      /\ UNCHANGED <<pos, left, numw, board, packet, mem, ram, stored, entry>>
      /\ board # "reset" /\ host # "banner" /\ (lost = 0 => WholePackets)
  BY DEF WriteByte, SerialInv, WholeOK, boardVars
<1>2. /\ Head(out) \in Byte /\ Len(out) \in Nat \ {0}
      /\ out' \in Seq(Byte) /\ Len(out') = Len(out) - 1
      /\ out' = <<>> <=> Len(out) = 1
  <2>1. out \in Seq(Byte)
    BY TypeFacts DEF SerialInv
  <2>2. /\ Head(out) \in Byte /\ Len(out) \in Nat \ {0}
        /\ out' \in Seq(Byte) /\ Len(out') = Len(out) - 1
    BY <1>1, <2>1, TakeFacts
  <2>3. out' = <<>> <=> Len(out') = 0
    BY <2>2, EmptySeq
  <2> QED
    BY <2>2, <2>3
<1>3. IF out' = <<>>
      THEN \/ host = "send" /\ host' = "wait"
           \/ host = "jump" /\ host' = "done"
      ELSE host' = host
  BY <1>1, <1>2 DEF WriteByte, PacketSent
<1>4. CurrentPacket' = CurrentPacket
  BY <1>1, <1>3 DEF CurrentPacket
<1>5. PlaceOK'
  BY <1>1, <1>3 DEF SerialInv, PlaceOK
<1>6. /\ down' \in Seq(Byte \cup {Banner})
      /\ errors <= 1 => down' = <<>>
  <2>1. PICK k \in 0..Len(down) : down' = SubSeq(down, k + 1, Len(down))
    BY DEF WriteByte
  <2>2. down \in Seq(Byte \cup {Banner}) /\ (errors <= 1 => down = <<>>)
    BY <1>1, TypeFacts DEF SerialInv, FlightOK
  <2> QED
    BY <2>1, <2>2, FlushFacts
<1>7. /\ errors \in Nat /\ MaxErrors \in Nat /\ errors \in 0..MaxErrors
      /\ lost \in Nat /\ MaxLost \in Nat /\ lost \in 0..MaxLost
      /\ InFlight \in Nat /\ Arrived \in Nat /\ InFlight = Arrived + Len(out)
  BY SerialAssumption, TypeFacts DEF SerialInv, TypeOK
<1>8. host' \in {"banner", "read", "send", "wait", "jump", "done"} /\ host' \notin {"banner", "read"}
  BY <1>1, <1>3
<1>9. ASSUME NEW b \in Byte, up' = Append(up, [val |-> b, sent |-> Head(out)]),
             errors' \in 0..MaxErrors, lost' = lost, errors <= errors',
             b # Head(out) => errors' = errors + 1
      PROVE  TypeOK' /\ WholeOK' /\ FlightOK' /\ CleanOK'
  <2> DEFINE w == [val |-> b, sent |-> Head(out)]
  <2>1. w \in WireByte /\ w.val = b /\ w.sent = Head(out)
    BY <1>2 DEF WireByte
  <2>2. up' = Append(up, w)
    BY <1>9
  <2> HIDE DEF w
  <2>3. /\ up' \in Seq(WireByte)
        /\ InFlight' = InFlight /\ Arrived' = Arrived + 1
        /\ \A i \in 1..InFlight : Wire(i)' = Wire(i)
        /\ \A i \in 1..Arrived : Arriving(i)' = Arriving(i)
        /\ \A i : i = Arrived + 1 => Arriving(i)' = w
    BY <1>1, <2>1, <2>2, SendFacts DEF SerialInv
  <2>4. TypeOK'
    BY <1>1, <1>2, <1>6, <1>8, <1>9, <2>3 DEF SerialInv, TypeOK
  <2>5. WholeOK'
    <3>1. lost' = 0 => WholePackets'
      BY <1>1, <1>7, <1>9, <2>3, KeptFacts
    <3> QED
      BY <1>1, <1>3, <1>8, <3>1 DEF WholeOK
  <2>6. FlightOK'
    <3> SUFFICES ASSUME errors' <= 1 PROVE FlightOK'
      BY DEF FlightOK
    <3>1. /\ errors <= 1 /\ InFlight <= 4 /\ OneChanged /\ down' = <<>>
          /\ InFlight = 4 => \A i \in 1..4 : Wire(i) = CurrentPacket[i]
      <4>1. errors <= 1
        BY <1>7, <1>9
      <4> QED
        BY <1>6, <4>1 DEF SerialInv, FlightOK
    <3>2. OneChanged'
      <4>1. \A i \in Changed' : i \in Changed \/ (i = Arrived + 1 /\ b # Head(out))
        <5>1. \A i \in 1..(Arrived + 1) : i \in 1..Arrived \/ i = Arrived + 1
          BY <1>7
        <5> QED
          BY <2>1, <2>3, <5>1 DEF Changed
      <4>2. CASE b # Head(out)
        <5>1. errors' = 1 /\ errors = 0
          BY <1>7, <1>9, <4>2
        <5>2. Changed = {}
          <6>1. \A i \in Changed : errors = 1
            BY <3>1 DEF OneChanged
          <6> QED
            BY <5>1, <6>1
        <5> QED
          BY <4>1, <5>1, <5>2 DEF OneChanged
      <4>3. CASE b = Head(out)
        <5>1. Changed' \subseteq Changed
          BY <4>1, <4>3
        <5>2. \A i, j \in Changed : errors = 1 /\ i = j
          BY <3>1 DEF OneChanged
        <5>3. errors = 1 => errors' = 1
          BY <1>7, <1>9
        <5> QED
          BY <5>1, <5>2, <5>3 DEF OneChanged
      <4> QED
        BY <4>2, <4>3
    <3> QED
      BY <1>4, <1>7, <1>8, <2>3, <3>1, <3>2 DEF FlightOK
  <2>7. CleanOK'
    <3> SUFFICES ASSUME errors' = 0, lost' = 0 PROVE CleanOK'
      BY DEF CleanOK
    <3>1. errors = 0 /\ lost = 0
      BY <1>7, <1>9
    <3>2. InFlight = 4 /\ stored = numw /\ board # "jumped" /\ mem = Loaded(ram, pos)
      BY <1>1, <3>1 DEF SerialInv, CleanOK
    <3>3. down' = <<>>
      BY <1>6, <3>1
    <3> QED
      BY <1>1, <1>3, <2>3, <3>2, <3>3 DEF CleanOK
  <2> QED
    BY <2>4, <2>5, <2>6, <2>7
<1>10. ASSUME lost < MaxLost, lost' = lost + 1, up' = up, errors' = errors
       PROVE  TypeOK' /\ WholeOK' /\ FlightOK' /\ CleanOK'
  <2>1. lost' \in 0..MaxLost /\ lost' # 0
    BY <1>7, <1>10
  <2>2. /\ Arrived' = Arrived /\ InFlight' = InFlight - 1
        /\ errors' = errors => (OneChanged' <=> OneChanged)
    <3>1. Arrived' = Arrived
      BY <1>1, <1>10 DEF Arrived
    <3>2. InFlight' = Arrived' + Len(out')
      BY DEF InFlight
    <3> QED
      BY <1>1, <1>2, <1>7, <1>10, <3>1, <3>2 DEF OneChanged, Changed, Arriving
  <2>3. TypeOK'
    BY <1>1, <1>2, <1>6, <1>8, <1>10, <2>1 DEF SerialInv, TypeOK
  <2>4. WholeOK'
    BY <1>1, <1>3, <1>8, <2>1 DEF WholeOK
  <2>5. FlightOK'
    <3> SUFFICES ASSUME errors' <= 1 PROVE FlightOK'
      BY DEF FlightOK
    <3>1. InFlight <= 4 /\ OneChanged /\ down' = <<>>
      BY <1>6, <1>10 DEF SerialInv, FlightOK
    <3>2. InFlight' <= 4 /\ InFlight' # 4
      BY <1>7, <2>2, <3>1
    <3> QED
      BY <1>8, <1>10, <2>2, <3>1, <3>2 DEF FlightOK
  <2>6. CleanOK'
    BY <2>1 DEF CleanOK
  <2> QED
    BY <2>3, <2>4, <2>5, <2>6
<1>11. TypeOK' /\ WholeOK' /\ FlightOK' /\ CleanOK'
  <2>1. CASE /\ up' = Append(up, [val |-> Head(out), sent |-> Head(out)])
             /\ UNCHANGED <<errors, lost>>
    BY <1>2, <1>7, <1>9, <2>1
  <2>2. CASE \E b \in Byte \ {Head(out)} :
               /\ errors < MaxErrors /\ errors' = errors + 1
               /\ up' = Append(up, [val |-> b, sent |-> Head(out)])
               /\ UNCHANGED lost
    <3>1. PICK b \in Byte : /\ errors < MaxErrors /\ errors' = errors + 1
                            /\ up' = Append(up, [val |-> b, sent |-> Head(out)])
                            /\ lost' = lost
      BY <2>2
    <3>2. errors' \in 0..MaxErrors /\ errors <= errors'
      BY <1>7, <3>1
    <3> QED
      BY <1>9, <3>1, <3>2
  <2>3. CASE lost < MaxLost /\ lost' = lost + 1 /\ UNCHANGED <<up, errors>>
    BY <1>10, <2>3
  <2> QED
    BY <2>1, <2>2, <2>3 DEF WriteByte
<1> QED
  BY <1>5, <1>11 DEF SerialInv

-----------------------------------------------------------------------------
(* The steps of the board                                                   *)

LEMMA BoardStartInv ==
  ASSUME SerialInv, BoardStart
  PROVE  SerialInv'
<1>1. /\ board = "reset" /\ board' = "loop" /\ down' = Append(down, Banner)
      /\ UNCHANGED <<host, pos, left, numw, out, up, packet, mem, ram, stored, entry, errors, lost>>
  BY DEF BoardStart, hostVars
<1>2. host = "banner" /\ down = <<>> /\ InFlight = 0 /\ out = <<>> /\ (lost = 0 => WholePackets)
  BY <1>1 DEF SerialInv, WholeOK
<1>3. down' = <<Banner>> /\ down' \in Seq(Byte \cup {Banner}) /\ Len(down') <= 1
  BY <1>1, <1>2
<1>4. InFlight' = InFlight /\ (WholePackets' <=> WholePackets) /\ (OneChanged' <=> OneChanged)
  BY <1>1, StillFacts
<1>5. TypeOK'
  BY <1>1, <1>3 DEF SerialInv, TypeOK
<1>6. PlaceOK'
  BY <1>1 DEF SerialInv, PlaceOK
<1>7. WholeOK'
  BY <1>1, <1>2, <1>3, <1>4 DEF WholeOK
<1>8. FlightOK'
  BY <1>1, <1>2, <1>4 DEF SerialInv, FlightOK
<1>9. CleanOK'
  BY <1>1, <1>2 DEF SerialInv, CleanOK
<1> QED
  BY <1>5, <1>6, <1>7, <1>8, <1>9 DEF SerialInv

LEMMA GetcInv ==
  ASSUME SerialInv, Getc
  PROVE  SerialInv'
<1>1. /\ board = "loop" /\ up # <<>> /\ Len(packet) < 3
      /\ packet' = Append(packet, Head(up)) /\ up' = Tail(up)
      /\ UNCHANGED <<host, pos, left, numw, out, down, board, mem, ram, stored, entry, errors, lost>>
  BY DEF Getc, hostVars
<1>2. /\ up' \in Seq(WireByte) /\ packet' \in Seq(WireByte) /\ Len(packet') = Len(packet) + 1
      /\ InFlight' = InFlight /\ Arrived' = Arrived
      /\ \A i \in 1..Arrived : Arriving(i)' = Arriving(i)
      /\ \A i \in 1..InFlight : Wire(i)' = Wire(i)
  BY <1>1, GetcFacts DEF SerialInv
<1>3. Changed' = Changed
  BY <1>2 DEF Changed
<1>4. CurrentPacket' = CurrentPacket
  BY <1>1 DEF CurrentPacket
<1>5. TypeOK'
  <2>1. Len(packet') < 4
    BY <1>1, <1>2, TypeFacts DEF SerialInv
  <2> QED
    BY <1>1, <1>2, <2>1 DEF SerialInv, TypeOK
<1>6. PlaceOK'
  BY <1>1 DEF SerialInv, PlaceOK
<1>7. WholeOK'
  <2>1. lost = 0 => WholePackets'
    BY <1>2, KeptFacts, TypeFacts DEF SerialInv, WholeOK
  <2> QED
    BY <1>1, <1>2, <2>1 DEF SerialInv, WholeOK
<1>8. FlightOK'
  <2>1. InFlight = 4 => \A i \in 1..4 : Wire(i)' = Wire(i)
    BY <1>2
  <2>2. OneChanged' <=> OneChanged
    BY <1>1, <1>3 DEF OneChanged
  <2> QED
    BY <1>1, <1>2, <1>4, <2>1, <2>2 DEF SerialInv, FlightOK
<1>9. CleanOK'
  BY <1>1, <1>2 DEF SerialInv, CleanOK
<1> QED
  BY <1>5, <1>6, <1>7, <1>8, <1>9 DEF SerialInv

\* A complete packet is the first four bytes under way.
LEMMA FullFacts ==
  ASSUME TypeOK, Complete
  PROVE  /\ Full \in Seq(WireByte) /\ DOMAIN Full = 1..4
         /\ Type \in Byte /\ Addr \in Byte /\ Data \in Byte
         /\ \A i \in 1..4 : /\ Full[i] \in WireByte /\ Full[i] = Arriving(i)
                            /\ Full[i].sent = Wire(i) /\ i \in 1..Arrived
<1>1. /\ up # <<>> /\ Len(packet) = 3 /\ up \in Seq(WireByte) /\ packet \in Seq(WireByte)
      /\ Arrived = Len(packet) + Len(up)
  BY TypeFacts DEF Complete
<1>2. Head(up) = up[1] /\ Head(up) \in WireByte /\ Len(up) \in Nat \ {0}
  BY <1>1, TakeFacts
<1>3. /\ Full \in Seq(WireByte) /\ Len(Full) = Len(packet) + 1
      /\ DOMAIN Full = 1..(Len(packet) + 1)
      /\ \A i \in 1..Len(packet) : Full[i] = packet[i]
      /\ Full[Len(packet) + 1] = Head(up)
  <2>1. packet \in Seq(WireByte) /\ Head(up) \in WireByte
    BY <1>1, <1>2
  <2> HIDE DEF WireByte
  <2>2. /\ Append(packet, Head(up)) \in Seq(WireByte)
        /\ Len(Append(packet, Head(up))) = Len(packet) + 1
        /\ DOMAIN Append(packet, Head(up)) = 1..(Len(packet) + 1)
        /\ \A i \in 1..Len(packet) : Append(packet, Head(up))[i] = packet[i]
        /\ Append(packet, Head(up))[Len(packet) + 1] = Head(up)
    BY <2>1, AppendFacts
  <2> QED
    BY <2>2, Zenon DEF Full
<1>4. /\ DOMAIN Full = 1..4 /\ \A i \in 1..3 : Full[i] = packet[i]
      /\ Full[4] = up[1]
  BY <1>1, <1>2, <1>3
<1>5. ASSUME NEW i \in 1..4
      PROVE  Full[i] \in WireByte /\ Full[i] = Arriving(i) /\ Full[i].sent = Wire(i) /\ i \in 1..Arrived
  <2>1. Full[i] \in WireByte
    BY <1>3, <1>4, ElementOfSeq
  <2>2. i \in 1..Arrived /\ i <= Arrived
    BY <1>1, <1>2
  <2>3. Full[i] = Arriving(i)
    <3>1. CASE i \in 1..3
      BY <1>1, <1>4, <3>1 DEF Arriving
    <3>2. CASE i = 4
      BY <1>1, <1>4, <3>2 DEF Arriving
    <3> QED
      BY <3>1, <3>2
  <2> QED
    BY <2>1, <2>2, <2>3 DEF Wire
<1>6. Type \in Byte /\ Addr \in Byte /\ Data \in Byte
  BY <1>5 DEF Type, Addr, Data, WireByte
<1> QED
  BY <1>3, <1>4, <1>5, <1>6

\* While at most one byte has been changed, the complete packet is the one that the
\* loader sent last, and nothing else is on its way; and if its check sum is right it
\* is as it was sent.
LEMMA CompleteFacts ==
  ASSUME SerialInv, Complete, errors <= 1
  PROVE  /\ host \in {"wait", "done"} /\ InFlight = 4 /\ (host = "wait" => down = <<>>)
         /\ \A i \in 1..4 : Full[i].sent = CurrentPacket[i]
         /\ errors = 0 => CheckSumOK
         /\ CheckSumOK => \A i \in 1..4 : Full[i].val = CurrentPacket[i]
<1>1. /\ up # <<>> /\ Len(packet) = 3 /\ up \in Seq(WireByte) /\ Len(out) \in Nat
      /\ Arrived = Len(packet) + Len(up) /\ InFlight = Arrived + Len(out)
      /\ out = <<>> <=> Len(out) = 0
  BY TypeFacts DEF SerialInv, Complete
<1>2. Len(up) \in Nat \ {0}
  BY <1>1, TakeFacts
<1>3. InFlight = 4 /\ out = <<>>
  <2>1. InFlight <= 4
    BY DEF SerialInv, FlightOK
  <2> QED
    BY <1>1, <1>2, <2>1
<1>4. host \in {"wait", "done"} /\ (host = "wait" => down = <<>>)
  BY <1>3 DEF SerialInv, TypeOK, WholeOK, FlightOK
<1>5. \A i \in 1..4 : Full[i].sent = CurrentPacket[i]
  BY <1>3, FullFacts DEF SerialInv, FlightOK
<1>6. /\ CurrentPacket[4] = Xor(Xor(CurrentPacket[1], CurrentPacket[2]), CurrentPacket[3])
      /\ \A i \in 1..4 : CurrentPacket[i] \in Byte
  BY CurrentFacts DEF SerialInv
<1>7. \A i, j \in 1..4 : /\ Full[i].val # CurrentPacket[i] => errors = 1
                         /\ Full[i].val # CurrentPacket[i] /\ Full[j].val # CurrentPacket[j] => i = j
  <2>1. \A i, j \in Changed : errors = 1 /\ i = j
    BY DEF SerialInv, FlightOK, OneChanged
  <2>2. \A i \in 1..4 : Full[i].val # CurrentPacket[i] => i \in Changed
    BY <1>5, FullFacts DEF SerialInv, Changed
  <2> QED
    BY <2>1, <2>2
<1>8. ASSUME errors = 0 PROVE CheckSumOK
  <2>1. \A i \in 1..4 : Full[i].val = CurrentPacket[i]
    BY <1>7, <1>8
  <2> QED
    BY <1>6, <2>1 DEF CheckSumOK, Type, Addr, Data
<1>9. ASSUME CheckSumOK, NEW d \in 1..4, Full[d].val # CurrentPacket[d] PROVE FALSE
  <2>1. \A i \in 1..4 : Full[i].val # CurrentPacket[i] <=> i = d
    BY <1>7, <1>9
  <2>2. \A i \in 1..4 : Full[i].val \in Byte /\ CurrentPacket[i] \in Byte
    BY <1>6, FullFacts DEF SerialInv, WireByte
  <2>3. Full[4].val = Xor(Xor(Full[1].val, Full[2].val), Full[3].val)
    BY <1>9 DEF CheckSumOK, Type, Addr, Data
  <2> QED
    BY <1>6, <2>1, <2>2, <2>3, OneByteOff
<1> QED
  BY <1>3, <1>4, <1>5, <1>8, <1>9

\* A packet that the board takes up, while at most one byte has been changed, is the
\* loader's.
LEMMA RightPacket ==
  ASSUME SerialInv, Complete, errors <= 1, CheckSumOK
  PROVE  /\ host = "wait" => /\ Type = WRITE /\ Addr = LoadAddr + pos /\ Data = Image[pos + 1]
                             /\ down = <<>>
         /\ host = "done" => Type = JUMP /\ Addr = LoadAddr /\ Data = FF
         /\ Type # READ
<1>1. /\ host \in {"wait", "done"} /\ (host = "wait" => down = <<>>)
      /\ Type = CurrentPacket[1] /\ Addr = CurrentPacket[2] /\ Data = CurrentPacket[3]
  BY CompleteFacts DEF Type, Addr, Data
<1>2. READ # WRITE /\ READ # JUMP
  BY DEF READ, WRITE, JUMP
<1>3. CASE host = "wait"
  BY <1>1, <1>2, <1>3, CurrentFacts DEF SerialInv
<1>4. CASE host = "done"
  BY <1>1, <1>2, <1>4, CurrentFacts DEF SerialInv
<1> QED
  BY <1>1, <1>3, <1>4

\* The board has dealt with a packet, and has replied down'.
LEMMA HandledInv ==
  ASSUME SerialInv, Complete, Handled, UNCHANGED <<hostVars, ram, errors, lost>>,
         down' \in Seq(Byte \cup {Banner}), board' \in {"loop", "jumped"},
         mem' \in [Byte -> Byte], stored' \in Nat, entry' \in Byte \cup {-1},
         errors <= 1 /\ host = "wait" => \A i \in 1..(Len(down') - 1) : down'[i] # FF
  PROVE  TypeOK' /\ PlaceOK' /\ WholeOK' /\ FlightOK' /\ (errors <= 1 => InFlight' = 0)
<1>1. UNCHANGED <<host, pos, left, numw, out, ram, errors, lost>>
  BY DEF hostVars
<1>2. /\ packet' = <<>> /\ up' \in Seq(WireByte)
      /\ Arrived - 4 \in Nat /\ Arrived' = Arrived - 4 /\ InFlight' = InFlight - 4
      /\ \A i \in 1..(Arrived - 4) : Arriving(i)' = Arriving(i + 4)
      /\ \A i \in 1..(InFlight - 4) : Wire(i)' = Wire(i + 4)
  BY <1>1, HandledFacts DEF SerialInv
<1>3. /\ Arrived \in Nat /\ InFlight \in Nat /\ InFlight = Arrived + Len(out) /\ Len(out) \in Nat
  BY TypeFacts DEF SerialInv
<1>4. TypeOK'
  <2>1. packet' \in Seq(WireByte) /\ Len(packet') < 4
    BY <1>2
  <2> QED
    BY <1>1, <1>2, <2>1 DEF SerialInv, TypeOK
<1>5. PlaceOK'
  BY <1>1 DEF SerialInv, PlaceOK
<1>6. WholeOK'
  <2>1. host # "banner"
    <3>1. InFlight # 0
      BY <1>2, <1>3
    <3> QED
      BY <3>1 DEF SerialInv, WholeOK
  <2>2. ASSUME lost = 0 PROVE WholePackets'
    <3>1. PICK n \in 0..InFlight :
            InFlight = 4 * n /\ \A m \in 0..(n - 1) : CheckSummed(4 * m)
      BY <2>2 DEF SerialInv, WholeOK, WholePackets
    <3>2. n - 1 \in 0..InFlight' /\ InFlight' = 4 * (n - 1)
      BY <1>2, <1>3, <3>1
    <3>3. ASSUME NEW m \in 0..((n - 1) - 1) PROVE CheckSummed(4 * m)'
      <4>1. /\ 4 * m + 1 \in 1..(InFlight - 4) /\ 4 * m + 2 \in 1..(InFlight - 4)
            /\ 4 * m + 3 \in 1..(InFlight - 4) /\ 4 * m + 4 \in 1..(InFlight - 4)
            /\ m + 1 \in 0..(n - 1) /\ 4 * (m + 1) + 1 = (4 * m + 1) + 4
            /\ 4 * (m + 1) + 2 = (4 * m + 2) + 4 /\ 4 * (m + 1) + 3 = (4 * m + 3) + 4
            /\ 4 * (m + 1) + 4 = (4 * m + 4) + 4
        BY <3>1
      <4>2. CheckSummed(4 * (m + 1))
        BY <3>1, <4>1
      <4>3. /\ Wire(4 * m + 1)' = Wire(4 * (m + 1) + 1) /\ Wire(4 * m + 2)' = Wire(4 * (m + 1) + 2)
            /\ Wire(4 * m + 3)' = Wire(4 * (m + 1) + 3) /\ Wire(4 * m + 4)' = Wire(4 * (m + 1) + 4)
        BY <1>2, <4>1
      <4> QED
        BY <4>2, <4>3 DEF CheckSummed
    <3> QED
      BY <3>2, <3>3 DEF WholePackets
  <2> QED
    BY <1>1, <2>1, <2>2 DEF SerialInv, WholeOK
<1>7. ASSUME errors <= 1 PROVE InFlight' = 0 /\ Arrived' = 0 /\ host \in {"wait", "done"}
  <2>1. InFlight = 4 /\ host \in {"wait", "done"}
    BY <1>7, CompleteFacts
  <2> QED
    BY <1>2, <1>3, <2>1
<1>8. FlightOK'
  <2>1. Arrived' = 0 => OneChanged'
    BY DEF OneChanged, Changed
  <2> QED
    BY <1>1, <1>7, <2>1 DEF FlightOK
<1> QED
  BY <1>4, <1>5, <1>6, <1>7, <1>8

LEMMA StoreInv ==
  ASSUME SerialInv, Store
  PROVE  SerialInv'
<1>1. /\ Complete /\ Handled /\ CheckSumOK /\ Type = WRITE
      /\ UNCHANGED <<hostVars, board, ram, entry, errors, lost>> /\ stored' = stored + 1
      /\ mem' = [mem EXCEPT ![Addr] = Data] /\ down' = down \o <<>> \o <<FF>>
  BY DEF Store, Reply
<1>2. /\ board = "loop" /\ Addr \in Byte /\ Data \in Byte /\ mem \in [Byte -> Byte]
      /\ stored \in Nat /\ entry \in Byte \cup {-1} /\ down \in Seq(Byte \cup {Banner})
      /\ UNCHANGED <<host, pos, left, numw>>
  BY <1>1, FullFacts DEF SerialInv, TypeOK, Complete, hostVars
<1>3. down' \in Seq(Byte \cup {Banner}) /\ (down = <<>> => down' = <<FF>>)
  <2>1. FF \in Byte \cup {Banner}
    BY DEF FF, Byte
  <2>2. <<FF>> \in Seq(Byte \cup {Banner}) /\ <<>> \in Seq(Byte \cup {Banner})
    BY <2>1
  <2>3. down \o <<>> = down
    BY <1>2, ConcatEmptySeq
  <2>4. down' = down \o <<FF>>
    BY <1>1, <2>3
  <2> QED
    BY <1>2, <2>2, <2>4, ConcatProperties, ConcatEmptySeq
<1>4. errors <= 1 /\ host = "wait" => down' = <<FF>>
  BY <1>1, <1>3, CompleteFacts
<1>5. errors <= 1 /\ host = "wait" => \A i \in 1..(Len(down') - 1) : down'[i] # FF
  <2>1. \A i \in 1..(1 - 1) : FALSE
    OBVIOUS
  <2>2. Len(<<FF>>) = 1
    OBVIOUS
  <2> QED
    BY <1>4, <2>1, <2>2
<1>6. TypeOK' /\ PlaceOK' /\ WholeOK' /\ FlightOK' /\ (errors <= 1 => InFlight' = 0)
  <2>1. mem' \in [Byte -> Byte] /\ stored' \in Nat /\ board' \in {"loop", "jumped"}
        /\ entry' \in Byte \cup {-1} /\ UNCHANGED <<hostVars, ram, errors, lost>>
    BY <1>1, <1>2
  <2> QED
    BY <1>1, <1>3, <1>5, <2>1, HandledInv
<1>7. CleanOK'
  <2>1. SUFFICES ASSUME errors = 0, lost = 0 PROVE CleanOK'
    BY <1>1 DEF CleanOK
  <2>2. host = "wait" /\ Addr = LoadAddr + pos /\ Data = Image[pos + 1]
    <3>1. WRITE # JUMP
      BY DEF WRITE, JUMP
    <3> QED
      BY <1>1, <2>1, <3>1, CompleteFacts, RightPacket
  <2>3. stored = numw /\ mem = Loaded(ram, pos)
    <3>1. InFlight = 4
      BY <1>1, <2>1, CompleteFacts
    <3> QED
      BY <2>1, <2>2, <3>1 DEF SerialInv, CleanOK
  <2>4. pos \in 0..Len(Image) /\ pos < Len(Image) /\ Sent(pos + 1) /\ ram \in [Byte -> Byte]
    <3>1. left > 0 /\ pos + left <= Len(Image) /\ \A k \in (pos + 1)..(pos + left) : Sent(k)
      BY <2>2 DEF SerialInv, PlaceOK
    <3> QED
      BY <3>1, TypeFacts DEF SerialInv, TypeOK
  <2>5. mem' = Loaded(ram, pos + 1)
    BY <1>1, <2>2, <2>3, <2>4, LoadedFacts
  <2>6. stored' = numw + 1 /\ stored' # numw
    BY <1>1, <1>2, <2>3
  <2>7. down' = <<FF>> /\ InFlight' = 0 /\ board' = "loop" /\ ram' = ram
    BY <1>1, <1>2, <1>4, <1>6, <2>1, <2>2
  <2> QED
    BY <1>2, <2>2, <2>5, <2>6, <2>7 DEF CleanOK
<1> QED
  BY <1>6, <1>7 DEF SerialInv

LEMMA JumpInv ==
  ASSUME SerialInv, Jump
  PROVE  SerialInv'
<1>1. /\ Complete /\ Handled /\ CheckSumOK /\ Type = JUMP
      /\ UNCHANGED <<hostVars, ram, errors, lost, down, mem, stored>>
      /\ board' = "jumped" /\ entry' = Addr
  BY DEF Jump
<1>2. /\ Addr \in Byte /\ mem \in [Byte -> Byte] /\ stored \in Nat
      /\ down \in Seq(Byte \cup {Banner}) /\ UNCHANGED <<host, pos, left, numw>>
  BY <1>1, FullFacts DEF SerialInv, TypeOK, hostVars
<1>3. errors <= 1 => host = "done" /\ Addr = LoadAddr
  <2>1. WRITE # JUMP
    BY DEF WRITE, JUMP
  <2> QED
    BY <1>1, <2>1, CompleteFacts, RightPacket
<1>4. TypeOK' /\ PlaceOK' /\ WholeOK' /\ FlightOK' /\ (errors <= 1 => InFlight' = 0)
  <2>1. /\ down' \in Seq(Byte \cup {Banner}) /\ board' \in {"loop", "jumped"}
        /\ mem' \in [Byte -> Byte] /\ stored' \in Nat /\ entry' \in Byte \cup {-1}
        /\ UNCHANGED <<hostVars, ram, errors, lost>>
    BY <1>1, <1>2
  <2>2. ~(errors <= 1 /\ host = "wait")
    BY <1>3
  <2> QED
    BY <1>1, <2>1, <2>2, HandledInv
<1>5. CleanOK'
  <2>1. SUFFICES ASSUME errors = 0, lost = 0 PROVE CleanOK'
    BY <1>1 DEF CleanOK
  <2>2. host = "done" /\ entry' = LoadAddr
    BY <1>1, <1>3, <2>1
  <2> QED
    BY <1>1, <1>2, <2>1, <2>2 DEF SerialInv, CleanOK
<1> QED
  BY <1>4, <1>5 DEF SerialInv

\* A read or a refusal: the loader has not sent such a packet.
LEMMA AnswerInv ==
  ASSUME SerialInv, ReadMem \/ Refuse
  PROVE  SerialInv'
<1>1. /\ Complete /\ Handled /\ UNCHANGED <<hostVars, board, mem, ram, stored, entry, errors, lost>>
  BY DEF ReadMem, Refuse
<1>2. /\ board = "loop" /\ Addr \in Byte /\ mem \in [Byte -> Byte] /\ stored \in Nat
      /\ entry \in Byte \cup {-1} /\ down \in Seq(Byte \cup {Banner})
  BY <1>1, FullFacts DEF SerialInv, TypeOK, Complete
<1>3. /\ down' \in Seq(Byte \cup {Banner})
      /\ errors <= 1 /\ host = "wait" => \A i \in 1..(Len(down') - 1) : down'[i] # FF
  <2>1. /\ FF \in Byte \cup {Banner} /\ Read88 \in Byte \cup {Banner}
        /\ \A i \in 0..4 : i \in Byte \cup {Banner} /\ i # FF
    BY DEF FF, Read88, Byte
  <2>2. CASE ReadMem
    <3>1. mem[Addr] \in Byte \cup {Banner}
      BY <1>2
    <3>2. <<Read88, mem[Addr]>> \in Seq(Byte \cup {Banner})
      BY <2>1, <3>1
    <3>3. ~(errors <= 1)
      BY <1>1, <2>2, RightPacket DEF ReadMem
    <3> QED
      BY <1>2, <2>1, <2>2, <3>2, <3>3 DEF ReadMem, Reply
  <2>3. CASE Refuse
    <3>1. Refusal \in {<<0, 1>>, <<0, 2>>, <<0, 3>>, <<0, 4>>}
      BY DEF Refusal
    <3>2. PICK k \in 0..4 : Refusal = <<0, k>>
      BY <3>1
    <3>3. down' = down \o <<0, k>> \o <<FF>>
      BY <2>3, <3>2 DEF Refuse, Reply
    <3>4. down' \in Seq(Byte \cup {Banner})
      BY <1>2, <2>1, <3>3
    <3>5. ASSUME errors <= 1, host = "wait"
          PROVE  \A i \in 1..(Len(down') - 1) : down'[i] # FF
      <4>1. down = <<>>
        BY <1>1, <3>5, CompleteFacts
      <4>2. <<0, k>> \in Seq(Byte \cup {Banner})
        BY <2>1
      <4>3. down \o <<0, k>> = <<0, k>>
        BY <4>1, <4>2, ConcatEmptySeq
      <4>4. down' = <<0, k>> \o <<FF>>
        BY <3>3, <4>3
      <4>5. Len(down') = 3 /\ down'[1] = 0 /\ down'[2] = k
        BY <4>4
      <4>6. \A i \in 1..(3 - 1) : i = 1 \/ i = 2
        OBVIOUS
      <4> QED
        BY <2>1, <4>5, <4>6
    <3> QED
      BY <3>4, <3>5
  <2> QED
    BY <2>2, <2>3
<1>4. TypeOK' /\ PlaceOK' /\ WholeOK' /\ FlightOK'
  <2>1. /\ board' \in {"loop", "jumped"} /\ mem' \in [Byte -> Byte] /\ stored' \in Nat
        /\ entry' \in Byte \cup {-1} /\ UNCHANGED <<hostVars, ram, errors, lost>>
    BY <1>1, <1>2
  <2> QED
    BY <1>1, <1>3, <2>1, HandledInv
<1>5. ~(errors = 0 /\ lost = 0)
  <2>1. SUFFICES ASSUME errors = 0, lost = 0 PROVE FALSE
    OBVIOUS
  <2>2. /\ CheckSumOK /\ Type # READ
        /\ Type = WRITE \/ (Type = JUMP /\ Data = FF)
    BY <1>1, <2>1, CompleteFacts, RightPacket
  <2> QED
    BY <2>2 DEF ReadMem, Refuse
<1>6. CleanOK'
  BY <1>1, <1>5 DEF CleanOK
<1> QED
  BY <1>4, <1>6 DEF SerialInv

-----------------------------------------------------------------------------
(* The theorems                                                             *)

LEMMA InitInv == Init => SerialInv
<1> SUFFICES ASSUME Init PROVE SerialInv
  OBVIOUS
<1>1. InFlight = 0 /\ Arrived = 0
  BY DEF Init, InFlight, Arrived
<1>2. Len(Image) \in Nat /\ ChunkWords \in Nat \ {0} /\ MaxErrors \in Nat /\ MaxLost \in Nat
  BY SerialAssumption, LenProperties
<1>3. TypeOK
  <2>1. 0 \in Byte /\ Junk \in Byte
    BY SerialAssumption DEF Byte
  <2>2. mem \in [Byte -> Byte] /\ ram \in [Byte -> Byte]
    BY <2>1 DEF Init
  <2> QED
    BY <1>2, <2>2 DEF Init, TypeOK
<1>4. PlaceOK
  BY <1>2 DEF Init, PlaceOK
<1>5. WholeOK
  <2>1. WholePackets
    BY <1>1 DEF WholePackets
  <2> QED
    BY <1>1, <2>1 DEF Init, WholeOK
<1>6. FlightOK
  <2>1. OneChanged
    BY <1>1 DEF OneChanged, Changed
  <2> QED
    BY <1>1, <2>1 DEF Init, FlightOK
<1>7. CleanOK
  <2>1. mem = Loaded(ram, 0)
    <3>1. mem = ram /\ ram \in [Byte -> Byte]
      BY <1>3 DEF Init, TypeOK
    <3>2. \A k \in 1..0 : FALSE
      OBVIOUS
    <3> QED
      BY <3>1, <3>2 DEF Loaded
  <2> QED
    BY <2>1 DEF Init, CleanOK
<1> QED
  BY <1>3, <1>4, <1>5, <1>6, <1>7 DEF SerialInv

LEMMA NextInv == SerialInv /\ [Next]_vars => SerialInv'
<1> SUFFICES ASSUME SerialInv, [Next]_vars PROVE SerialInv'
  OBVIOUS
<1>1. CASE Host
  BY <1>1, HostStartInv, ReadChunkInv, WriteWordInv, WriteJumpInv, WriteByteInv,
     ReadUntilProcInv DEF Host
<1>2. CASE Board
  BY <1>2, BoardStartInv, GetcInv, StoreInv, JumpInv, AnswerInv DEF Board
<1>3. CASE UNCHANGED vars
  <2>1. UNCHANGED <<host, pos, left, numw, out, up, down, board, packet, mem, ram, stored,
                    entry, errors, lost>>
    BY <1>3 DEF vars, hostVars, boardVars
  <2>2. /\ InFlight' = InFlight /\ \A i : Wire(i)' = Wire(i)
        /\ (WholePackets' <=> WholePackets) /\ (OneChanged' <=> OneChanged)
    BY <2>1, StillFacts
  <2>3. CurrentPacket' = CurrentPacket
    BY <2>1 DEF CurrentPacket
  <2>4. TypeOK' /\ PlaceOK'
    BY <2>1 DEF SerialInv, TypeOK, PlaceOK
  <2>5. WholeOK' /\ FlightOK'
    BY <2>1, <2>2, <2>3 DEF SerialInv, WholeOK, FlightOK
  <2>6. CleanOK'
    BY <2>1, <2>2 DEF SerialInv, CleanOK
  <2> QED
    BY <2>4, <2>5, <2>6 DEF SerialInv
<1> QED
  BY <1>1, <1>2, <1>3 DEF Next

\* For every image, chunk size and number of faults: unless one is lost the bytes on
\* their way are whole packets; while at most one byte has been changed the loader
\* sends a packet only when the board has dealt with the last one; and on a line
\* without faults RAM holds the words sent so far, and for the rest what it held.
THEOREM SerialInvHolds == Spec => []SerialInv
BY InitInv, NextInv, PTL DEF Spec

\* When no byte was lost or changed, the kernel is started at 0x8000, with RAM as it
\* was but for the words of the image that are in no chunk of zeros (bootloader.c,
\* forward.py).
THEOREM KernelIntactHolds == Spec => []KernelIntact
<1>1. SerialInv => KernelIntact
  <2> SUFFICES ASSUME SerialInv, board = "jumped", errors = 0, lost = 0
               PROVE  entry = LoadAddr /\ mem = Loaded(ram, Len(Image))
    BY DEF KernelIntact
  <2>1. /\ host = "done" /\ entry = LoadAddr /\ stored = numw
        /\ mem = Loaded(ram, IF stored = numw THEN pos ELSE pos + 1)
    BY DEF SerialInv, CleanOK
  <2>2. pos = Len(Image)
    BY <2>1 DEF SerialInv, PlaceOK
  <2> QED
    BY <2>1, <2>2
<1> QED
  BY <1>1, SerialInvHolds, PTL

\* On a line without faults the words that forward.py counts as written were stored.
THEOREM WroteMeansStoredHolds == Spec => []WroteMeansStored
<1>1. SerialInv => WroteMeansStored
  <2> SUFFICES ASSUME SerialInv, errors = 0, lost = 0
               PROVE  numw <= stored /\ (host \in {"jump", "done"} => stored = numw)
    BY DEF WroteMeansStored
  <2>1. numw \in Nat
    BY TypeFacts DEF SerialInv
  <2>2. stored = numw \/ stored = numw + 1
    BY DEF SerialInv, CleanOK
  <2>3. host \in {"jump", "done"} => stored = numw
    BY DEF SerialInv, CleanOK
  <2> QED
    BY <2>1, <2>2, <2>3
<1> QED
  BY <1>1, SerialInvHolds, PTL

\* A packet in which one byte was corrupted neither changes memory nor starts the
\* kernel, whatever the byte was changed to, unless a byte was lost and two or more
\* were corrupted before.
THEOREM SingleErrorHarmlessHolds == Spec => SingleErrorHarmless
<1>1. ASSUME SerialInv, [Next]_vars, lost = 0 \/ errors <= 1, Complete, Cardinality(Damaged) = 1
      PROVE  UNCHANGED <<mem, entry>>
  <2>1. PICK d \in 1..4 : Damaged = {d}
    <3>1. Damaged \subseteq 1..4
      BY <1>1, FullFacts DEF SerialInv, Damaged
    <3>2. IsFiniteSet(Damaged)
      <4>1. 1 \in Int /\ 4 \in Int
        OBVIOUS
      <4>2. IsFiniteSet(1..4)
        BY <4>1, FS_Interval
      <4> QED
        BY <3>1, <4>2, FS_Subset
    <3> QED
      BY <1>1, <3>1, <3>2, FS_Singleton
  <2> DEFINE g == [i \in 1..4 |-> Full[i].sent]
  <2>2. \A i \in 1..4 : /\ Full[i].val \in Byte /\ g[i] \in Byte /\ g[i] = Wire(i)
                        /\ Full[i].val # g[i] <=> i = d
    BY <1>1, <2>1, FullFacts DEF SerialInv, Damaged, WireByte
  <2> HIDE DEF g
  <2>3. g[4] = Xor(Xor(g[1], g[2]), g[3])
    <3>1. CASE lost = 0
      <4>1. PICK n \in 0..InFlight :
              InFlight = 4 * n /\ \A m \in 0..(n - 1) : CheckSummed(4 * m)
        BY <1>1, <3>1 DEF SerialInv, WholeOK, WholePackets
      <4>2. 0 \in 0..(n - 1)
        <5>1. Arrived \in Nat /\ InFlight = Arrived + Len(out) /\ Len(out) \in Nat /\ 1 \in 1..Arrived
          BY <1>1, TypeFacts, FullFacts DEF SerialInv
        <5> QED
          BY <4>1, <5>1
      <4>3. CheckSummed(0)
        BY <4>1, <4>2
      <4>4. Wire(4) = Xor(Xor(Wire(1), Wire(2)), Wire(3))
        BY <4>3 DEF CheckSummed
      <4> QED
        BY <2>2, <4>4
    <3>2. CASE errors <= 1
      <4>1. InFlight = 4
        BY <1>1, <3>2, CompleteFacts
      <4>2. \A i \in 1..4 : g[i] = CurrentPacket[i]
        BY <1>1, <2>2, <3>2, <4>1 DEF SerialInv, FlightOK
      <4> QED
        BY <1>1, <4>2, CurrentFacts DEF SerialInv
    <3> QED
      BY <1>1, <3>1, <3>2
  <2>4. ~CheckSumOK
    <3> SUFFICES ASSUME Full[4].val = Xor(Xor(Full[1].val, Full[2].val), Full[3].val)
                 PROVE  FALSE
      BY DEF CheckSumOK, Type, Addr, Data
    <3> QED
      BY <2>2, <2>3, OneByteOff
  <2>5. ~Store /\ ~Jump /\ ~ReadMem
    BY <2>4 DEF Store, Jump, ReadMem
  <2> QED
    BY <1>1, <2>5 DEF Next, Host, Board, HostStart, ReadChunk, WriteWord, WriteJump, WriteByte,
       ReadUntilProc, BoardStart, Getc, Refuse, vars, boardVars
<1>2. SerialInv /\ [Next]_vars =>
        [(lost = 0 \/ errors <= 1) /\ Complete /\ Cardinality(Damaged) = 1 =>
           UNCHANGED <<mem, entry>>]_vars
  BY <1>1
<1> QED
  BY <1>2, SerialInvHolds, PTL DEF Spec, SingleErrorHarmless

=============================================================================
