---------------------------- MODULE SMemoryProofs ----------------------------
(***************************************************************************)
(* Proofs about the heap, for any number of processes, any size of heap    *)
(* and any requests: HeapInv and NoLoss are invariants of SMemory, and     *)
(* SMemory implements AbstractHeap.                                        *)
(***************************************************************************)
EXTENDS SMemory, TLAPS, SequenceTheorems, NatLemmas

-----------------------------------------------------------------------------
(* The operators of the allocator                                           *)

\* A multiple of 16 is even.
LEMMA EvenFacts ==
  ASSUME NEW n \in Nat, n % 16 = 0
  PROVE  n % 2 = 0 /\ (n + 1) % 2 = 1
<1>1. n = 16 * (n \div 16) /\ n \div 16 \in Nat
  OBVIOUS
<1>2. ASSUME NEW k \in Nat, n = 16 * k PROVE n % 2 = 0 /\ (n + 1) % 2 = 1
  BY <1>2
<1> QED
  BY <1>1, <1>2

\* A request is rounded up to more than it asks for, in units of 16 bytes.
LEMMA RoundUpFacts ==
  ASSUME NEW n \in Nat
  PROVE  RoundUp(n) \in Nat /\ n < RoundUp(n) /\ RoundUp(n) % 16 = 0 /\ RoundUp(n) >= 16
BY DEF RoundUp

\* Flipping bit 0 of a size word marks or unmarks it and leaves the size as it is.
LEMMA ToggledFacts ==
  ASSUME NEW w \in Nat
  PROVE  /\ toggled(w) \in Nat
         /\ toggled(w) % 2 = 0 <=> w % 2 # 0
         /\ toggled(w) - (toggled(w) % 2) = w - (w % 2)
BY DEF toggled

\* insert_new_block of an address that is not on the list.
LEMMA InsertFacts ==
  ASSUME list \in Seq(Nat), IsInjective(list), NEW b \in Nat, b \notin Range(list)
  PROVE  /\ <<b>> \o list \in Seq(Nat)
         /\ IsInjective(<<b>> \o list)
         /\ Range(<<b>> \o list) = Range(list) \cup {b}
<1> DEFINE l == <<b>> \o list
<1>1. Len(list) \in Nat /\ DOMAIN list = 1..Len(list)
  BY LenProperties
<1>2. <<b>> \in Seq(Nat) /\ Len(<<b>>) = 1 /\ <<b>>[1] = b
  OBVIOUS
<1>3. /\ l \in Seq(Nat) /\ Len(l) = 1 + Len(list) /\ DOMAIN l = 1..Len(l)
      /\ l[1] = b /\ \A i \in 1..Len(list) : l[i + 1] = list[i]
  BY <1>1, <1>2, ConcatProperties, LenProperties
<1>4. \A i \in DOMAIN l : i = 1 \/ (i - 1 \in DOMAIN list /\ l[i] = list[i - 1])
  BY <1>1, <1>3
<1>5. \A i \in DOMAIN list : i + 1 \in DOMAIN l /\ l[i + 1] = list[i]
  BY <1>1, <1>3
<1>6. Range(l) = Range(list) \cup {b}
  <2>1. \A x \in Range(l) : x \in Range(list) \cup {b}
    BY <1>3, <1>4 DEF Range
  <2>2. \A x \in Range(list) : x \in Range(l)
    BY <1>5 DEF Range
  <2>3. b \in Range(l)
    BY <1>1, <1>3 DEF Range
  <2> QED
    BY <2>1, <2>2, <2>3
<1>7. ASSUME NEW i \in DOMAIN l, NEW j \in DOMAIN l, l[i] = l[j] PROVE i = j
  <2>1. \A k \in DOMAIN l : k # 1 => k - 1 \in DOMAIN list /\ l[k] \in Range(list)
    BY <1>4 DEF Range
  <2>2. CASE i = 1 \/ j = 1
    BY <1>3, <1>7, <2>1, <2>2
  <2>3. CASE i # 1 /\ j # 1
    <3>1. list[i - 1] = list[j - 1] /\ i - 1 \in DOMAIN list /\ j - 1 \in DOMAIN list
      BY <1>4, <1>7, <2>3
    <3>2. i - 1 = j - 1
      BY <3>1 DEF IsInjective
    <3> QED
      BY <1>1, <1>3, <3>2
  <2> QED
    BY <2>2, <2>3
<1> QED
  BY <1>3, <1>6, <1>7 DEF IsInjective

-----------------------------------------------------------------------------
(* What the variables hold                                                  *)

\* The parts of TypeOK, with the fields of each point a process can be at.
LEMMA TypeFacts ==
  ASSUME TypeOK
  PROVE  /\ list \in Seq(Nat) /\ IsInjective(list)
         /\ DOMAIN size = Range(list) /\ DOMAIN size \subseteq Nat
         /\ \A b \in DOMAIN size : size[b] \in Nat
         /\ current \in Procs /\ irq \in BOOLEAN
         /\ \A a \in live : a.at \in Nat /\ a.len \in Requests /\ a.len \in Nat
<1>1. \A x \in Range(list) : x \in Nat
  BY LenProperties, ElementOfSeq DEF TypeOK, Range
<1> QED
  BY <1>1, HeapAssumption DEF TypeOK

\* Where a process is, and the locals it has there.
LEMMA CallFacts ==
  ASSUME TypeOK, NEW p \in Procs
  PROVE  /\ call[p] \in Calls
         /\ call[p].at \in {"none", "search", "found", "loaded"}
         /\ call[p].at \in {"search", "found"} =>
              call[p].len \in Requests /\ call[p].prev_level \in BOOLEAN
         /\ call[p].at \in {"found", "loaded"} => call[p].block \in DOMAIN size
         /\ call[p].at = "loaded" => call[p].word \in Nat
<1>1. call[p] \in Calls
  BY DEF TypeOK
<1> QED
  BY <1>1 DEF Calls, Idle

\* The calls stay typed when the running process goes on and no block disappears.
LEMMA GoesFacts ==
  ASSUME TypeOK, NEW c, c \in Calls', Goes(c), DOMAIN size \subseteq DOMAIN size'
  PROVE  /\ call' \in [Procs -> Calls']
         /\ call'[current] = c
         /\ \A p \in Procs \ {current} : call'[p] = call[p]
<1>1. Calls \subseteq Calls'
  BY DEF Calls
<1> QED
  BY <1>1 DEF Goes, TypeOK

-----------------------------------------------------------------------------
(* Blocks                                                                   *)

\* Capacity, of a block of the heap.
LEMMA BlockFacts ==
  ASSUME TypeOK, Tiling, NEW b \in DOMAIN size
  PROVE  /\ b \in Nat /\ size[b] \in Nat /\ Capacity(b) \in Nat
         /\ b % 16 = 0 /\ Capacity(b) % 16 = 0
         /\ Capacity(b) <= size[b] /\ (is_free(b) => Capacity(b) = size[b])
         /\ End(b) = b + 16 + Capacity(b)
         /\ HeapStart <= b /\ End(b) <= HeapStart + HeapSize
         /\ \A c \in DOMAIN size : b < c => End(b) <= c
BY TypeFacts DEF Capacity, End, Header, is_free, Tiling

\* Flipping the bit of one word: the blocks are what they were.
LEMMA ToggleBlocks ==
  ASSUME TypeOK, Tiling, NEW b \in DOMAIN size, NEW w \in Nat, w = size[b],
         size' = [size EXCEPT ![b] = toggled(w)], list' = list
  PROVE  /\ list' \in Seq(Nat) /\ size' \in [Range(list') -> Nat] /\ IsInjective(list')
         /\ DOMAIN size' = DOMAIN size
         /\ \A c \in DOMAIN size : Capacity(c)' = Capacity(c)
         /\ \A c \in DOMAIN size \ {b} : size'[c] = size[c]
         /\ is_free(b)' <=> ~is_free(b)
         /\ Tiling'
<1>1. /\ DOMAIN size' = DOMAIN size /\ size' \in [Range(list') -> Nat]
      /\ size'[b] = toggled(w) /\ \A c \in DOMAIN size \ {b} : size'[c] = size[c]
  BY ToggledFacts DEF TypeOK
<1>2. \A c \in DOMAIN size : Capacity(c)' = Capacity(c)
  <2>1. Capacity(b)' = Capacity(b)
    BY <1>1, ToggledFacts DEF Capacity
  <2> QED
    BY <1>1, <2>1 DEF Capacity
<1>4. is_free(b)' <=> ~is_free(b)
  BY <1>1, ToggledFacts DEF is_free
<1>5. Tiling'
  BY <1>1, <1>2 DEF Tiling, End
<1> QED
  BY <1>1, <1>2, <1>4, <1>5 DEF TypeOK

\* split cuts the new block out of the bytes of the block, which keeps the rest.
LEMMA SplitBlocks ==
  ASSUME TypeOK, Tiling, NEW b \in DOMAIN size, is_free(b), NEW req \in Nat,
         req % 16 = 0, LeavesBlock(b, req), Split(b, req)
  PROVE  /\ NewBlock(b, req) \in Nat \ DOMAIN size
         /\ list' \in Seq(Nat) /\ size' \in [Range(list') -> Nat] /\ IsInjective(list')
         /\ DOMAIN size' = DOMAIN size \cup {NewBlock(b, req)}
         /\ \A c \in DOMAIN size \ {b} : size'[c] = size[c]
         /\ Capacity(b)' = req /\ ~is_free(b)' /\ is_free(NewBlock(b, req))'
         /\ Tiling'
<1> DEFINE new == NewBlock(b, req)
<1>1. /\ b \in Nat /\ size[b] \in Nat /\ b % 16 = 0 /\ size[b] % 16 = 0
      /\ End(b) = b + 16 + size[b] /\ size[b] >= req + 32
  BY BlockFacts DEF LeavesBlock, Header
<1>2. new = b + 16 + req /\ new \in Nat /\ new % 16 = 0 /\ b < new /\ new < End(b)
  BY <1>1 DEF NewBlock, Header
<1>e. req % 2 = 0 /\ (req + 1) % 2 = 1
  BY EvenFacts
<1>3. \A c \in DOMAIN size : c # b => (c < b /\ End(c) <= b) \/ (b < c /\ End(b) <= c)
  BY <1>1, BlockFacts
<1>4. new \notin DOMAIN size
  BY <1>2, <1>3, BlockFacts
<1>5. /\ list' \in Seq(Nat) /\ IsInjective(list') /\ Range(list') = DOMAIN size \cup {new}
  BY <1>2, <1>4, InsertFacts, TypeFacts DEF Split
<1>6. /\ DOMAIN size' = DOMAIN size \cup {new}
      /\ size'[new] = size[b] - req - 32 /\ size'[b] = req + 1
      /\ \A c \in DOMAIN size \ {b} : size'[c] = size[c]
  <2>1. size' = [c \in DOMAIN size \cup {new} |->
                   CASE c = new -> (size[b] - req - Header) - Header
                     [] c = b -> toggled(req)
                     [] OTHER -> size[c]]
    BY DEF Split
  <2>2. size'[b] = toggled(req) /\ toggled(req) = req + 1
    BY <1>e, <1>2, <2>1 DEF toggled
  <2>3. size'[new] = size[b] - req - 32
    <3>1. size'[new] = (size[b] - req - Header) - Header
      BY <1>1, <1>2, <2>1
    <3> QED
      BY <1>1, <3>1 DEF Header
  <2>4. \A c \in DOMAIN size \ {b} : size'[c] = size[c]
    BY <1>4, <2>1
  <2> QED
    BY <2>1, <2>2, <2>3, <2>4
<1>7. size' \in [Range(list') -> Nat]
  <2>1. ASSUME NEW c \in DOMAIN size' PROVE size'[c] \in Nat
    <3>1. size[b] - req - 32 \in Nat
      BY <1>1
    <3>2. CASE c = b \/ c = new
      BY <1>6, <3>1, <3>2
    <3>3. CASE c \in DOMAIN size \ {b}
      BY <1>6, <3>3, TypeFacts
    <3> QED
      BY <1>6, <3>2, <3>3
  <2>2. size' = [c \in DOMAIN size' |-> size'[c]]
    BY DEF Split
  <2> QED
    BY <1>5, <1>6, <2>1, <2>2
<1>8. \A c \in DOMAIN size \ {b} : Capacity(c)' = Capacity(c)
  BY <1>6 DEF Capacity
<1>9. Capacity(b)' = req /\ ~is_free(b)' /\ End(b)' = new
  <2>1. size'[b] % 2 = 1
    BY <1>e, <1>6
  <2>2. Capacity(b)' = req /\ ~is_free(b)'
    BY <1>6, <2>1 DEF Capacity, is_free
  <2> QED
    BY <1>1, <1>2, <2>2 DEF End, Header
<1>10. /\ Capacity(new)' = size[b] - req - 32 /\ is_free(new)'
       /\ End(new)' = b + size[b] /\ Capacity(new)' % 16 = 0
  <2>1. size[b] - req - 32 \in Nat /\ (size[b] - req - 32) % 16 = 0
    BY <1>1
  <2>2. (size[b] - req - 32) % 2 = 0
    BY <2>1, EvenFacts
  <2>3. Capacity(new)' = size[b] - req - 32 /\ is_free(new)'
    BY <1>1, <1>6, <2>1, <2>2 DEF Capacity, is_free
  <2> QED
    BY <1>1, <1>2, <2>1, <2>3 DEF End, Header
<1>11. \A c \in DOMAIN size \ {b} : End(c)' = End(c)
  BY <1>8 DEF End
<1>12. Tiling'
  <2>1. ASSUME NEW c \in DOMAIN size'
        PROVE  /\ c % 16 = 0 /\ Capacity(c)' % 16 = 0
               /\ HeapStart <= c /\ End(c)' <= HeapStart + HeapSize
    <3>1. CASE c = new
      BY <1>1, <1>2, <1>10, <3>1, BlockFacts, HeapAssumption
    <3>2. CASE c = b
      BY <1>1, <1>2, <1>9, <3>2, BlockFacts, HeapAssumption
    <3>3. CASE c \in DOMAIN size \ {b}
      BY <1>8, <1>11, <3>3, BlockFacts
    <3> QED
      BY <1>6, <3>1, <3>2, <3>3
  <2>2. ASSUME NEW c \in DOMAIN size', NEW d \in DOMAIN size', c < d
        PROVE  End(c)' <= d
    <3>1. CASE c = new
      <4>1. d \in DOMAIN size \ {b} /\ b < d
        BY <1>1, <1>2, <1>6, <2>2, <3>1, TypeFacts
      <4>2. End(b) <= d
        BY <1>1, <1>3, <4>1, TypeFacts
      <4> QED
        BY <1>1, <1>10, <3>1, <4>1, <4>2, TypeFacts
    <3>2. CASE c = b
      <4>1. CASE d = new
        BY <1>2, <1>9, <3>2, <4>1
      <4>2. CASE d # new
        <5>1. d \in DOMAIN size \ {b} /\ b < d
          BY <1>6, <2>2, <3>2, <4>2, TypeFacts
        <5>2. End(b) <= d
          BY <1>1, <1>3, <5>1, TypeFacts
        <5> QED
          BY <1>1, <1>2, <1>9, <3>2, <5>1, <5>2, TypeFacts
      <4> QED
        BY <4>1, <4>2
    <3>3. CASE c \in DOMAIN size \ {b} /\ d = new
      BY <1>1, <1>2, <1>3, <1>11, <2>2, <3>3, BlockFacts
    <3>4. CASE c \in DOMAIN size \ {b} /\ d \in DOMAIN size
      BY <1>11, <2>2, <3>4, BlockFacts
    <3> QED
      BY <1>6, <3>1, <3>2, <3>3, <3>4
  <2> QED
    BY <2>1, <2>2 DEF Tiling
<1> QED
  BY <1>2, <1>4, <1>5, <1>6, <1>7, <1>9, <1>10, <1>12

-----------------------------------------------------------------------------

-----------------------------------------------------------------------------
(* The steps keep HeapInv                                                   *)

\* A step that neither writes a block, nor hands one out, nor loads or stores the
\* word of one that is freed.
LEMMA QuietLemma ==
  ASSUME HeapInv, list' = list, size' = size, live' = live,
         current' \in Procs, irq' \in BOOLEAN, call' \in [Procs -> Calls'], SearchOK',
         \A p \in Procs : \/ call'[p] = call[p]
                          \/ call[p].at # "loaded" /\ call'[p].at # "loaded"
  PROVE  HeapInv'
<1>1. TypeOK'
  BY DEF HeapInv, TypeOK
<1>2. Tiling'
  BY DEF HeapInv, Tiling, End, Capacity
<1>3. \A p \in Procs : /\ call'[p].at = "loaded" <=> call[p].at = "loaded"
                       /\ call'[p].at = "loaded" => call'[p] = call[p]
  OBVIOUS
<1>4. MarkedIffHeld'
  BY <1>3 DEF HeapInv, MarkedIffHeld, is_free
<1>5. LiveOK'
  BY DEF HeapInv, LiveOK, Capacity
<1>6. FreeingOK'
  BY <1>3 DEF HeapInv, FreeingOK
<1> QED
  BY <1>1, <1>2, <1>4, <1>5, <1>6 DEF HeapInv

\* salloc enters, and masks IRQs.
LEMMA SallocInv == ASSUME HeapInv, NEW n \in Requests, Salloc(n) PROVE HeapInv'
<1> DEFINE c == [at |-> "search", len |-> n, prev_level |-> irq]
<1>1. /\ TypeOK /\ current \in Procs /\ irq \in BOOLEAN
      /\ call[current].at = "none" /\ irq' = FALSE /\ Goes(c)
      /\ list' = list /\ size' = size /\ current' = current /\ live' = live
  BY TypeFacts DEF HeapInv, Salloc, InCall, heapVars
<1>2. c \in Calls' /\ c.at = "search"
  BY <1>1 DEF Calls
<1>3. /\ call' \in [Procs -> Calls'] /\ call'[current] = c
      /\ \A p \in Procs \ {current} : call'[p] = call[p]
  BY <1>1, <1>2, GoesFacts
<1>4. SearchOK'
  BY <1>1, <1>2, <1>3 DEF HeapInv, SearchOK
<1> QED
  BY <1>1, <1>2, <1>3, <1>4, QuietLemma

\* salloc searches: nothing fits, or it has found a free block that is large enough.
LEMMA SearchInv == ASSUME HeapInv, SallocSearch PROVE HeapInv'
<1>1. /\ TypeOK /\ current \in Procs /\ call[current].at = "search" /\ irq \in BOOLEAN
      /\ list' = list /\ size' = size /\ current' = current /\ live' = live
  BY TypeFacts DEF HeapInv, SallocSearch, InCall, heapVars, SearchOK
<1>2. call[current].len \in Requests /\ call[current].prev_level \in BOOLEAN
  BY <1>1, CallFacts
<1>3. CASE irq' = call[current].prev_level /\ Goes(Idle)
  <2>1. Idle \in Calls' /\ Idle.at = "none"
    BY DEF Calls, Idle
  <2>2. /\ call' \in [Procs -> Calls'] /\ call'[current] = Idle
        /\ \A p \in Procs \ {current} : call'[p] = call[p]
    BY <1>1, <1>3, <2>1, GoesFacts
  <2>3. SearchOK'
    BY <1>1, <2>1, <2>2 DEF HeapInv, SearchOK
  <2> QED
    BY <1>1, <1>2, <1>3, <2>1, <2>2, <2>3, QuietLemma
<1>4. ASSUME NEW i \in DOMAIN list, Fits(list[i]), irq' = irq,
             Goes([at |-> "found", block |-> list[i], len |-> call[current].len,
                   prev_level |-> call[current].prev_level])
      PROVE  HeapInv'
  <2> DEFINE c == [at |-> "found", block |-> list[i], len |-> call[current].len,
                   prev_level |-> call[current].prev_level]
  <2>1. list[i] \in DOMAIN size
    BY <1>1, TypeFacts DEF Range
  <2>2. c \in Calls' /\ c.at = "found" /\ c.block = list[i] /\ c.len = call[current].len
    BY <1>1, <1>2, <2>1 DEF Calls
  <2>3. /\ call' \in [Procs -> Calls'] /\ call'[current] = c
        /\ \A p \in Procs \ {current} : call'[p] = call[p]
    BY <1>1, <1>4, <2>2, GoesFacts
  <2>4. is_free(c.block)' /\ size'[c.block] >= RoundUp(c.len)
    BY <1>1, <1>4, <2>2 DEF Fits, is_free
  <2>5. SearchOK'
    BY <1>1, <1>4, <2>2, <2>3, <2>4 DEF HeapInv, SearchOK, is_free
  <2>6. \A p \in Procs : \/ call'[p] = call[p]
                         \/ call[p].at # "loaded" /\ call'[p].at # "loaded"
    BY <1>1, <2>2, <2>3
  <2> QED
    BY <1>1, <1>4, <2>3, <2>5, <2>6, QuietLemma
<1> QED
  BY <1>3, <1>4 DEF SallocSearch

\* Another process runs; or a process changes its level outside the allocator.
LEMMA SwitchInv ==
  ASSUME HeapInv,
         \/ \E p \in Procs : Preempt(p) \/ GiveUp(p)
         \/ \E level \in BOOLEAN : SetLevel(level)
  PROVE  HeapInv'
<1>1. /\ TypeOK /\ current \in Procs /\ irq \in BOOLEAN
      /\ list' = list /\ size' = size /\ live' = live /\ call' = call
      /\ current' \in Procs /\ irq' \in BOOLEAN
  BY TypeFacts DEF HeapInv, Preempt, GiveUp, SetLevel, heapVars
<1>2. \A p \in Procs : call[p].at \notin {"search", "found"}
  BY DEF HeapInv, SearchOK, Preempt, GiveUp, SetLevel, InCall
<1>3. call' \in [Procs -> Calls'] /\ SearchOK'
  BY <1>1, <1>2 DEF TypeOK, Calls, SearchOK
<1> QED
  BY <1>1, <1>3, QuietLemma

\* salloc takes the block it has found, split or whole: the block is marked and
\* large enough, and a new block, if there is one, is free.
LEMMA TakeBlocks ==
  ASSUME HeapInv, SallocTake,
         NEW b, b = call[current].block, NEW n, n = call[current].len
  PROVE  /\ b \in DOMAIN size /\ is_free(b)
         /\ n < Capacity(b)' /\ ~is_free(b)'
         /\ list' \in Seq(Nat) /\ size' \in [Range(list') -> Nat] /\ IsInjective(list')
         /\ DOMAIN size \subseteq DOMAIN size'
         /\ \A c \in DOMAIN size \ {b} : size'[c] = size[c]
         /\ \A c \in DOMAIN size' \ DOMAIN size : is_free(c)'
         /\ Tiling'
<1> DEFINE req == RoundUp(n)
<1>1. /\ TypeOK /\ Tiling /\ current \in Procs /\ call[current].at = "found"
      /\ b \in DOMAIN size /\ is_free(b) /\ size[b] >= req /\ n \in Nat
  BY TypeFacts, CallFacts, HeapAssumption DEF HeapInv, SearchOK, SallocTake, InCall
<1>2. req \in Nat /\ n < req /\ req % 16 = 0
  BY <1>1, RoundUpFacts
<1>3. CASE LeavesBlock(b, req) /\ Split(b, req)
  <2>1. /\ list' \in Seq(Nat) /\ size' \in [Range(list') -> Nat] /\ IsInjective(list')
        /\ DOMAIN size' = DOMAIN size \cup {NewBlock(b, req)}
        /\ \A c \in DOMAIN size \ {b} : size'[c] = size[c]
        /\ Capacity(b)' = req /\ ~is_free(b)' /\ Tiling'
    BY <1>1, <1>2, <1>3, SplitBlocks
  <2>2. size'[NewBlock(b, req)] % 2 = 0
    BY <1>1, <1>2, <1>3, SplitBlocks DEF is_free
  <2>3. \A c \in DOMAIN size' \ DOMAIN size : is_free(c)'
    BY <2>1, <2>2 DEF is_free
  <2> QED
    BY <1>1, <1>2, <2>1, <2>3
<1>4. CASE size' = [size EXCEPT ![b] = toggled(@)] /\ list' = list
  <2>1. size[b] \in Nat /\ size' = [size EXCEPT ![b] = toggled(size[b])]
    BY <1>1, <1>4, TypeFacts
  <2>2. Capacity(b) = size[b] /\ Capacity(b)' = Capacity(b)
    BY <1>1, <1>4, <2>1, ToggleBlocks, BlockFacts
  <2>3. /\ list' \in Seq(Nat) /\ size' \in [Range(list') -> Nat] /\ IsInjective(list')
        /\ DOMAIN size' = DOMAIN size
        /\ \A c \in DOMAIN size \ {b} : size'[c] = size[c]
        /\ ~is_free(b)' /\ Tiling'
    BY <1>1, <1>4, <2>1, ToggleBlocks
  <2>4. n < Capacity(b)'
    BY <1>1, <1>2, <2>1, <2>2
  <2> QED
    BY <1>1, <2>3, <2>4
<1> QED
  BY <1>3, <1>4 DEF SallocTake

\* salloc returns the block it has found.
LEMMA TakeInv == ASSUME HeapInv, SallocTake PROVE HeapInv'
<1> SUFFICES ASSUME NEW b, b = call[current].block, NEW n, n = call[current].len,
                    NEW new, new = [at |-> b + Header, len |-> n]
             PROVE  HeapInv'
  OBVIOUS
<1>1. /\ TypeOK /\ Tiling /\ MarkedIffHeld /\ SearchOK /\ LiveOK /\ FreeingOK
      /\ current \in Procs /\ call[current].at = "found" /\ n \in Requests /\ n \in Nat
      /\ Goes(Idle) /\ live' = live \cup {new} /\ current' = current /\ irq' = irq
  BY TypeFacts, CallFacts, HeapAssumption DEF HeapInv, SallocTake, InCall
<1>2. /\ b \in DOMAIN size /\ is_free(b) /\ b \in Nat
      /\ n < Capacity(b)' /\ ~is_free(b)'
      /\ DOMAIN size \subseteq DOMAIN size'
      /\ \A c \in DOMAIN size \ {b} : size'[c] = size[c]
      /\ \A c \in DOMAIN size' \ DOMAIN size : is_free(c)'
      /\ Tiling' /\ DOMAIN size' \subseteq Nat
  <2>1. list' \in Seq(Nat) /\ DOMAIN size' = Range(list')
    BY TakeBlocks
  <2>2. DOMAIN size' \subseteq Nat
    BY <2>1, LenProperties, ElementOfSeq DEF Range
  <2> QED
    BY <1>1, <2>2, TakeBlocks, TypeFacts
<1>3. /\ call' \in [Procs -> Calls'] /\ call'[current] = Idle /\ Idle.at = "none"
      /\ \A p \in Procs \ {current} : call'[p] = call[p]
  BY <1>1, <1>2, GoesFacts DEF Calls, Idle
<1>4. \A p \in Procs : /\ call'[p].at = "loaded" <=> call[p].at = "loaded"
                       /\ call'[p].at = "loaded" => call'[p] = call[p]
  BY <1>1, <1>3
<1>5. new.at = b + 16 /\ new.len = n /\ new \in [at : Nat, len : Requests]
  BY <1>1, <1>2 DEF Header
<1>6. TypeOK'
  BY <1>1, <1>3, <1>5, TakeBlocks DEF TypeOK
<1>7. \A a \in live : /\ a.at \in Nat /\ a.at - 16 \in DOMAIN size \ {b}
                      /\ a.len < Capacity(a.at - 16) /\ Capacity(a.at - 16)' = Capacity(a.at - 16)
  <2>1. \A a \in live : a.at \in Nat /\ a.at - 16 \in DOMAIN size /\ a.len < Capacity(a.at - 16)
    BY <1>1, TypeFacts DEF LiveOK, Header
  <2>2. \A a \in live : a.at # b + 16
    BY <1>1, <1>2 DEF MarkedIffHeld, Header
  <2>3. \A a \in live : a.at - 16 # b
    BY <1>2, <2>1, <2>2
  <2> QED
    BY <1>2, <2>1, <2>3 DEF Capacity
<1>8. LiveOK'
  <2>1. \A a \in live' : a.at - Header \in DOMAIN size' /\ a.len < Capacity(a.at - Header)'
    <3>1. ASSUME NEW a \in live
          PROVE  a.at - Header \in DOMAIN size' /\ a.len < Capacity(a.at - Header)'
      BY <1>2, <1>7 DEF Header
    <3>2. new.at - 16 = b
      BY <1>2, <1>5
    <3> QED
      BY <1>1, <1>2, <1>5, <3>1, <3>2 DEF Header
  <2>2. \A a \in live : a.at # new.at
    BY <1>2, <1>5, <1>7
  <2> QED
    BY <1>1, <2>1, <2>2 DEF LiveOK
<1>9. \A p \in Procs : call[p].at = "loaded" =>
        call[p].block \in DOMAIN size \ {b} /\ size'[call[p].block] = size[call[p].block]
  BY <1>1, <1>2, CallFacts DEF MarkedIffHeld
<1>10. FreeingOK'
  <2>1. \A p \in Procs : call[p].at = "loaded" => new.at # call[p].block + Header
    <3>1. ASSUME NEW p \in Procs, call[p].at = "loaded" PROVE call[p].block # b /\ call[p].block \in Nat
      BY <1>9, <3>1, TypeFacts, <1>1
    <3> QED
      BY <1>2, <1>5, <3>1 DEF Header
  <2>2. \A p \in Procs : call'[p].at = "loaded" => call'[p].word = size'[call'[p].block]
    BY <1>1, <1>4, <1>9 DEF FreeingOK
  <2>3. \A p \in Procs : call'[p].at = "loaded" => \A a \in live' : a.at # call'[p].block + Header
    BY <1>1, <1>4, <2>1 DEF FreeingOK
  <2>4. \A p \in Procs : call'[p].at = "loaded" =>
          \A q \in Procs : call'[q].at = "loaded" /\ call'[q].block = call'[p].block => q = p
    BY <1>1, <1>4 DEF FreeingOK
  <2> QED
    BY <2>2, <2>3, <2>4 DEF FreeingOK
<1>11. SearchOK'
  BY <1>1, <1>3 DEF SearchOK
<1>12. MarkedIffHeld'
  <2> SUFFICES ASSUME NEW c \in DOMAIN size'
               PROVE  ~is_free(c)' <=> \/ \E a \in live' : a.at = c + 16
                                       \/ \E p \in Procs : /\ call'[p].at = "loaded"
                                                           /\ call'[p].block = c
    BY DEF MarkedIffHeld, Header
  <2>1. CASE c = b
    BY <1>1, <1>2, <1>5, <2>1
  <2>2. CASE c \in DOMAIN size \ {b}
    <3>1. new.at # c + 16
      BY <1>2, <1>5, <2>2
    <3>2. is_free(c)' <=> is_free(c)
      BY <1>2, <2>2 DEF is_free
    <3> QED
      BY <1>1, <1>4, <2>2, <3>1, <3>2 DEF MarkedIffHeld, Header
  <2>3. CASE c \notin DOMAIN size
    <3>1. new.at # c + 16
      BY <1>2, <1>5, <2>3
    <3>2. \A a \in live : a.at # c + 16
      BY <1>2, <1>7, <2>3
    <3>3. \A p \in Procs : call'[p].at = "loaded" => call'[p].block # c
      BY <1>4, <1>9, <2>3
    <3> QED
      BY <1>1, <1>2, <2>3, <3>1, <3>2, <3>3
  <2> QED
    BY <2>1, <2>2, <2>3
<1> QED
  BY <1>2, <1>6, <1>8, <1>10, <1>11, <1>12 DEF HeapInv

\* sfree takes the allocation from its holder and loads the word of its block.
LEMMA SfreeInv == ASSUME HeapInv, NEW a \in live, Sfree(a) PROVE HeapInv'
<1> SUFFICES ASSUME NEW b, b = a.at - Header,
                    NEW c, c = [at |-> "loaded", block |-> b, word |-> size[b]]
             PROVE  HeapInv'
  OBVIOUS
<1>1. /\ TypeOK /\ Tiling /\ MarkedIffHeld /\ SearchOK /\ LiveOK /\ FreeingOK
      /\ current \in Procs /\ call[current].at = "none" /\ Goes(c)
      /\ live' = live \ {a} /\ list' = list /\ size' = size /\ current' = current /\ irq' = irq
  BY TypeFacts DEF HeapInv, Sfree, InCall, heapVars
<1>2. b \in DOMAIN size /\ a.at \in Nat /\ a.at = b + 16 /\ size[b] \in Nat
  BY <1>1, TypeFacts DEF LiveOK, Header
<1>3. c \in Calls' /\ c.at = "loaded" /\ c.block = b /\ c.word = size[b]
  BY <1>1, <1>2 DEF Calls
<1>4. /\ call' \in [Procs -> Calls'] /\ call'[current] = c
      /\ \A p \in Procs \ {current} : call'[p] = call[p]
  BY <1>1, <1>3, GoesFacts
<1>5. TypeOK' /\ Tiling' /\ SearchOK'
  BY <1>1, <1>3, <1>4 DEF TypeOK, Tiling, End, Capacity, SearchOK, is_free
<1>6. LiveOK'
  BY <1>1 DEF LiveOK, Capacity
<1>7. \A e \in live' : e.at # b + 16
  BY <1>1, <1>2 DEF LiveOK
<1>8. \A p \in Procs \ {current} : call[p].at = "loaded" => call[p].block # b
  BY <1>1, <1>2 DEF FreeingOK, Header
<1>9. FreeingOK'
  BY <1>1, <1>3, <1>4, <1>7, <1>8 DEF FreeingOK, Header
<1>10. MarkedIffHeld'
  <2> SUFFICES ASSUME NEW d \in DOMAIN size
               PROVE  ~is_free(d) <=> \/ \E e \in live' : e.at = d + 16
                                      \/ \E p \in Procs : /\ call'[p].at = "loaded"
                                                          /\ call'[p].block = d
    BY <1>1 DEF MarkedIffHeld, Header, is_free
  <2>1. CASE d = b
    BY <1>1, <1>2, <1>3, <1>4, <2>1 DEF MarkedIffHeld, Header
  <2>2. CASE d # b
    <3>1. d + 16 # a.at
      BY <1>2, <2>2, TypeFacts, <1>1
    <3> QED
      BY <1>1, <1>3, <1>4, <2>2, <3>1 DEF MarkedIffHeld, Header
  <2> QED
    BY <2>1, <2>2
<1> QED
  BY <1>5, <1>6, <1>9, <1>10 DEF HeapInv

\* sfree stores the word of the block with its bit flipped: the block is free.
LEMMA StoreInv == ASSUME HeapInv, SfreeStore PROVE HeapInv'
<1> SUFFICES ASSUME NEW b, b = call[current].block, NEW w, w = call[current].word
             PROVE  HeapInv'
  OBVIOUS
<1>1. /\ TypeOK /\ Tiling /\ MarkedIffHeld /\ SearchOK /\ LiveOK /\ FreeingOK
      /\ current \in Procs /\ call[current].at = "loaded" /\ Goes(Idle)
      /\ size' = [size EXCEPT ![b] = toggled(w)]
      /\ live' = live /\ list' = list /\ current' = current /\ irq' = irq
  BY TypeFacts DEF HeapInv, SfreeStore, InCall
<1>2. b \in DOMAIN size /\ w \in Nat /\ w = size[b] /\ ~is_free(b)
  BY <1>1, CallFacts DEF FreeingOK, MarkedIffHeld
<1>3. /\ list' \in Seq(Nat) /\ size' \in [Range(list') -> Nat] /\ IsInjective(list')
      /\ DOMAIN size' = DOMAIN size
      /\ \A c \in DOMAIN size : Capacity(c)' = Capacity(c)
      /\ \A c \in DOMAIN size \ {b} : size'[c] = size[c]
      /\ is_free(b)' /\ Tiling'
  BY <1>1, <1>2, ToggleBlocks
<1>4. /\ call' \in [Procs -> Calls'] /\ call'[current] = Idle /\ Idle.at = "none"
      /\ \A p \in Procs \ {current} : call'[p] = call[p]
  BY <1>1, <1>3, GoesFacts DEF Calls, Idle
<1>5. TypeOK'
  BY <1>1, <1>3, <1>4 DEF TypeOK
<1>6. \A p \in Procs \ {current} : call[p].at = "loaded" => call[p].block # b
  BY <1>1 DEF FreeingOK
<1>7. \A a \in live : a.at # b + Header
  BY <1>1 DEF FreeingOK
<1>8. LiveOK'
  BY <1>1, <1>3 DEF LiveOK
<1>9. SearchOK'
  BY <1>1, <1>4 DEF SearchOK
<1>10. FreeingOK'
  <2>1. \A p \in Procs : call'[p].at = "loaded" =>
          /\ p # current /\ call'[p] = call[p]
          /\ call[p].block \in DOMAIN size \ {b}
    BY <1>1, <1>4, <1>6, CallFacts
  <2> QED
    BY <1>1, <1>3, <2>1 DEF FreeingOK
<1>11. MarkedIffHeld'
  <2> SUFFICES ASSUME NEW d \in DOMAIN size
               PROVE  ~is_free(d)' <=> \/ \E a \in live : a.at = d + Header
                                       \/ \E p \in Procs : /\ call'[p].at = "loaded"
                                                           /\ call'[p].block = d
    BY <1>1, <1>3 DEF MarkedIffHeld
  <2>1. CASE d = b
    <3>1. \A p \in Procs : call'[p].at = "loaded" => call'[p].block # b
      BY <1>4, <1>6
    <3> QED
      BY <1>3, <1>7, <2>1, <3>1
  <2>2. CASE d # b
    <3>1. is_free(d)' <=> is_free(d)
      BY <1>3, <2>2 DEF is_free
    <3>2. \A p \in Procs : call'[p].at = "loaded" /\ call'[p].block = d
                             <=> call[p].at = "loaded" /\ call[p].block = d
      BY <1>4, <2>2
    <3> QED
      BY <1>1, <3>1, <3>2 DEF MarkedIffHeld
  <2> QED
    BY <2>1, <2>2
<1> QED
  BY <1>3, <1>5, <1>8, <1>9, <1>10, <1>11 DEF HeapInv

-----------------------------------------------------------------------------
(* The theorems                                                             *)

\* init_smemory makes one free block of all of the heap.
LEMMA InitInv == ASSUME Init PROVE HeapInv
<1>1. /\ list \in Seq(Nat) /\ DOMAIN list = {1} /\ list[1] = HeapStart /\ HeapStart \in Nat
  BY HeapAssumption DEF Init
<1>2. IsInjective(list) /\ Range(list) = {HeapStart}
  BY <1>1 DEF IsInjective, Range
<1>3. /\ DOMAIN size = {HeapStart} /\ size[HeapStart] = HeapSize - 16
      /\ HeapSize - 16 \in Nat /\ (HeapSize - 16) % 16 = 0
  BY HeapAssumption DEF Init, Header
<1>4. is_free(HeapStart) /\ Capacity(HeapStart) = HeapSize - 16
  <2>1. (HeapSize - 16) % 2 = 0
    BY <1>3, EvenFacts
  <2> QED
    BY <1>3, <2>1 DEF is_free, Capacity
<1>5. \A p \in Procs : call[p] = Idle /\ Idle.at = "none"
  BY DEF Init, Idle
<1>6. TypeOK
  <2>1. size \in [Range(list) -> Nat]
    BY <1>2, <1>3 DEF Init, Header
  <2> QED
    BY <1>1, <1>2, <2>1 DEF TypeOK, Calls, Init
<1>7. Tiling
  BY <1>1, <1>3, <1>4, HeapAssumption DEF Tiling, End, Header
<1>8. MarkedIffHeld
  BY <1>3, <1>4, <1>5 DEF MarkedIffHeld, Init
<1>9. SearchOK /\ LiveOK /\ FreeingOK
  BY <1>5 DEF SearchOK, LiveOK, FreeingOK, Init
<1> QED
  BY <1>6, <1>7, <1>8, <1>9 DEF HeapInv

\* Every step keeps the invariant.
LEMMA NextInv == ASSUME HeapInv, [Next]_vars PROVE HeapInv'
<1>1. CASE Next
  BY <1>1, SallocInv, SearchInv, TakeInv, SfreeInv, StoreInv, SwitchInv DEF Next
<1>2. CASE UNCHANGED vars
  BY <1>2 DEF vars, heapVars, HeapInv, TypeOK, Calls, Tiling, End, Capacity, MarkedIffHeld,
              is_free, SearchOK, LiveOK, FreeingOK
<1> QED
  BY <1>1, <1>2

\* What the heap looks like whatever processes are preempted in salloc and sfree
\* (smemory.c:51-91).
THEOREM HeapInvHolds == Spec => []HeapInv
<1>1. Init => HeapInv
  BY InitInv
<1>2. HeapInv /\ [Next]_vars => HeapInv'
  BY NextInv
<1> QED
  BY <1>1, <1>2, PTL DEF Spec

\* The blocks are aligned, inside the heap and disjoint, however often they are
\* split (smemory.c:33-41).
THEOREM TilingHolds == Spec => []Tiling
<1>1. HeapInv => Tiling
  BY DEF HeapInv
<1> QED
  BY <1>1, HeapInvHolds, PTL

\* No toggle of a block's bit is lost to a preemption (smemory.c:47-49).
THEOREM MarkedIffHeldHolds == Spec => []MarkedIffHeld
<1>1. HeapInv => MarkedIffHeld
  BY DEF HeapInv
<1> QED
  BY <1>1, HeapInvHolds, PTL

-----------------------------------------------------------------------------
(* The bytes of the list                                                    *)

\* s adds up the first k numbers of w, one after the other.
Adds(s, w, k) ==
  /\ s \in [0..k -> Int] /\ s[0] = 0
  /\ \A n \in 1..k : s[n] = s[n - 1] + w[n]

\* Every sequence of numbers can be added up.
LEMMA AddsExists ==
  ASSUME NEW w \in Seq(Int)
  PROVE  \E s : Adds(s, w, Len(w))
<1> DEFINE L == Len(w)
           To(s, k) == s \in [0..k -> Int] /\ s[0] = 0 /\ \A n \in 1..k : s[n] = s[n - 1] + w[n]
           H == {k \in 0..L : \E s : To(s, k)}
<1>1. L \in Nat /\ \A n \in 1..L : w[n] \in Int
  BY LenProperties, ElementOfSeq
<1> HIDE DEF L
<1>2. 0 \in H
  <2>1. To([n \in 0..0 |-> 0], 0)
    OBVIOUS
  <2> HIDE DEF To
  <2> QED
    BY <1>1, <2>1
<1>3. ASSUME NEW k \in 0..(L - 1), k \in H PROVE k + 1 \in H
  <2>1. PICK s : To(s, k)
    BY <1>3
  <2> DEFINE t == [n \in 0..(k + 1) |-> IF n = k + 1 THEN s[k] + w[k + 1] ELSE s[n]]
  <2>2. k \in Nat /\ k + 1 \in 1..L /\ k + 1 \in 0..L /\ w[k + 1] \in Int /\ s[k] \in Int
    BY <1>1, <2>1
  <2>3. \A n \in 0..k : n \in 0..(k + 1) /\ n # k + 1 /\ s[n] \in Int
    BY <2>1, <2>2
  <2>4. t \in [0..(k + 1) -> Int]
    <3>1. \A n \in 0..(k + 1) : n = k + 1 \/ n \in 0..k
      BY <2>2
    <3> QED
      BY <2>2, <2>3, <3>1
  <2>5. t[k + 1] = s[k] + w[k + 1] /\ \A n \in 0..k : t[n] = s[n]
    BY <2>2, <2>3
  <2>6. ASSUME NEW n \in 1..(k + 1) PROVE t[n] = t[n - 1] + w[n]
    <3>1. CASE n = k + 1
      <4>1. (k + 1) - 1 = k /\ k \in 0..k
        BY <2>2
      <4> HIDE DEF t
      <4> QED
        BY <2>5, <3>1, <4>1
    <3>2. CASE n # k + 1
      <4>1. n \in 1..k /\ n \in 0..k /\ n - 1 \in 0..k
        BY <2>2, <3>2
      <4> HIDE DEF t
      <4> QED
        BY <2>1, <2>5, <4>1
    <3> QED
      BY <3>1, <3>2
  <2>7. t[0] = 0
    <3>1. 0 \in 0..k
      BY <2>2
    <3> HIDE DEF t
    <3> QED
      BY <2>1, <2>5, <3>1
  <2>8. To(t, k + 1)
    <3> HIDE DEF t
    <3> QED
      BY <2>4, <2>6, <2>7
  <2> HIDE DEF To, t
  <2> QED
    BY <2>2, <2>8
<1>4. L \in H
  <2> HIDE DEF H
  <2>1. L \in 0..L
    BY <1>1
  <2> QED
    BY <1>1, <1>2, <1>3, <2>1, UpTo
<1> QED
  BY <1>4 DEF Adds, L

\* Total is where the adding up ends.
LEMMA TotalFacts ==
  ASSUME NEW w \in Seq(Int)
  PROVE  \E s : Adds(s, w, Len(w)) /\ Total(w) = s[Len(w)]
<1> DEFINE L == Len(w)
           R(s) == s = [n \in 0..L |-> IF n = 0 THEN 0 ELSE s[n - 1] + w[n]]
           sum == CHOOSE s : R(s)
<1>1. L \in Nat /\ \A n \in 1..L : w[n] \in Int
  BY LenProperties, ElementOfSeq
<1>2. Total(w) = sum[L]
  BY DEF Total
<1>3. PICK g : Adds(g, w, L)
  BY AddsExists
<1>4. R(g)
  <2>1. \A n \in 0..L : n = 0 \/ n \in 1..L
    BY <1>1
  <2>2. \A n \in 0..L : g[n] = IF n = 0 THEN 0 ELSE g[n - 1] + w[n]
    BY <1>3, <2>1 DEF Adds
  <2>3. g = [n \in 0..L |-> g[n]]
    BY <1>3 DEF Adds
  <2> QED
    BY <2>2, <2>3
<1>5. R(sum)
  <2> HIDE DEF R
  <2> QED
    BY <1>4
<1>6. sum = g
  <2>1. DOMAIN sum = 0..L /\ sum = [n \in 0..L |-> sum[n]]
    <3> HIDE DEF sum
    <3> QED
      BY <1>5
  <2>2. sum[0] = 0 /\ \A n \in 1..L : sum[n] = sum[n - 1] + w[n]
    <3> HIDE DEF sum
    <3>1. 0 \in 0..L /\ \A n \in 1..L : n \in 0..L /\ n # 0
      BY <1>1
    <3> QED
      BY <1>5, <3>1
  <2> HIDE DEF sum, L
  <2> DEFINE H == {n \in 0..L : sum[n] = g[n]}
  <2>3. 0 \in H
    BY <1>1, <1>3, <2>2 DEF Adds
  <2>4. ASSUME NEW n \in 0..(L - 1), n \in H PROVE n + 1 \in H
    <3>1. n + 1 \in 1..L /\ (n + 1) - 1 = n /\ n + 1 \in 0..L
      BY <1>1
    <3>2. sum[n + 1] = sum[n] + w[n + 1] /\ g[n + 1] = g[n] + w[n + 1]
      BY <1>3, <2>2, <3>1 DEF Adds, L
    <3> QED
      BY <2>4, <3>1, <3>2
  <2>5. \A n \in 0..L : n \in H
    <3> HIDE DEF H
    <3> QED
      BY <1>1, <2>3, <2>4, UpTo
  <2> QED
    BY <1>3, <2>1, <2>5 DEF Adds, L
<1> QED
  BY <1>2, <1>3, <1>6

\* The sums s of w and t of v, where v has another number in front of those of w
\* and d taken off one of them.
LEMMA SumsInsert ==
  ASSUME NEW L \in Nat, NEW w, NEW v, NEW s, NEW t, Adds(s, w, L), Adds(t, v, L + 1),
         NEW i \in 1..L, NEW d \in Int,
         \A n \in 1..L : w[n] \in Int, v[1] \in Int, v[i + 1] = w[i] - d,
         \A n \in 1..L : n # i => v[n + 1] = w[n]
  PROVE  t[L + 1] = s[L] + v[1] - d
<1>s. /\ s[0] = 0 /\ (\A n \in 0..L : s[n] \in Int)
      /\ \A n \in 1..L : s[n] = s[n - 1] + w[n]
  BY DEF Adds
<1>t. /\ t[0] = 0 /\ (\A n \in 0..(L + 1) : t[n] \in Int)
      /\ \A n \in 1..(L + 1) : t[n] = t[n - 1] + v[n]
  BY DEF Adds
<1> DEFINE H == {n \in 0..L : /\ n >= i => t[n + 1] = s[n] + v[1] - d
                              /\ n < i => t[n + 1] = s[n] + v[1]}
<1>1. 0 \in H
  <2>1. t[1] = t[1 - 1] + v[1] /\ 1 - 1 = 0 /\ 0 \in 0..L /\ ~(0 >= i)
    BY <1>t
  <2>2. t[0 + 1] = s[0] + v[1]
    BY <1>s, <1>t, <2>1
  <2> QED
    BY <2>1, <2>2
<1>2. ASSUME NEW n \in 0..(L - 1), n \in H PROVE n + 1 \in H
  <2>1. /\ n + 1 \in 1..L /\ (n + 1) - 1 = n /\ n + 1 \in 0..L /\ n \in 0..L
        /\ (n + 1) + 1 \in 1..(L + 1) /\ ((n + 1) + 1) - 1 = n + 1 /\ n + 1 \in 0..(L + 1)
    OBVIOUS
  <2>2. s[n + 1] = s[n] + w[n + 1] /\ t[(n + 1) + 1] = t[n + 1] + v[(n + 1) + 1]
    BY <1>s, <1>t, <2>1
  <2>3. s[n] \in Int /\ s[n + 1] \in Int /\ t[n + 1] \in Int /\ w[n + 1] \in Int
    BY <1>s, <1>t, <2>1
  <2>4. CASE n + 1 = i
    <3>1. v[(n + 1) + 1] = w[n + 1] - d /\ t[n + 1] = s[n] + v[1] /\ n + 1 >= i
      BY <1>2, <2>1, <2>4
    <3>2. t[(n + 1) + 1] = s[n + 1] + v[1] - d
      BY <2>2, <2>3, <3>1
    <3> QED
      BY <2>1, <3>1, <3>2
  <2>5. CASE n + 1 > i
    <3>1. v[(n + 1) + 1] = w[n + 1] /\ t[n + 1] = s[n] + v[1] - d
      BY <1>2, <2>1, <2>5
    <3>2. t[(n + 1) + 1] = s[n + 1] + v[1] - d
      BY <2>2, <2>3, <3>1
    <3> QED
      BY <2>1, <2>5, <3>2
  <2>6. CASE n + 1 < i
    <3>1. v[(n + 1) + 1] = w[n + 1] /\ t[n + 1] = s[n] + v[1]
      BY <1>2, <2>1, <2>6
    <3>2. t[(n + 1) + 1] = s[n + 1] + v[1]
      BY <2>2, <2>3, <3>1
    <3> QED
      BY <2>1, <2>6, <3>2
  <2> QED
    BY <2>1, <2>4, <2>5, <2>6
<1>3. L \in H
  <2> HIDE DEF H
  <2>1. L \in 0..L
    OBVIOUS
  <2> QED
    BY <1>1, <1>2, <2>1, UpTo
<1> QED
  BY <1>3

\* The lengths of the blocks of list l whose size words are z.
Spans(l, z) == [i \in DOMAIN l |-> 16 + (z[l[i]] - (z[l[i]] % 2))]

\* The length of each block is a number, for any list and size words.
LEMMA LengthsFacts ==
  ASSUME NEW l \in Seq(Nat), NEW z \in [Range(l) -> Nat]
  PROVE  /\ Len(l) \in Nat /\ DOMAIN l = 1..Len(l)
         /\ Spans(l, z) \in Seq(Int) /\ Len(Spans(l, z)) = Len(l)
         /\ \A i \in 1..Len(l) :
              l[i] \in Range(l) /\ Spans(l, z)[i] = 16 + (z[l[i]] - (z[l[i]] % 2))
<1> DEFINE w == Spans(l, z)
<1>1. Len(l) \in Nat /\ DOMAIN l = 1..Len(l)
  BY LenProperties
<1>2. \A i \in 1..Len(l) : l[i] \in Range(l) /\ z[l[i]] \in Nat
  BY <1>1 DEF Range
<1>3. \A i \in 1..Len(l) : w[i] = 16 + (z[l[i]] - (z[l[i]] % 2)) /\ w[i] \in Int
  BY <1>1, <1>2 DEF Spans
<1>4. w \in [1..Len(l) -> Int]
  <2>1. w = [i \in 1..Len(l) |-> w[i]]
    BY <1>1 DEF Spans
  <2> HIDE DEF w
  <2> QED
    BY <1>3, <2>1
<1> HIDE DEF w
<1>5. w \in Seq(Int)
  BY <1>1, <1>4
<1>6. Len(w) = Len(l)
  BY <1>1, <1>4, <1>5, LenProperties
<1> QED
  BY <1>1, <1>2, <1>3, <1>5, <1>6 DEF w

\* The list loses nothing while no block changes its capacity.
LEMMA NoLossKept ==
  ASSUME TypeOK, NoLoss, list' = list,
         \A c \in DOMAIN size : Capacity(c)' = Capacity(c)
  PROVE  NoLoss'
<1>1. \A i \in DOMAIN list : list[i] \in DOMAIN size
  BY TypeFacts DEF Range
<1>2. Lengths' = Lengths
  BY <1>1 DEF Lengths
<1> QED
  BY <1>2 DEF NoLoss

\* A split costs 16 bytes of the list and makes it one block longer.
LEMMA NoLossSplit ==
  ASSUME TypeOK, Tiling, NoLoss, NEW b \in DOMAIN size, is_free(b), NEW req \in Nat,
         req % 16 = 0, LeavesBlock(b, req), Split(b, req), NEW new, new = NewBlock(b, req)
  PROVE  NoLoss'
<1> DEFINE L == Len(list)
<1>1. /\ size[b] \in Nat /\ size[b] % 16 = 0 /\ size[b] % 2 = 0
      /\ b \in Nat /\ size[b] >= req + 32
  BY BlockFacts DEF LeavesBlock, Header, is_free
<1>t. /\ list \in Seq(Nat) /\ DOMAIN size = Range(list)
      /\ size \in [Range(list) -> Nat] /\ IsInjective(list)
  BY TypeFacts DEF TypeOK
<1>2. /\ new \notin DOMAIN size /\ new \in Nat
      /\ \A c \in DOMAIN size \ {b} : size'[c] = size[c]
  BY SplitBlocks
<1>u. list' \in Seq(Nat) /\ size' \in [Range(list') -> Nat]
  BY SplitBlocks
<1>3. size'[new] = size[b] - req - 32 /\ size'[b] = toggled(req)
  <2>1. new # b /\ {new, b} \subseteq DOMAIN size \cup {new}
    BY <1>2
  <2> QED
    BY <1>1, <2>1 DEF Split, Header
<1>4. size'[new] - (size'[new] % 2) = size[b] - req - 32
  <2>1. (size[b] - req - 32) % 16 = 0 /\ size[b] - req - 32 \in Nat
    BY <1>1
  <2>2. (size[b] - req - 32) % 2 = 0
    BY <2>1, EvenFacts
  <2> QED
    BY <1>3, <2>1, <2>2
<1>5. size'[b] - (size'[b] % 2) = req
  <2>1. req % 2 = 0 /\ toggled(req) - (toggled(req) % 2) = req - (req % 2)
    BY EvenFacts, ToggledFacts
  <2> QED
    BY <1>3, <2>1
<1>v. Lengths = Spans(list, size) /\ Lengths' = Spans(list', size')
  BY DEF Lengths, Capacity, Header, Spans
<1>6. /\ L \in Nat /\ DOMAIN list = 1..L
      /\ \A i \in 1..L : /\ list[i] \in Range(list)
                         /\ Lengths[i] = 16 + (size[list[i]] - (size[list[i]] % 2))
  BY <1>t, <1>v, LengthsFacts
<1>7. \A i \in 1..Len(list') : Lengths'[i] = 16 + (size'[list'[i]] - (size'[list'[i]] % 2))
  BY <1>u, <1>v, LengthsFacts
<1>w. Lengths \in Seq(Int) /\ Len(Lengths) = L /\ Lengths' \in Seq(Int) /\ Len(Lengths') = Len(list')
  BY <1>t, <1>u, <1>v, LengthsFacts
<1>8. /\ Len(list') = L + 1 /\ list'[1] = new
      /\ \A i \in 1..L : list'[i + 1] = list[i]
  <2>1. <<new>> \in Seq(Nat) /\ Len(<<new>>) = 1 /\ <<new>>[1] = new /\ list' = <<new>> \o list
    BY <1>2 DEF Split
  <2> QED
    BY <1>t, <1>6, <2>1, ConcatProperties, LenProperties
<1>9. PICK i \in 1..L : list[i] = b
  BY <1>t, <1>6 DEF Range
<1>10. \A n \in 1..L : n # i => list[n] # b
  BY <1>t, <1>6, <1>9 DEF IsInjective
<1>11. 1 \in 1..(L + 1) /\ \A n \in 1..L : n + 1 \in 1..(L + 1)
  BY <1>6
<1>12. Lengths'[1] = size[b] - req - 16
  <2>1. Lengths'[1] = 16 + (size[b] - req - 32)
    BY <1>4, <1>7, <1>8, <1>11
  <2> QED
    BY <1>1, <2>1
<1>13. Lengths'[i + 1] = Lengths[i] - (size[b] - req)
  <2>1. list'[i + 1] = b
    BY <1>8, <1>9
  <2>2. Lengths'[i + 1] = 16 + req
    BY <1>5, <1>7, <1>8, <1>9, <1>11, <2>1
  <2>3. Lengths[i] = 16 + size[b]
    BY <1>1, <1>6, <1>9
  <2> QED
    BY <1>1, <2>2, <2>3
<1>14. ASSUME NEW n \in 1..L, n # i PROVE Lengths'[n + 1] = Lengths[n]
  <2>1. list'[n + 1] = list[n] /\ list[n] \in DOMAIN size \ {b}
    BY <1>t, <1>6, <1>8, <1>10, <1>14
  <2>2. size'[list[n]] = size[list[n]]
    BY <1>2, <2>1
  <2>3. Lengths'[n + 1] = 16 + (size'[list'[n + 1]] - (size'[list'[n + 1]] % 2))
    BY <1>7, <1>8, <1>11, <1>14
  <2> QED
    BY <1>6, <1>14, <2>1, <2>2, <2>3
<1>e. /\ \A n \in 1..L : Lengths[n] \in Int
      /\ \A n \in 1..(L + 1) : Lengths'[n] \in Int
  BY <1>w, <1>8, LenProperties, ElementOfSeq
<1>15. /\ Total(Lengths) \in Int /\ Lengths'[1] \in Int
       /\ Total(Lengths') = Total(Lengths) + Lengths'[1] - (size[b] - req)
  <2> DEFINE v == Lengths'
             w == Lengths
             d == size[b] - req
  <2>1. PICK s : Adds(s, w, L) /\ Total(w) = s[L]
    BY <1>w, TotalFacts
  <2>2. PICK t : Adds(t, v, L + 1) /\ Total(v) = t[L + 1]
    BY <1>w, <1>8, TotalFacts
  <2>3. L \in Nat /\ i \in 1..L
    BY <1>6, <1>9
  <2>4. d \in Int
    BY <1>1
  <2>5. v[i + 1] = w[i] - d /\ \A n \in 1..L : n # i => v[n + 1] = w[n]
    BY <1>13, <1>14
  <2>6. (\A n \in 1..L : w[n] \in Int) /\ v[1] \in Int
    BY <1>e, <1>11
  <2> HIDE DEF v, w, d, L
  <2>7. t[L + 1] = s[L] + v[1] - d
    BY <2>1, <2>2, <2>3, <2>4, <2>5, <2>6, SumsInsert
  <2>8. s[L] \in Int
    <3>1. L \in 0..L
      BY <2>3
    <3> QED
      BY <2>1, <3>1 DEF Adds
  <2> QED
    BY <2>1, <2>2, <2>6, <2>7, <2>8 DEF v, w, d
<1>16. Total(Lengths) = HeapSize - 16 * (L - 1)
  BY DEF NoLoss
<1>17. Total(Lengths') = HeapSize - 16 * (Len(list') - 1)
  <2> HIDE DEF L
  <2>1. Total(Lengths') = Total(Lengths) - 16
    BY <1>1, <1>12, <1>15
  <2>2. Len(list') - 1 = (L - 1) + 1 /\ L - 1 \in Int
    BY <1>6, <1>8
  <2> QED
    BY <1>16, <2>1, <2>2, HeapAssumption
<1> QED
  BY <1>17 DEF NoLoss

\* The first block is the heap.
LEMMA NoLossInit == ASSUME Init PROVE NoLoss
<1>1. /\ list = <<HeapStart>> /\ Len(list) = 1 /\ list \in Seq(Nat) /\ list[1] = HeapStart
      /\ size[HeapStart] = HeapSize - 16 /\ HeapSize - 16 \in Nat /\ (HeapSize - 16) % 2 = 0
      /\ size \in [Range(list) -> Nat]
  <2>1. HeapSize - 16 \in Nat /\ (HeapSize - 16) % 16 = 0 /\ HeapStart \in Nat
    BY HeapAssumption
  <2>2. TypeOK
    BY InitInv DEF HeapInv
  <2> QED
    BY <2>1, <2>2, EvenFacts DEF Init, Header, TypeOK
<1>2. Lengths = Spans(list, size)
  BY DEF Lengths, Capacity, Header, Spans
<1>3. Lengths \in Seq(Int) /\ Len(Lengths) = 1 /\ Lengths[1] = HeapSize
  <2>1. Lengths \in Seq(Int) /\ Len(Lengths) = 1
    BY <1>1, <1>2, LengthsFacts
  <2>2. \A i \in 1..1 : Lengths[i] = 16 + (size[list[i]] - (size[list[i]] % 2))
    BY <1>1, <1>2, LengthsFacts
  <2>3. Lengths[1] = 16 + (size[HeapStart] - (size[HeapStart] % 2))
    BY <1>1, <2>2
  <2>4. Lengths[1] = HeapSize
    BY <1>1, <2>3, HeapAssumption
  <2> QED
    BY <2>1, <2>4
<1>5. PICK s : Adds(s, Lengths, 1) /\ Total(Lengths) = s[1]
  BY <1>3, TotalFacts
<1>6. Total(Lengths) = HeapSize
  <2>1. s[0] = 0 /\ s[1] = s[1 - 1] + Lengths[1] /\ 1 - 1 = 0
    BY <1>3, <1>5 DEF Adds
  <2> QED
    BY <1>3, <1>5, <2>1, HeapAssumption
<1> QED
  BY <1>1, <1>6, HeapAssumption DEF NoLoss

\* Only a split changes what the list reaches.
LEMMA NoLossNext ==
  ASSUME HeapInv, NoLoss, [Next]_vars
  PROVE  NoLoss'
<1>1. TypeOK /\ Tiling /\ current \in Procs
  BY TypeFacts DEF HeapInv
<1>2. CASE list' = list /\ size' = size
  BY <1>1, <1>2, NoLossKept DEF Capacity
<1>3. CASE SallocTake
  <2> DEFINE b == call[current].block
             req == RoundUp(call[current].len)
  <2>1. /\ call[current].at = "found" /\ b \in DOMAIN size /\ is_free(b)
        /\ req \in Nat /\ req % 16 = 0
    BY <1>1, <1>3, CallFacts, RoundUpFacts, HeapAssumption DEF HeapInv, SearchOK, SallocTake, InCall
  <2>2. CASE LeavesBlock(b, req) /\ Split(b, req)
    BY <1>1, <2>1, <2>2, NoLossSplit
  <2>3. CASE size' = [size EXCEPT ![b] = toggled(@)] /\ list' = list
    <3>1. size[b] \in Nat /\ size' = [size EXCEPT ![b] = toggled(size[b])]
      BY <1>1, <2>1, <2>3, TypeFacts
    <3>2. \A c \in DOMAIN size : Capacity(c)' = Capacity(c)
      BY <1>1, <2>1, <2>3, <3>1, ToggleBlocks
    <3> QED
      BY <1>1, <2>3, <3>2, NoLossKept
  <2> QED
    BY <1>3, <2>2, <2>3 DEF SallocTake
<1>4. CASE SfreeStore
  <2> DEFINE b == call[current].block
             w == call[current].word
  <2>1. /\ call[current].at = "loaded" /\ b \in DOMAIN size /\ w = size[b] /\ w \in Nat
        /\ size' = [size EXCEPT ![b] = toggled(w)] /\ list' = list
    BY <1>1, <1>4, CallFacts DEF HeapInv, FreeingOK, SfreeStore, InCall
  <2>2. \A c \in DOMAIN size : Capacity(c)' = Capacity(c)
    BY <1>1, <2>1, ToggleBlocks
  <2> QED
    BY <1>1, <2>1, <2>2, NoLossKept
<1>5. CASE Next
  BY <1>2, <1>3, <1>4, <1>5
     DEF Next, Salloc, SallocSearch, Sfree, Preempt, GiveUp, SetLevel, heapVars
<1> QED
  BY <1>2, <1>5 DEF vars, heapVars

\* The list reaches all of the heap but 16 bytes for each split, for any requests
\* in any order (smemory.c:28-40).
THEOREM NoLossHolds == Spec => []NoLoss
<1>1. Init => NoLoss
  BY NoLossInit
<1>2. HeapInv /\ NoLoss /\ [Next]_vars => NoLoss'
  BY NoLossNext
<1> QED
  BY <1>1, <1>2, HeapInvHolds, PTL DEF Spec

-----------------------------------------------------------------------------
(* SMemory implements AbstractHeap                                          *)

\* What a caller holds lies within the bytes of its block.
LEMMA BytesFacts ==
  ASSUME NEW b \in Nat, NEW a, a.at = b + 16, a.len \in Nat, NEW n \in Nat, a.len < n
  PROVE  AH!Bytes(a) \subseteq (b + 16) .. (b + 15 + n)
BY DEF AH!Bytes

\* Taking the block that was found is the allocation of AbstractHeap.
LEMMA TakeAllocates == ASSUME HeapInv, SallocTake PROVE AH!Salloc
<1> SUFFICES ASSUME NEW b, b = call[current].block, NEW n, n = call[current].len,
                    NEW new, new = [at |-> b + 16, len |-> n]
             PROVE  AH!Salloc
  OBVIOUS
<1>1. /\ TypeOK /\ Tiling /\ MarkedIffHeld /\ LiveOK /\ current \in Procs
      /\ n \in Requests /\ n \in Nat /\ live' = live \cup {new}
  BY TypeFacts, CallFacts, HeapAssumption DEF HeapInv, SallocTake, InCall, Header
<1>2. b \in DOMAIN size /\ is_free(b) /\ n < Capacity(b)
  <2>1. call[current].at = "found" /\ b \in DOMAIN size /\ is_free(b) /\ size[b] >= RoundUp(n)
    BY <1>1, CallFacts DEF HeapInv, SearchOK, SallocTake, InCall
  <2>2. RoundUp(n) \in Nat /\ n < RoundUp(n) /\ Capacity(b) = size[b] /\ size[b] \in Nat
    BY <1>1, <2>1, RoundUpFacts, BlockFacts
  <2> QED
    BY <1>1, <2>1, <2>2
<1>3. /\ b \in Nat /\ b % 16 = 0 /\ Capacity(b) \in Nat /\ End(b) = b + 16 + Capacity(b)
      /\ HeapStart <= b /\ End(b) <= HeapStart + HeapSize
      /\ \A c \in DOMAIN size : b < c => End(b) <= c
  BY <1>1, <1>2, BlockFacts
<1>4. /\ b + 16 \in HeapStart .. (HeapStart + HeapSize - 1) /\ (b + 16) % 16 = 0
      /\ AH!Bytes(new) \subseteq (b + 16) .. (b + 15 + Capacity(b))
      /\ AH!Bytes(new) \subseteq HeapStart .. (HeapStart + HeapSize - 1)
  <2>1. b + 16 \in HeapStart .. (HeapStart + HeapSize - 1) /\ (b + 16) % 16 = 0
    BY <1>1, <1>2, <1>3, HeapAssumption
  <2>2. AH!Bytes(new) \subseteq (b + 16) .. (b + 15 + Capacity(b))
    BY <1>1, <1>2, <1>3, BytesFacts
  <2>3. (b + 16) .. (b + 15 + Capacity(b)) \subseteq HeapStart .. (HeapStart + HeapSize - 1)
    BY <1>3, HeapAssumption
  <2> QED
    BY <2>1, <2>2, <2>3
<1>5. ASSUME NEW a \in live PROVE AH!Bytes(new) \cap AH!Bytes(a) = {}
  <2> DEFINE c == a.at - 16
  <2>1. c \in DOMAIN size /\ a.at = c + 16 /\ a.len \in Nat /\ a.len < Capacity(c)
    BY <1>1, TypeFacts DEF LiveOK, Header
  <2>2. c # b
    BY <1>1, <1>2, <2>1 DEF MarkedIffHeld, Header
  <2>3. /\ c \in Nat /\ Capacity(c) \in Nat /\ End(c) = c + 16 + Capacity(c)
        /\ \A d \in DOMAIN size : c < d => End(c) <= d
    BY <1>1, <2>1, BlockFacts
  <2>4. AH!Bytes(a) \subseteq (c + 16) .. (c + 15 + Capacity(c))
    BY <2>1, <2>3, BytesFacts
  <2>5. End(b) <= c \/ End(c) <= b
    BY <1>2, <1>3, <2>1, <2>2, <2>3
  <2>6. ((b + 16) .. (b + 15 + Capacity(b))) \cap ((c + 16) .. (c + 15 + Capacity(c))) = {}
    BY <1>3, <2>3, <2>5
  <2> QED
    BY <1>4, <2>4, <2>6
<1>6. AH!Bytes([at |-> b + 16, len |-> n]) = AH!Bytes(new)
  OBVIOUS
<1> QED
  BY <1>1, <1>4, <1>5, <1>6 DEF AH!Salloc

\* salloc and sfree keep the promise of smemory.h: what salloc returns is aligned,
\* large enough, in the heap, and held by nobody else.
THEOREM ImplementsHeapHolds == Spec => ImplementsHeap
<1>1. Init => AH!Init
  BY DEF Init, AH!Init
<1>2. HeapInv /\ [Next]_vars => [AH!Salloc \/ AH!Sfree]_live
  <2> SUFFICES ASSUME HeapInv, [Next]_vars PROVE AH!Salloc \/ AH!Sfree \/ live' = live
    OBVIOUS
  <2>1. CASE SallocTake
    BY <2>1, TakeAllocates
  <2>2. CASE \E a \in live : Sfree(a)
    BY <2>2 DEF Sfree, AH!Sfree
  <2>3. CASE \/ \E n \in Requests : Salloc(n)
             \/ SallocSearch
             \/ SfreeStore
             \/ \E p \in Procs : Preempt(p) \/ GiveUp(p)
             \/ \E level \in BOOLEAN : SetLevel(level)
    BY <2>3 DEF Salloc, SallocSearch, SfreeStore, Preempt, GiveUp, SetLevel
  <2>4. CASE UNCHANGED vars
    BY <2>4 DEF vars
  <2> QED
    BY <2>1, <2>2, <2>3, <2>4 DEF Next
<1> QED
  BY <1>1, <1>2, HeapInvHolds, PTL DEF Spec, ImplementsHeap, AH!Spec

-----------------------------------------------------------------------------
(* What the callers of salloc and sfree may rely on in every state          *)

\* Allocations are aligned, lie in the heap and share no byte.
Apart ==
  /\ \A a \in live : /\ a.at % 16 = 0
                     /\ AH!Bytes(a) \subseteq HeapStart .. (HeapStart + HeapSize - 1)
  /\ \A a, b \in live : a # b => AH!Bytes(a) \cap AH!Bytes(b) = {}

\* One step of AbstractHeap keeps them apart: the new one is compared with all.
LEMMA ApartStep == ASSUME Apart, [AH!Salloc \/ AH!Sfree]_live PROVE Apart'
<1>1. CASE AH!Salloc
  <2>1. PICK at \in HeapStart .. (HeapStart + HeapSize - 1), len \in Requests :
               LET a == [at |-> at, len |-> len]
               IN  /\ at % 16 = 0
                   /\ AH!Bytes(a) \subseteq HeapStart .. (HeapStart + HeapSize - 1)
                   /\ \A b \in live : AH!Bytes(a) \cap AH!Bytes(b) = {}
                   /\ live' = live \cup {a}
    BY <1>1 DEF AH!Salloc
  <2> DEFINE a == [at |-> at, len |-> len]
  <2>2. /\ a.at % 16 = 0 /\ live' = live \cup {a}
        /\ AH!Bytes(a) \subseteq HeapStart .. (HeapStart + HeapSize - 1)
        /\ \A b \in live : AH!Bytes(a) \cap AH!Bytes(b) = {}
    BY <2>1
  <2> HIDE DEF a
  <2>3. \A b \in live' : /\ b.at % 16 = 0
                         /\ AH!Bytes(b) \subseteq HeapStart .. (HeapStart + HeapSize - 1)
    BY <2>2 DEF Apart
  <2>4. \A b, c \in live' : b # c => AH!Bytes(b) \cap AH!Bytes(c) = {}
    BY <2>2 DEF Apart
  <2> QED
    BY <2>3, <2>4 DEF Apart
<1>2. CASE AH!Sfree
  BY <1>2 DEF AH!Sfree, Apart
<1>3. CASE live' = live
  BY <1>3 DEF Apart
<1> QED
  BY <1>1, <1>2, <1>3

\* At any time, and not only when it is handed out, the memory of one caller of
\* salloc is disjoint from that of all others, aligned and inside the heap: stacks,
\* PCBs and message buffers cannot overlap (smemory.c:26-42, 45-49).
THEOREM AllocationsApart == Spec => []Apart
<1>1. AH!Init => Apart
  BY DEF AH!Init, Apart
<1>2. Apart /\ [AH!Salloc \/ AH!Sfree]_live => Apart'
  BY ApartStep
<1>3. AH!Spec => []Apart
  BY <1>1, <1>2, PTL DEF AH!Spec
<1> QED
  BY <1>3, ImplementsHeapHolds, PTL DEF ImplementsHeap

=============================================================================
