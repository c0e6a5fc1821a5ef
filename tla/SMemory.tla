------------------------------- MODULE SMemory -------------------------------
(***************************************************************************)
(* The heap: src/smemory.c, called by processes that the timer preempts.   *)
(*                                                                         *)
(* salloc masks IRQs; sfree does not, and toggles a bit of a word in       *)
(* memory with a load and a store.  The search of the list and the taking  *)
(* of the block found are steps of their own, so that what keeps them      *)
(* together is the IRQ mask and not the model.                             *)
(***************************************************************************)
EXTENDS Integers, SequencesExt

CONSTANTS
  Procs,       \* the processes that use the heap
  HeapStart,   \* init_smemory's mem_ptr: kernel_top, page aligned by linker.ld
  HeapSize,    \* and its size, in bytes
  Requests     \* sizes that are asked for, in bytes; all far below 2^32

ASSUME HeapAssumption ==
  /\ HeapStart \in Nat /\ HeapStart % 16 = 0
  /\ HeapSize \in Nat /\ HeapSize >= 16 /\ HeapSize % 16 = 0
  /\ Requests \subseteq Nat

Header == 16   \* sizeof(mem_block)

VARIABLES
  list,     \* the addresses of the blocks, from block_list_head along next_block
  size,     \* the word `size` of each block; bit 0 is set while it is allocated
  current,  \* the process that runs
  irq,      \* TRUE iff the CPU takes IRQs
  call,     \* per process: where it is in salloc or sfree, with its locals
  live      \* what callers hold: [at |-> address, len |-> bytes asked for]

heapVars == <<list, size>>
vars == <<heapVars, current, irq, call, live>>

Idle == [at |-> "none"]
InCall(at) == call[current].at = at
Goes(c) == call' = [call EXCEPT ![current] = c]

Init ==
  /\ list = <<HeapStart>>
  /\ size = [b \in {HeapStart} |-> HeapSize - Header]
  /\ current \in Procs
  /\ irq \in BOOLEAN
  /\ call = [p \in Procs |-> Idle]
  /\ live = {}

is_free(b) == size[b] % 2 = 0
toggled(word) == IF word % 2 = 0 THEN word + 1 ELSE word - 1

\* size = ((size >> 4) + 1) << 4
RoundUp(n) == ((n \div 16) + 1) * 16

-----------------------------------------------------------------------------
(* The operators named ...Mutant are wrong variants of the definition that   *)
(* follows them; no specification uses them.                                *)

\* does not mask IRQs
SallocMutant(n) ==
  /\ InCall("none")
  /\ Goes([at |-> "search", len |-> n, prev_level |-> irq])
  /\ UNCHANGED <<heapVars, current, irq, live>>

Salloc(n) ==
  /\ InCall("none")
  /\ irq' = FALSE
  /\ Goes([at |-> "search", len |-> n, prev_level |-> irq])
  /\ UNCHANGED <<heapVars, current, live>>

Fits(b) == is_free(b) /\ size[b] >= RoundUp(call[current].len)

\* first fit; NULL, at the level of the caller, when there is none
SallocSearch ==
  /\ InCall("search")
  /\ LET fits == {i \in DOMAIN list : Fits(list[i])}
     IN  \/ /\ fits = {}
            /\ irq' = call[current].prev_level
            /\ Goes(Idle)
         \/ \E i \in fits :
              /\ \A j \in fits : i <= j
              /\ Goes([at |-> "found", block |-> list[i], len |-> call[current].len,
                       prev_level |-> call[current].prev_level])
              /\ UNCHANGED irq
  /\ UNCHANGED <<heapVars, current, live>>

\* forgets the header of the new block in the test, and in its address
LeavesBlockMutant(b, req) == size[b] >= req + 16
NewBlockMutant(b, req) == b + req

LeavesBlock(b, req) == size[b] >= req + Header + 16
NewBlock(b, req) == b + Header + req

\* forgets insert_new_block
SplitMutant(b, req) ==
  /\ list' = list
  /\ size' = [c \in DOMAIN size \cup {NewBlock(b, req)} |->
                CASE c = NewBlock(b, req) -> (size[b] - req - Header) - Header
                  [] c = b -> toggled(req)
                  [] OTHER -> size[c]]

(* split: `new_avail_size` has the header of the new block taken off, and   *)
(* blockify takes it off once more.                                         *)
Split(b, req) ==
  /\ list' = <<NewBlock(b, req)>> \o list
  /\ size' = [c \in DOMAIN size \cup {NewBlock(b, req)} |->
                CASE c = NewBlock(b, req) -> (size[b] - req - Header) - Header
                  [] c = b -> toggled(req)
                  [] OTHER -> size[c]]

\* split if it leaves a block, mark the block, return: IRQs stay masked
SallocTake ==
  /\ InCall("found")
  /\ LET b == call[current].block
         req == RoundUp(call[current].len)
     IN  /\ IF LeavesBlock(b, req)
            THEN Split(b, req)
            ELSE /\ size' = [size EXCEPT ![b] = toggled(@)]
                 /\ UNCHANGED list
         /\ live' = live \cup {[at |-> b + Header, len |-> call[current].len]}
  /\ Goes(Idle)
  /\ UNCHANGED <<current, irq>>

(* sfree of something a caller holds, which it gives up.  toggle_alloc      *)
(* loads the word of the block ...  (sfree(NULL) returns at once: it is the *)
(* stuttering step.)                                                        *)
Sfree(a) ==
  /\ InCall("none")
  /\ live' = live \ {a}
  /\ Goes([at |-> "loaded", block |-> a.at - Header, word |-> size[a.at - Header]])
  /\ UNCHANGED <<heapVars, current, irq>>

\* stores the word as it was loaded
SfreeStoreMutant ==
  /\ InCall("loaded")
  /\ size' = [size EXCEPT ![call[current].block] = call[current].word]
  /\ Goes(Idle)
  /\ UNCHANGED <<list, current, irq, live>>

\* ... and stores it with bit 0 flipped.
SfreeStore ==
  /\ InCall("loaded")
  /\ size' = [size EXCEPT ![call[current].block] = toggled(call[current].word)]
  /\ Goes(Idle)
  /\ UNCHANGED <<list, current, irq, live>>

-----------------------------------------------------------------------------
\* The timer: another process runs, with IRQs enabled as it had them.
Preempt(p) ==
  /\ irq
  /\ current' = p
  /\ UNCHANGED <<heapVars, irq, call, live>>

\* A process outside the allocator sleeps, yields or blocks:
\* schedule_next_process leaves IRQs enabled.
GiveUp(p) ==
  /\ InCall("none")
  /\ current' = p
  /\ irq' = TRUE
  /\ UNCHANGED <<heapVars, call, live>>

\* SET_INTERRUPT_LEVEL in a caller
SetLevel(level) ==
  /\ InCall("none")
  /\ irq' = level
  /\ UNCHANGED <<heapVars, current, call, live>>

Next ==
  \/ \E n \in Requests : Salloc(n)
  \/ SallocSearch
  \/ SallocTake
  \/ \E a \in live : Sfree(a)
  \/ SfreeStore
  \/ \E p \in Procs : Preempt(p) \/ GiveUp(p)
  \/ \E level \in BOOLEAN : SetLevel(level)

Spec == Init /\ [][Next]_vars

-----------------------------------------------------------------------------
Calls == {Idle}
  \cup [at : {"search"}, len : Requests, prev_level : BOOLEAN]
  \cup [at : {"found"}, block : DOMAIN size, len : Requests, prev_level : BOOLEAN]
  \cup [at : {"loaded"}, block : DOMAIN size, word : Nat]

\* What the variables hold; the size of no block wraps below zero, and each
\* block on the list is there once.
TypeOK ==
  /\ list \in Seq(Nat) /\ size \in [Range(list) -> Nat] /\ IsInjective(list)
  /\ current \in Procs /\ irq \in BOOLEAN
  /\ call \in [Procs -> Calls]
  /\ live \subseteq [at : Nat, len : Requests]

\* The bytes of block b a caller may use.
Capacity(b) == size[b] - (size[b] % 2)

End(b) == b + Header + Capacity(b)

\* The blocks of the list tile the heap: aligned as smemory.h:9 says ("returns
\* 16 byte aligned blocks"), inside it, and disjoint with their headers.
Tiling ==
  \A b \in DOMAIN size :
    /\ b % 16 = 0 /\ Capacity(b) % 16 = 0
    /\ HeapStart <= b /\ End(b) <= HeapStart + HeapSize
    /\ \A c \in DOMAIN size : b < c => End(b) <= c

\* The sum of a sequence of numbers.
Total(w) ==
  LET sum[n \in 0..Len(w)] == IF n = 0 THEN 0 ELSE sum[n - 1] + w[n]
  IN  sum[Len(w)]

\* The bytes of each block on the list, with its header.
Lengths == [i \in DOMAIN list |-> Header + Capacity(list[i])]

\* The list reaches all of the heap but the 16 bytes that each split costs.
NoLoss == Total(Lengths) = HeapSize - 16 * (Len(list) - 1)

\* A block is marked allocated exactly while somebody holds it or is between
\* the load and the store of its sfree: no toggle is lost to a preemption, so
\* no freed block stays unusable and no block in use looks free.
MarkedIffHeld ==
  \A b \in DOMAIN size :
    ~is_free(b) <=> \/ \E a \in live : a.at = b + Header
                    \/ \E p \in Procs : call[p].at = "loaded" /\ call[p].block = b

\* salloc runs masked from its first to its last line, so nobody else is in it,
\* and the block it has found is still free and large enough.
SearchOK ==
  \A p \in Procs :
    /\ call[p].at \in {"search", "found"} => p = current /\ ~irq
    /\ call[p].at = "found" =>
         is_free(call[p].block) /\ size[call[p].block] >= RoundUp(call[p].len)

\* Each allocation has a block of its own, large enough for it.
LiveOK ==
  /\ \A a \in live : a.at - Header \in DOMAIN size /\ a.len < Capacity(a.at - Header)
  /\ \A a, b \in live : a.at = b.at => a = b

\* The word sfree has loaded is still that of the block, which nobody holds and
\* nobody else is freeing.
FreeingOK ==
  \A p \in Procs : call[p].at = "loaded" =>
    /\ call[p].word = size[call[p].block]
    /\ \A a \in live : a.at # call[p].block + Header
    /\ \A q \in Procs : call[q].at = "loaded" /\ call[q].block = call[p].block => q = p

\* The inductive invariant.
HeapInv == TypeOK /\ Tiling /\ MarkedIffHeld /\ SearchOK /\ LiveOK /\ FreeingOK

AH == INSTANCE AbstractHeap

\* Whatever is preempted, callers see the heap of AbstractHeap: what salloc
\* returns is aligned, large enough, inside the heap and held by nobody else.
ImplementsHeap == AH!Spec

\* The variant of salloc kept in the comment at smemory.c:71-77 ends with
\* "SET_INTERRUPT_LEVEL(prev_level)": salloc returns at the level of its caller.
SallocRestoresLevel ==
  [][\A p \in Procs :
       call[p].at \in {"search", "found"} /\ call'[p].at = "none"
         => irq' = call[p].prev_level]_vars
=============================================================================
