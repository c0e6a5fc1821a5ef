# A TLA+ verification of rpiosv2

rpiosv2 is a bare-metal operating system for the Raspberry Pi 2: preemptive
processes on one core, semaphores, intrusive queues, a first-fit heap, a text
console over the GPU's mailbox, and a bootloader that takes the kernel over a
serial line. The repository has no tests. This directory holds TLA+ modules of
the parts where order and interleaving matter, the TLC runs that check them on
small instances, and theorems that TLAPS has checked for every size: about the
scheduler, the interrupt path, the queues, the heap, the loading of the kernel, the
mailbox and the output. `PROJECT.json` maps every definition to the lines it models.

## 1. Inventory

| Part | Source | State | Operations | Interacts with |
|---|---|---|---|---|
| Process system | `src/process.c` | current process, run, dead and tick queue, `ticks`, PCBs with stack and `awaken_tick` | fork, start, stop, yield, sleep, return (`cleanup`), schedule, reaper, idle loop, clock handler | queues and heap by calls, semaphores both ways, timer by callback |
| Semaphores | `src/synch.c` | `count`, wait queue | create, P, V | process system, queues |
| Interrupt path | `src/boot.S`, `src/arm_timer.c` | registers saved on the stack, ELR and SPSR of HYP mode | entry, handler callback, return, `context_switch` | calls the clock handler on the stack of whoever runs |
| Interrupt controller | `src/interrupts.c/.h` | handler and clearer tables, pending and enable registers, the CPU's IRQ mask | init, register, unregister, dispatch, `SET_INTERRUPT_LEVEL` | everything masks IRQs through it |
| Queues | `src/queue.c` | sentinel, length, links inside the items | new, prepend, append, dequeue, iterate, free, length, delete, delete_fast, find | heap; users are the process system and semaphores |
| Heap | `src/smemory.c` | list of blocks, size word with the allocated bit | init, salloc, sfree | called by processes that can be preempted |
| Bootloader | `serial/bootloader` | packet buffer, RAM | store, jump, read, four error replies | loader, over the line |
| Loader | `serial/forward.py` | position in the image, count of words | write, jump, wait for a reply | bootloader |
| Mailbox | `src/mailbox.c` | hardware FIFOs, message buffer on the heap | read, send, `send_messages` | framebuffer, system report |
| Console | `src/gpu.c`, `src/framebuffer.c` | cursor, framebuffer | init, putc, scroll | mailbox, heap, `prntf` |
| Conversions | `src/stdlib.c`, `src/stdout.c` | static buffer of `itoa` | itoa, atoi, mcpy, mzero, prntf | console, UART |
| Drivers | `uart.c`, `gpio.c`, `sys_timer.c` | device registers | one access or one polling loop each | |
| Kernel start | `kernel.c` | `sema` (declared, unused) | init_systems, three demo processes | everything |
| Blink demo | `serial/blink` | none | LED loop | |

What is hard in it:

* **Interleaving.** The timer (50 ms) runs the clock handler on the stack of the
  interrupted process, and the handler switches processes. Every stretch with
  IRQs enabled between two accesses to shared state is a place to be preempted:
  in `proc_sleep_ms` (process.c:209-211), `process_yield` (133-134), the reaper
  (167-171), `sfree` (smemory.c:47). Handlers nest, as `c_irq_handler` enables
  IRQs before it calls them.
* **Intrusive data.** A PCB is its own list node. On two queues at once, or
  twice on one, it destroys both. An unlinked node keeps stale links.
* **Life cycle.** A dying process queues itself for the reaper while it still
  runs on the stack the reaper will free.
* **IRQ level.** Nearly every function saves and restores it; `salloc` does not
  restore it when it succeeds. The output of `get_system_config` is whole only
  because of that: it uses `itoa` and `uart_puts` without masking IRQs.
* **Registers.** ELR and SPSR are one register each, overwritten by every
  interrupt; handlers nest and switch stacks before they return.
* **Shared output.** All processes convert numbers in one static buffer and write
  to one UART, a character at a time.
* **Limits.** The tick counter wraps; the heap fills and fragments; splitting a
  block subtracts sizes.
* **Faulty line.** Bytes to the bootloader can be lost or changed; neither side
  has a timeout and the loader ignores error replies.

What makes each part correct:

* scheduler: nobody is lost, linked twice, or freed while he can run; the
  process that yields is not on the run queue yet; everyone gets his turn. The code
  keeps this until a timer expires in one of two short windows (below);
* semaphores: as many blocked as the count is below zero; mutual exclusion;
  every waiter gets in;
* queues: links and length agree, both directions agree, each call acts as on a
  sequence, no block is leaked;
* heap: blocks tile the heap, no byte is given out twice, no toggle is lost;
* mailbox: an answer comes to the call and the tag it is for, every way out frees
  the buffer and none before the GPU is done with it;
* interrupts: who is interrupted gets back what he lost; only what has a handler
  can interrupt; the timer is served, unless a thread spins with IRQs off;
* output: lines come out whole, with the right numbers, all of them;
* serial: a packet with one damaged byte changes nothing on the board (its word is
  missing, though: the loader takes the refusal for any other reply); a clean line
  delivers the kernel; the loader does not hang.

`PROJECT.json` lists the hazards line by line with the properties that cover
them, and for those not covered yet the reason.

## 2. Modules

| Module | What it is |
|---|---|
| `Scheduler` | process.c, synch.c and the timer interrupt path, with all safety and liveness properties |
| `SchedulerInv` | the inductive invariants: `Inv` and `CountInv` until a timer expires in a hand-over window, `RacedInv` afterwards, and their named parts |
| `SchedulerProofs` | lemmas on the queue operators and on call stacks, one lemma per action, and the theorems: from `Inv`, from `CountInv`, and on the order of service (TLAPS) |
| `MCScheduler` | symmetry and view for TLC |
| `AbstractQueues` | what queue.h promises: sequences |
| `IntrusiveQueue`, `MCIntrusiveQueue` | queue.c with its links; implements `AbstractQueues` |
| `AbstractHeap` | what smemory.h promises: disjoint aligned allocations |
| `IntrusiveQueueProofs` | its inductive invariant and the refinement (TLAPS) |
| `SMemory`, `MCSMemory` | smemory.c under preemption; implements `AbstractHeap` |
| `SMemoryProofs` | its inductive invariant, what a split costs, and the refinement (TLAPS) |
| `SerialBoot`, `MCSerialBoot` | forward.py, the line, bootloader.c |
| `SerialBootProofs` | its inductive invariant, the check sum, and the theorems (TLAPS) |
| `Mailbox`, `MCMailbox` | mailbox.c, its callers, the GPU and the two FIFOs |
| `MailboxProofs` | the layout of messages, the inductive invariant, and the theorems (TLAPS) |
| `NatLemmas` | least numbers, induction up to a number and recursive functions, stated with sets; quotients and remainders (TLAPS) |
| `Interrupts`, `MCInterrupts` | boot.S, interrupts.c and arm_timer.c: saved contexts, tables, enable registers |
| `InterruptsProofs` | its inductive invariant `IInv` and the theorems about it (TLAPS) |
| `Console`, `MCConsole` | stdout.c, `itoa`, the UART's FIFO, and what each process prints |
| `ConsoleProofs` | the text of `itoa`, the inductive invariant, and the theorems (TLAPS) |

Operators whose names end in `Mutant` are wrong variants of the definition that
follows them, one or more for each property; substituted for it they make that
property fail. No specification uses them.

### Scheduler

One step is a stretch of code no interrupt can split: it runs with IRQs masked,
or touches nothing shared. `frames[p]` is the call stack of process `p` as
program points, innermost first; an interrupt pushes `clk_enter`, a call of
`proc_sleep_ms` pushes `sleep_stop`. `schedule_next_process` is part of the step
that calls it (it masks IRQs at its first instruction and comes out of the
context switch in another process, with IRQs enabled). Registers are not
modelled here: the program points stand for the saved ones (see `Interrupts`).

| Code | Action |
|---|---|
| `process_system_initialize` | `Init` (up to the second fork), `BootEnable`, `BootStop`, `IdleLoop` |
| `process_fork`, `create_process`, `process_start` | `Fork` |
| `proc_sleep_ms` | `Sleep`, then `SleepStop` |
| `process_yield` | `Yield`, then `YieldSchedule`; `ClockYield` in the clock handler |
| `semaphore_P`, `semaphore_V` | `Lock`, `Unlock`, `ReapWait`; `PReturn` for one that was blocked |
| `cleanup` | `Exit` |
| `reaper_process` | `ReapWait`, `ReapTake`, `ReapStack`, `ReapPcb` |
| `irq`, `c_irq_handler`, `clock_handler` | `IrqEntry`, `ClockEnter`, `ClockAwaken` (a round of the loop), `ClockDone`, `ClockYield`, `YieldSchedule`, `IrqReturn` |

The two *hand-over windows* are the points `sleep_stop` and `yield_sched`: IRQs
may be enabled there and the running process is already queued. Each is a few
instructions long, but the timer can expire in one, and nothing in the model keeps it
from doing so. Its handler then yields for a process that is linked already, and
process.c's own invariant fails (run `races`). What the two lists hold after that is
no longer a sequence: the model stops there (`Crossed`, which is enabled when a
process is on two queues or twice on one). `raced` remembers a timer in a window;
no step reads it. So the properties say two things:

* `LinkedOnce` says exactly when the code links a PCB twice: after a timer in a
  hand-over window, as soon as its handler has reached its `process_yield`, always
  then and never otherwise. Between the two the queues are still sequences.
* The others are stated for the time until a timer expires in a window (`~raced`);
  `NoOvertaking`, for every step that links nobody twice.

`MaxNested` bounds the interrupts that are nested in one call stack.

Abstractions: a queue is a sequence (justified by `IntrusiveQueue` as long as
no PCB is linked twice); `Procs` is what the heap has room for, so `Fork` always
gets its memory; after `process_fork` the caller is left masked, which is what
`salloc` does; the process bodies choose freely among the calls, holding `sema`
as a lock. The kernel declares `sema` and never creates it; it stands for any
semaphore of the processes.

### IntrusiveQueue

`next` and `prev` are functions over items and heap blocks; a queue is a block
with a sentinel block and a length. Each call is one step, because callers mask
IRQs, except `queue_iterate`, which calls back for each node and reads
`cur->next` afterwards. Unlinked items keep their links, as in the code. What a
caller must not do (append what is linked, `queue_delete_fast` from another
queue, change queues from the callback beyond unlinking the node it is given) is
the contract; `LinkedOnce` of `Scheduler` proves that process.c keeps it until a
timer expires in a hand-over window, and that it breaks it then. `salloc` may fail at
any time, as the queues share the heap: for the queue (`NoQueue`), or for its sentinel
(`NoSentinal`), after which `queue_new` frees the first block again.
`prepend`, `iterate`, `delete` and `free` have no caller in the kernel.
`ImplementsSequences` maps a step of this module to a step of `AbstractQueues`: to the
same call in each case the proof distinguishes, but the property as such asks only
for some call with the same effect and result.

### SMemory

Addresses are bytes. The list is the sequence of block addresses from
`block_list_head`; the word `size` has the allocated bit in it. `salloc` is
three steps (`Salloc` masks, `SallocSearch`, `SallocTake`), so that it is the
mask and not the model that keeps another process out; `sfree` is the load and
the store of the toggled word. Callers free only what they hold; `sfree(NULL)` does
nothing.

### SerialBoot

A packet has four bytes of three bits (type, address, data, check sum) where the
code has 1 + 4 + 4 + 1 of eight, and the check sum is really computed. The line
to the board may change up to `MaxErrors` bytes and lose up to `MaxLost`; the
line back is reliable. `write_byte` throws away what has arrived, which is any
first part of what the board has sent. RAM starts as zeros or as junk, and `ram`
remembers it: forward.py skips chunks of zeros, and `KernelIntact` says that the
kernel finds there what RAM held (`Loaded`), which is the zeros of the image only if
RAM was clear. The board's code is not part of the memory it stores to. The loader is running when the board prints its
banner. After `Jump` the bootloader is over.

### Mailbox

The callers are a program of property calls in the kernel's order: `gpu_init`
repeats the call of `framebuffer_init` until it returns 0, `get_system_config`
makes four more whatever they return; a last array, which the kernel does not
send, has a tag without a value before one with a value. The calls never overlap
in the kernel. `SendMessages` is `salloc` and the whole message, because nobody
else knows the block yet; then `MailboxSend`, one `MailboxRead` per mail taken,
and `Reply` with all ways out. The GPU is external: it takes a mail, finds the
tags by the lengths the message states (not by the kernel's offsets), answers,
reports an error after writing values, or does nothing, and returns the mail;
mail on another channel may arrive at any time. The heap may have no block.
`mailbox_send` waits while the status at 0x18 says full, which mailbox.h:13 calls
"the write mailbox"; the register is that of the FIFO to the ARM (MAIL0), the one
`mailbox_read` tests for mail. So `MailboxSend` waits for room in that FIFO, which
only the kernel empties: mail of another channel that has filled it before a call
keeps `mailbox_send` spinning for ever (`SendStuck`, the exception in `CallsReturn`).
Addresses are multiples of 16, which `Tiling` of `SMemory` shows, so that `|`
with the channel loses nothing.

### Interrupts

A context is what a thread can see of the CPU: program point, r0-r12 as one
value (whose code computed it), lr, condition flags and IRQ mask. `stack` holds
the contexts that the code has pushed, `truth` the contexts the thread really
had; nothing in the code reads `truth`. `elr` and `spsr` are the two registers
of HYP mode.

| Code | Action |
|---|---|
| `interrupts_init`, `arm_timer_init` with `register_irq_handler`, `set_timer_handler`, `ENABLE_INTERRUPTS` | `InterruptsInit`, `ArmTimerInit`, `SetTimerHandler`, `EnableInterrupts`, in boot order |
| `irq` to `bl c_irq_handler` | `IrqEntry`, with what the CPU does |
| `c_irq_handler`, `clearer` | `Dispatch`, `Handled` (`DISABLE_INTERRUPTS`) |
| `handler` | `HandlerYields`: the clock handler ends in a switch |
| `irq` from `pop {r0, r1}` to `eret` | `IrqReturn` |
| `context_switch` | `SwitchTo` up to `msr cpsr`, `PopRegisters`, `PopLrPc`: a new thread has IRQs on between these |
| the end of `schedule_next_process` | `Yielded`, for a thread's own call; `Emerged`, for the handler's: from there to `Handled` IRQs are on, and further interrupts nest |
| `process_fork` | `Fork`: the thread goes on in its own code with IRQs off |
| `cleanup` | `Cleanup` |

Any live thread may be switched to: this module asks what a thread gets back and
not who is next. The firmware may have left any source enabled; two of them are
asserted for good, so one left on would be taken for ever. In C code flags and
lr are given one value, because the compiler expects nothing of them there.

### Console

Each process has its lines to print (`Program`), taken from kernel.c, process.c
and framebuffer.c; one character stands for the words of a literal, and a report
of several similar lines for one. `call[p]` is where `p` is in a line: what is
left of the format, how far `puts` has read `intbuf`, the character `uart_putc`
has found room for. The steps are as fine as the accesses to `intbuf` and the
UART, so it is the IRQ mask and not the model that keeps lines whole. `itoa` is
the loop of stdlib.c; the properties compare it with `Numeral`, which computes
each digit from its weight. %s and %% have no use in the kernel. `Power` is a
recursive function of its own, because nothing can be proved of `^`; ints have
`Width` bits, three at least: with two, `0x` and a digit would fill the buffer of
three without room for the end. `ConsoleInv` is the inductive invariant.

`UartPuts` starts with IRQs masked because `send_messages` has called `salloc`, which
finds a block there: the heap has 1 MB (kernel.c:133), and two stacks of 32 KB are all
that is taken when main_proc prints the report. On a full heap `send_messages` would
return -1 with IRQs on (smemory.c:68), and kernel.c:29-32 would print it unmasked.
With a `salloc` that restores the level (the mutant `UartPutsMutant`),
`OutputWhole` fails: the reaper can print into the report of `get_system_config`
and over its number. Whoever mends `salloc` must mask there.

## 3. Runs

| Run | Instance | States | Shows |
|---|---|---|---|
| `scheduler` | 3 processes, interrupts not nested, sleeps of 0 and 1 ticks, ticks mod 3 | 1.3 M | seven invariants, and `NoOvertaking` of every step |
| `nested` | 2 processes, an interrupt in the handler of another, sleeps of 1 tick, ticks mod 2 | 2.3 M | `CountRaceInv`, which implies the proved properties, with interrupts that nest |
| `live` | 2 processes, interrupts not nested, sleeps of 0 and 1 ticks, ticks mod 2, fairness | 49 k | the four liveness properties |
| `races` | 2 processes, nested interrupts | | finding: process.c:132 does not hold |
| `queue` | 3 items, 5 blocks | 4 k | refinement of `AbstractQueues`, `QueueInv`, `Rings`, `NoLeak` |
| `heap` | 3 processes, 240 bytes, requests of 0, 20, 40 | 142 k | refinement of `AbstractHeap`, `HeapInv`, `Tiling`, `NoLoss`, `MarkedIffHeld` |
| `heap_level` | the same | | finding: `salloc` returns masked |
| `serial` | 5 words in 3 chunks, 2 errors, 1 loss, fairness | 61 k | `SerialInv`; one damaged byte changes nothing on the board, a clean line delivers and the loader counts right |
| `mailbox` | 6 calls, FIFOs of 2, 2 foreign mails, 2 failures, fairness | 80 k | `MailboxInv`; the answers come to their own tags, no write to a freed block, every call returns that does not find the FIFO to the ARM full |
| `interrupts` | 2 threads and the boot context, 2 saved contexts on a stack, 4 sources, fairness | 1.3 M | contexts come back, no source without a handler, the timer is served |
| `irq_flags` | the same | | finding: the condition flags do not come back |
| `console` | 5 processes, ints of 5 bits, FIFO of 2, 2 rounds, fairness | 172 k | `ConsoleInv`; output is whole and complete |

Why the bounds are enough. Three processes are one running, one in each of two
places a step can touch (run queue and wait or tick queue), with the reaper and
the idle process besides; two sleepers of which the first or the second is due
are among them. One interrupt on a stack lands in a process's own code and in each
of its calls; two let one land in the handler of another, in the windows of that
handler's `process_yield`, too. `TickMod` 2 and 3 make the counter wrap again and again.
Five blocks are two queues and one that has to be given back. 240 bytes are
split down to blocks of all sizes that matter, the empty block a split can leave
included. The image has a chunk with a zero word, a chunk of zeros, a short last
chunk and the word 0xff. `CHECK_DEADLOCK FALSE` is given for the serial runs
and the mailbox run only: the bootloader ends by jumping, a lost byte leaves both
sides waiting, which is how the code behaves, and the kernel's calls come to an
end (`CallsReturn` shows that they stop nowhere else but in `mailbox_send`). Two foreign mails fill a
FIFO of two, so the GPU has to wait for room. All other runs check for deadlock.

Two saved contexts are a new thread's first one with an interrupt on it, a
switch inside a handler, and an interrupt in the handler of another; with three
stacks an interrupt of each thread can be open at once, which is what overwrites
ELR and SPSR. In the console run every int of 5 bits is printed in both bases,
from 0 and the greatest (whose successor is the least) to -1; a FIFO of two is
full most of the time; the buffer has Width + 1 characters, as 33 is 32 + 1.

Symmetry is used for safety only. The view of `MCScheduler` hides what is not
read again (the wake-up tick of processes that do not sleep; `NoOvertaking` reads
only those of sleepers): states with the same view have the same steps and the same
truth of every formula checked, so it serves the run `live` as well. The view of
`MCIntrusiveQueue` the links of unlinked nodes.

Findings, all real disagreements of the code with its own text: the two races
against the comment at process.c:132; `salloc`, whose commented-out predecessor
at smemory.c:71-77 restored the level; the irq stub, which keeps what is "needed
to restore the thread's state" (process.c:56) on the stack but for SPSR_hyp, from
which `eret` takes the flags. On a faulty line forward.py also counts as "wrote"
words that the board refused, as it ignores error replies; `WroteMeansStored` is
therefore stated for lines without faults.

## 4. Fairness

* `WF(SystemStep)`: code of the system that is entered runs on. It is the CPU.
* `SF(IrqEntry)`: the timer's request stays pending until it is taken, so it is
  taken if IRQs are enabled again and again, however briefly.
* `SF(RunsOn(p))`: a process that gets the CPU again and again completes a
  reaper step, the end of `semaphore_P` or the end of its critical section; the
  period of 50 ms is some million instructions.
* `SF(MaskedStop)`: a process that `process_fork` left masked sleeps, yields or
  returns in the end. This is an obligation of the processes, because nothing
  preempts it: with `salloc` as it is, a masked process that spins stops the
  system. main_proc returns, as required.
* `SerialBoot`: weak fairness of the host and of the board. `HostFinishes` and
  `KernelStarts` are stated for lines that lose nothing.
* `Interrupts`: kernel code that is entered runs on (`WF(KernelStep)`); an
  interrupt that is pending each time IRQs are on is taken (`SF(IrqEntry)`).
  Threads need not yield: the timer is served while one spins with IRQs on. One that
  `process_fork` left masked and that spins is the exception in `TimerServed`
  (`MaskedSpin`), and nothing else is.
* `Console`: weak fairness of the UART; `SF(Step)` and `SF(SwitchTo(q))`, because
  every process gets its turns (`ReadyRuns` of the run `live`) of some million
  instructions each.
* `Mailbox`: weak fairness of the kernel, which nothing preempts there, and of
  the GPU; mail of other channels is not fair. Failures are finitely many, as
  `gpu_init` would try for ever against a GPU that always fails.

## 5. Proofs

The runs check the inductive invariants too (`CountRaceInv`, which contains `RaceInv`
and the types of `Scheduler`, `QueueInv`, `HeapInv`, `SerialInv`, `MailboxInv`,
`ConsoleInv`): `IInv` of the interrupts is the only one stated in its proof module.
Every invariant and action property of a passing run is a theorem.

| Module | Theorems | Assumes, besides types |
|---|---|---|
| `SchedulerProofs` | `InvHolds`, `TypeCorrect`, `LinkedOnceHolds`, `YieldInvariantHolds`, `NobodyLostHolds`, `NoUseAfterFreeHolds`, `SemaphoreWaitersHolds`, `CountInvHolds`, `ReaperHasCorpseHolds`, `MutualExclusionHolds`, `NoOvertakingHolds` | |
| `InterruptsProofs` | `IInvHolds`, `TypesHold`, `EnabledHandledHolds`, `ContextKeptHolds` | |
| `IntrusiveQueueProofs` | `QueueInvHolds`, `RingsHold`, `NoLeakHolds`, `ImplementsSequencesHolds` | finitely many items |
| `SMemoryProofs` | `HeapInvHolds`, `TilingHolds`, `NoLossHolds`, `MarkedIffHeldHolds`, `ImplementsHeapHolds`, `AllocationsApart` | the heap starts and ends at a multiple of 16 |
| `SerialBootProofs` | `SerialInvHolds`, `KernelIntactHolds`, `WroteMeansStoredHolds`, `SingleErrorHarmlessHolds` | the image fits into memory |
| `MailboxProofs` | `MailboxInvHolds`, `BufferFreedHolds`, `WritesInBufferHolds`, `AnswersInPlaceHolds` | blocks at multiples of 16, as large as was asked for |
| `ConsoleProofs` | `ItoaIsNumeral`, `ItoaFits`, `ConsoleInvHolds`, `OutputWholeHolds` | ints of three bits at least |

**Scheduler.** No bound on processes, counts, tick width, sleep times or nesting;
`SchedulerAssumption` says that the PCBs are distinct and the numbers are
naturals. No theorem assumes anything of when the timer expires. `RaceInv` is `Inv`
until one expires in a hand-over window, and `RacedInv` from then on: the process
whose window it was stays linked while handlers run on it (`BeforeYield`), and the
first `process_yield` among them links it twice, after which nothing moves.

None of the properties is inductive by itself. That nobody is linked twice needs to
know that a running process is linked nowhere before it is appended; that holds
only outside the hand-over windows, so `Inv` says which point the running process
is at (`RunningOK`); it needs that no process is left inside a window when
another runs, so the shape of every call stack is part of it (`FrameOK`), and so
is which kind of process each queue can hold (`PlacesOK`: the reaper is the only
one to wait for the dead). `NoUseAfterFree` needs that what the reaper holds in
`to_free` is dead and linked nowhere (`HeapOK`).

`schedule_next_process` is in the middle of most steps. `ParkedOK` states what
holds there: every process that has something left to run waits on a queue it
can be started from. Each action is proved in two halves: it leaves the system
parked, and `SwitchLemma` takes it from parked to running. `NextInv` has one case
per action.

**What the semaphores count.** `MutualExclusion` bounds the processes past
`semaphore_P`, but a process that is blocked has taken its unit already and comes
out later without another look at the count. So `CountsOK` counts all processes
between P and V, blocked or not (`Inside`, told by the outermost point of a call
stack, which calls and interrupts leave alone): `SemaInit` minus the count of
them. Those on the wait queue are as many as the count is below zero
(`WaitersOK`), which leaves `SemaInit` at most. In the same way the dead are the
units of the reaper's semaphore and the one it was woken for. `SameCounts`
disposes of the steps that move neither.

**First come, first served.** `NoOvertaking` is the safety half of round robin
(`ReadyRuns`): whoever is third on the run queue waits for two others, however many
yield, wake up or are forked meanwhile. It speaks of every step after which the
queues are still sequences (`Once(queue')`), and its proof needs the types of queues
and processes only (`Linkable`). `Kept` says what one operation may do to one
queue, `Stays` that nobody moves back; both survive that a step makes several
operations (`KeptTwice`), as `clock_handler` does when it takes a sleeper off its
queue and appends it to another. The step that links a process twice is left out:
on the lists of the code it drops whoever was linked behind (queue.c:64-67), and what
becomes of the queues then is no move on sequences.

**Interrupts.** Any threads, sources, noisy sources and nesting (`MaxNest` is
only known to be a natural; nothing uses its value). `ContextKept` speaks of the
context saved last, and a step that takes it back uncovers the one before: so
`IInv` speaks of every context on every stack. `StackOK` says that the pushed
word stands for what was lost, but for flags and mask, and `OnTop` what the point
of a context requires of the contexts below it: one inside the interrupt path
lies on a context with IRQs on, which is why `eret` gives back the right mask
though SPSR may be another interrupt's. The condition flags are not part of it:
`FlagsKept` is false. `PushLemma` and `PopLemma` show that saving and taking back
keep a stack in order, `SaveLemma` and `RestoreLemma` that a step which does so
keeps `IInv`; `NextInv` puts the steps together.

**Queues.** `Contents` walks the links until it meets the sentinel, so what it
returns after a change is not seen from the change. `IsRing` says instead that
the links run through a given sequence; `WalkFacts` shows, along `UpTo`, that a
walk over such links returns that sequence, and `InsertRing` and `RemoveRing` what
the two ways of relinking do to it. Rings of different queues share no node
(`RingsOK`), so a change of one leaves the others (`FrameRing`). With these each
call is matched with the call of `AbstractQueues` (`...Step`), the walk of
`queue_iterate` included, whose `cur` may have been unlinked by the callback: then
it still has the links it had (`IterateVisitStep`).

**Heap.** `Tiling` survives a split because the new block lies inside the bytes of
the old one (`SplitBlocks`), and a toggle because it does not change the size
(`ToggleBlocks`). That the word `sfree` stores is still the one it has loaded is
`FreeingOK`: nobody else can hold, take or free that block meanwhile; that two
processes do not take the same block is `SearchOK`: whoever is in `salloc` runs,
masked. `NoLoss` is about a sum along the list: `Total` is shown to be what adding
up gives (`TotalFacts`), and putting a block in front while another shrinks to
change it by the difference (`SumsInsert`), which is 16 bytes for a split.
`ImplementsHeapHolds` maps `SallocTake` and `Sfree` to the two steps of
`AbstractHeap` and everything else to a step that callers do not see.
`AllocationsApart` draws the conclusion from `AbstractHeap` alone: at any time, and
not only when it is handed out, each allocation is apart from all others.

**Loading.** Any image, size of chunk, content of RAM and number of faults; a byte has
three bits, as in the model. Two facts are kept up by different faults. Unless a byte is
lost, the bytes under way (with the board, on the line, still to send) are whole
packets, each with a right check sum as it was sent (`WholePackets`), however many are
changed. While at most one has been changed, the loader sends a packet only when the
board has dealt with the last one (`FlightOK`), lost bytes or not: after a loss it
waits for ever. In either case the packet the board completes is one that was sent.
Two packets with a right check sum do not differ in one byte (`OneByteOff`), hence
`SingleErrorHarmless`. It is not so after a lost byte and two changed ones: the loader
may take a changed reply for the end of a packet and go on, and the board check the
sum of two halves; the property says so. `CleanOK` says what is in memory while
nothing has gone wrong; `LoadedFacts` what one word, sent or passed over, adds to it,
and `ChunkFacts` that those passed over are exactly those of chunks of zeros.

**Mailbox.** Any program of calls, arrays of tags and values. The kernel computes
the layout of a message three times: its size, its words as they are written, and
the places it copies back from; the GPU finds the tags a fourth way, by the
lengths in the message. `Offsets` is where tags start, and the lemmas show each of
the four to agree with it: `BufSizeFacts` (all words fit), `MessageFacts`,
`ValueAtFacts`, and `TagStartsFacts` for a GPU that reads the message. Values of
two tags do not overlap (`ValuesApart`), so each answer stays (`AnsweredFacts`) and
is copied to its own tag (`CopyBackFacts`). The invariant says that one message is
on its way at most, in one of three places (`OneMessage`), and what memory holds
meanwhile (`MessageOK`). `BlocksSuffice` is what `LiveOK` of the heap proves: a
block is at least as large as was asked for.

**Output.** Any width, FIFO and number of lines. `NothingLost` adds up: what is
out, the character in hand, what `puts` has not read of `intbuf` and the rest of the
line are together the lines begun. It speaks of the one `intbuf` of all processes,
so `OnePrints` must say whose line it is: the one who is in a line runs, masked.
`OutputWhole` is then one of its prefixes. That the number in the buffer is the
right one is `ItoaIsNumeral`: each round of the loop takes the digit of the next
weight (`DigitsStep`, `LowDigits`), it stops after the last one that counts
(`FewDigits`, `SizeFacts`), and the reversal puts them in order; the negative of the
least int is itself, but as an unsigned number it has the right digits
(`UnsignedFacts`). `ItoaFits` is for the bases prntf uses, 10 and 16. To base 2 all
digits with `0b` before them would not fit; nobody asks for that.

Recursive functions (`Ahead`, `Total`, `BufSize`, `ValueAt`, `Power`, the loop of
`itoa`, `FlattenSeq`) are used after a proof that a function with the recursive
equation exists, `Recursion` of `NatLemmas` for those over numbers; what they
compute is shown with its `UpTo`, an induction over a set of numbers, because the
induction theorems of the library take an operator.

Model-checked only: the nine liveness properties, as `ENABLED` and liveness are out of
the prover's reach. TLC has found every invariant above to hold on its instance
before it was proved.

## 6. Not modelled, and the plan

Done in this order, the most important behaviour first: scheduler and its proof,
queues, heap, serial loading, property messages, interrupts and their proof,
output, then the proofs of the queues, the heap, the loading and the mailbox, of
what the semaphores count, of the order of service and of the output. Open: process
creation on a heap that runs out (process.c:111, synch.c:16), where the code tests
nothing.

Left out: `unregister_irq_handler`, `atoi` and `gpu_putc` with its font, which
nothing calls (the call of `gpu_putc` in `putc` is commented out), so that
there is no use of them to model; the heap without merging, which promises no
one that memory stays usable; a loader that is started after the board has
printed its banner, which waits for ever; pixels, LED and UART register writes,
straight-line device initialisation, the blink demo and header constants: pure
output or a single access each, with no state a property could be about.
