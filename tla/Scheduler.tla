------------------------------ MODULE Scheduler ------------------------------
(***************************************************************************)
(* The process system of rpiosv2: src/process.c, the semaphores of         *)
(* src/synch.c, and the timer interrupt path that preempts processes       *)
(* (boot.S irq, c_irq_handler, arm_timer.c handler, clock_handler).        *)
(*                                                                         *)
(* One core runs `current`.  A step of the model is a stretch of code that *)
(* no interrupt can split: either it runs with the CPU's IRQ mask set, or  *)
(* it touches no shared state.  Every point at which the source leaves     *)
(* IRQs enabled between two such stretches is a label of its own, so the   *)
(* timer can land there.                                                   *)
(*                                                                         *)
(* The intrusive queues of queue.c are sequences of processes here: a      *)
(* sequence is what a linked list holds as long as no PCB is linked twice. *)
(* The code does link one twice when a timer expires in a hand-over window *)
(* (below); from then on two lists share next and prev fields, no sequence *)
(* describes them, and the model stops: every step has Once(queue) in its  *)
(* guard.  The variable raced remembers such a timer.                      *)
(***************************************************************************)
EXTENDS Integers, SequencesExt

CONSTANTS
  Procs,        \* PCBs process_fork can hand out (what the heap has room for)
  Main,         \* the PCB of the first process, the mainproc of boot
  Idle,         \* idle_process: the boot context
  Reaper,       \* the PCB of reaper_process
  Null,         \* the C NULL pointer
  SleepTicks,   \* the values sleepms/(TIMER_PERIOD_US/1000) that are asked for
  TickMod,      \* ticks and awaken_tick are machine words: values are mod TickMod
  SemaInit,     \* the initial count of the user semaphore `sema`
  MaxNested     \* bound: interrupts nested in one call stack

(***************************************************************************)
(* The two stretches where a process that is still running, with IRQs      *)
(* enabled, is already linked on a queue: between the append and the call  *)
(* of schedule_next_process in proc_sleep_ms and in process_yield.         *)
(***************************************************************************)
HandOver == {"sleep_stop", "yield_sched"}

ASSUME SchedulerAssumption ==
  /\ Main \in Procs
  /\ Idle \notin Procs /\ Reaper \notin Procs /\ Idle # Reaper
  /\ Null \notin Procs \cup {Idle, Reaper}
  /\ SleepTicks \subseteq Nat
  /\ TickMod \in Nat \ {0}
  /\ SemaInit \in Nat
  /\ MaxNested \in Nat

Pcb  == Procs \cup {Idle, Reaper}
Sems == {"dead_queue_semaphore", "sema"}

\* Every queue_t of the system; the wait queue of a semaphore has its name.
Queues == {"run_queue", "tick_queue", "dead_queue"} \cup Sems

VARIABLES
  current,      \* current_context_pcb
  queue,        \* per queue: the processes linked on it, first to last
  count,        \* per semaphore
  ticks,
  awaken_tick,  \* per PCB
  irq,          \* TRUE iff the CPU takes IRQs (the I bit of cpsr is clear)
  frames,       \* per PCB: the program points of its call stack, innermost first
  to_free,      \* local variable of reaper_process
  pcbs,         \* PCBs allocated on the heap
  stacks        \* PCBs whose stackbase is allocated on the heap

\* History, which no step reads: an interrupt was taken in a hand-over window.
VARIABLE raced

clockVars == <<ticks, awaken_tick>>
heapVars  == <<to_free, pcbs, stacks>>
vars == <<current, queue, count, clockVars, irq, frames, heapVars, raced>>

(***************************************************************************)
(* Program points.                                                         *)
(***************************************************************************)
BootLabels   == {"boot_enable", "boot_stop", "idle"}
ReaperLabels == {"reap_wait", "reap_take", "reap_stack", "reap_pcb"}
UserLabels   == {"user", "critical"}    \* in a process body; holding `sema`
PRetLabels   == {"P_ret_on", "P_ret_off"} \* in semaphore_P, prev_level saved
ClockLabels  == {"clk_enter", "clk_awaken", "clk_yield", "clk_ret"}
BeforeYield  == ClockLabels \ {"clk_ret"} \* clock_handler, up to its process_yield
Labels == BootLabels \cup ReaperLabels \cup UserLabels \cup PRetLabels
          \cup ClockLabels \cup HandOver

\* No process is on two of the queues qs, or twice on one.
Once(qs) ==
  \A q, r \in Queues :
    \A i \in DOMAIN qs[q], j \in DOMAIN qs[r] :
      qs[q][i] = qs[r][j] => q = r /\ i = j

\* Where the running process is.  Every step asks, and is taken only while the
\* queues are sequences.
At(l)  == Head(frames[current]) = l /\ Once(queue)
AtUser == Head(frames[current]) \in UserLabels /\ Once(queue)

\* The frames with the innermost point of the running process replaced by s,
\* and with s called from it.
Becomes(s) == [frames EXCEPT ![current] = s \o Tail(@)]
Calls(l)   == [frames EXCEPT ![current] = <<l>> \o @]

-----------------------------------------------------------------------------
(* The operators named ...Mutant are wrong variants, each placed before the  *)
(* definition it is a variant of; no specification uses them.               *)

\* prepends where the code appends
EnqueueMutant(qs, q, p) == [qs EXCEPT ![q] = <<p>> \o @]

\* queue_append and the unlinking half of queue_dequeue, over the queues qs
Enqueue(qs, q, p) == [qs EXCEPT ![q] = Append(@, p)]
Dequeue(qs, q)    == [qs EXCEPT ![q] = Tail(@)]

\* queue_delete_fast, of the process at position i
Unlink(qs, q, i) == [qs EXCEPT ![q] = RemoveAt(@, i)]

\* leaves the process it switches to on the run queue
ScheduleNextMutant(qs) ==
  /\ current' = IF qs["run_queue"] = <<>> THEN Idle ELSE Head(qs["run_queue"])
  /\ queue' = qs
  /\ irq' = TRUE

(* schedule_next_process, with qs the queues it finds.  It masks IRQs, picks *)
(* the next process and switches stacks.  The process it switches to comes  *)
(* out either at its first instruction (cpsr 0x15A) or at the end of its    *)
(* own schedule_next_process: in both cases with IRQs enabled.              *)
ScheduleNext(qs) ==
  /\ IF qs["run_queue"] = <<>>
     THEN current' = Idle /\ queue' = qs
     ELSE current' = Head(qs["run_queue"]) /\ queue' = Dequeue(qs, "run_queue")
  /\ irq' = TRUE

\* drops the waiter, or wakes nobody
AfterVDropMutant(qs, s) == IF qs[s] = <<>> THEN qs ELSE Dequeue(qs, s)
AfterVSleepMutant(qs, s) == qs

\* The queues semaphore_V(s) leaves of qs: the first waiter is started.
AfterV(qs, s) ==
  IF qs[s] = <<>> THEN qs
  ELSE Enqueue(Dequeue(qs, s), "run_queue", Head(qs[s]))

\* semaphore_P(s), called at the running process's innermost point, which
\* becomes ret.  A blocked caller leaves a P_ret point that remembers prev_level.
PRet == IF irq THEN "P_ret_on" ELSE "P_ret_off"

\* tests the count before it is decremented
SemPMutant(s, ret) ==
  /\ count' = [count EXCEPT ![s] = @ - 1]
  /\ \/ /\ count[s] < 0
        /\ frames' = Becomes(<<PRet, ret>>)
        /\ ScheduleNext(Enqueue(queue, s, current))
     \/ /\ count[s] >= 0
        /\ frames' = Becomes(<<ret>>)
        /\ UNCHANGED <<current, queue, irq>>

SemP(s, ret) ==
  /\ count' = [count EXCEPT ![s] = @ - 1]
  /\ \/ /\ count[s] - 1 < 0
        /\ frames' = Becomes(<<PRet, ret>>)
        /\ ScheduleNext(Enqueue(queue, s, current))
     \/ /\ count[s] - 1 >= 0
        /\ frames' = Becomes(<<ret>>)
        /\ UNCHANGED <<current, queue, irq>>

-----------------------------------------------------------------------------
(* Boot: process_system_initialize.  Init is the state after both forks;    *)
(* salloc left IRQs masked.                                                 *)
Init ==
  /\ current = Idle
  /\ queue = [q \in Queues |-> IF q = "run_queue" THEN <<Reaper, Main>> ELSE <<>>]
  /\ count = [s \in Sems |-> IF s = "sema" THEN SemaInit ELSE 0]
  /\ ticks = 0
  /\ awaken_tick = [p \in Pcb |-> 0]
  /\ irq = FALSE
  /\ frames = [p \in Pcb |-> CASE p = Idle   -> <<"boot_enable">>
                               [] p = Reaper -> <<"reap_wait">>
                               [] p = Main   -> <<"user">>
                               [] OTHER      -> <<>>]
  /\ to_free = Null
  /\ pcbs = {Idle, Reaper, Main}
  /\ stacks = {Reaper, Main}
  /\ raced = FALSE

\* ENABLE_INTERRUPTS()
BootEnable ==
  /\ At("boot_enable")
  /\ irq' = TRUE
  /\ frames' = Becomes(<<"boot_stop">>)
  /\ UNCHANGED <<current, queue, count, clockVars, heapVars, raced>>

\* process_stop()
BootStop ==
  /\ At("boot_stop")
  /\ frames' = Becomes(<<"idle">>)
  /\ ScheduleNext(queue)
  /\ UNCHANGED <<count, clockVars, heapVars, raced>>

\* while(1) schedule_next_process()
IdleLoop ==
  /\ At("idle")
  /\ ScheduleNext(queue)
  /\ UNCHANGED <<count, clockVars, frames, heapVars, raced>>

-----------------------------------------------------------------------------
(* What a process body may call.                                            *)

\* process_fork: both sallocs of create_process succeed, and salloc returns
\* with IRQs masked; every level saved after that is DISABLED, so the caller
\* comes back from process_fork masked.
Fork(c) ==
  /\ AtUser
  /\ c \in Procs \ pcbs
  /\ pcbs' = pcbs \cup {c}
  /\ stacks' = stacks \cup {c}
  /\ frames' = [frames EXCEPT ![c] = <<"user">>]
  /\ queue' = Enqueue(queue, "run_queue", c)
  /\ irq' = FALSE
  /\ UNCHANGED <<current, count, clockVars, to_free, raced>>

\* proc_sleep_ms up to the point where it restores the caller's level
Sleep(n) ==
  /\ AtUser
  /\ awaken_tick' = [awaken_tick EXCEPT ![current] = (n + ticks) % TickMod]
  /\ queue' = Enqueue(queue, "tick_queue", current)
  /\ frames' = Calls("sleep_stop")
  /\ UNCHANGED <<current, count, ticks, irq, heapVars, raced>>

\* the process_stop() of proc_sleep_ms
SleepStop ==
  /\ At("sleep_stop")
  /\ frames' = Becomes(<<>>)
  /\ ScheduleNext(queue)
  /\ UNCHANGED <<count, clockVars, heapVars, raced>>

\* process_yield's process_start(get_current_process()), from a process body
Yield ==
  /\ AtUser
  /\ queue' = Enqueue(queue, "run_queue", current)
  /\ frames' = Calls("yield_sched")
  /\ UNCHANGED <<current, count, clockVars, irq, heapVars, raced>>

\* process_yield's schedule_next_process()
YieldSchedule ==
  /\ At("yield_sched")
  /\ frames' = Becomes(<<>>)
  /\ ScheduleNext(queue)
  /\ UNCHANGED <<count, clockVars, heapVars, raced>>

\* semaphore_P(sema) and semaphore_V(sema), used as a lock
Lock ==
  /\ At("user")
  /\ SemP("sema", "critical")
  /\ UNCHANGED <<clockVars, heapVars, raced>>

Unlock ==
  /\ At("critical")
  /\ count' = [count EXCEPT !["sema"] = @ + 1]
  /\ queue' = AfterV(queue, "sema")
  /\ frames' = Becomes(<<"user">>)
  /\ UNCHANGED <<current, clockVars, irq, heapVars, raced>>

\* the end of semaphore_P in a process that was blocked
PReturn(level) ==
  /\ At(IF level THEN "P_ret_on" ELSE "P_ret_off")
  /\ irq' = level
  /\ frames' = Becomes(<<>>)
  /\ UNCHANGED <<current, queue, count, clockVars, heapVars, raced>>

\* does not tell the reaper
ExitSilentMutant ==
  /\ At("user")
  /\ frames' = [frames EXCEPT ![current] = <<>>]
  /\ ScheduleNext(Enqueue(queue, "dead_queue", current))
  /\ UNCHANGED <<count, clockVars, heapVars, raced>>

\* A process body returns: its lr holds cleanup(), which runs masked to the end.
Exit ==
  /\ At("user")
  /\ count' = [count EXCEPT !["dead_queue_semaphore"] = @ + 1]
  /\ frames' = [frames EXCEPT ![current] = <<>>]
  /\ ScheduleNext(AfterV(Enqueue(queue, "dead_queue", current),
                         "dead_queue_semaphore"))
  /\ UNCHANGED <<clockVars, heapVars, raced>>

-----------------------------------------------------------------------------
(* reaper_process.                                                          *)
ReapWait ==
  /\ At("reap_wait")
  /\ SemP("dead_queue_semaphore", "reap_take")
  /\ UNCHANGED <<clockVars, heapVars, raced>>

\* reads the first dead process and leaves it on the queue
ReapTakeMutant ==
  /\ At("reap_take")
  /\ to_free' = IF queue["dead_queue"] = <<>> THEN Null ELSE Head(queue["dead_queue"])
  /\ frames' = Becomes(<<"reap_stack">>)
  /\ UNCHANGED <<current, queue, count, clockVars, irq, pcbs, stacks, raced>>

\* queue_dequeue(dead_queue, &to_free): NULL when the queue is empty
ReapTake ==
  /\ At("reap_take")
  /\ IF queue["dead_queue"] = <<>>
     THEN to_free' = Null /\ UNCHANGED queue
     ELSE /\ to_free' = Head(queue["dead_queue"])
          /\ queue' = Dequeue(queue, "dead_queue")
  /\ frames' = Becomes(<<"reap_stack">>)
  /\ UNCHANGED <<current, count, clockVars, irq, pcbs, stacks, raced>>

ReapStack ==
  /\ At("reap_stack")
  /\ stacks' = stacks \ {to_free}
  /\ frames' = Becomes(<<"reap_pcb">>)
  /\ UNCHANGED <<current, queue, count, clockVars, irq, to_free, pcbs, raced>>

ReapPcb ==
  /\ At("reap_pcb")
  /\ pcbs' = pcbs \ {to_free}
  /\ to_free' = Null
  /\ frames' = Becomes(<<"reap_wait">>)
  /\ UNCHANGED <<current, queue, count, clockVars, irq, stacks, raced>>

-----------------------------------------------------------------------------
(* The timer interrupt.                                                     *)

\* irq (boot.S) pushes the registers; c_irq_handler finds ARM_TIMER pending,
\* clears it and enables IRQs before it calls the handler.
Nested(f) == Cardinality({i \in DOMAIN f : f[i] \in ClockLabels})

IrqEntry ==
  /\ irq /\ Once(queue)
  /\ Nested(frames[current]) < MaxNested
  /\ frames' = Calls("clk_enter")
  /\ raced' = (raced \/ \E w \in HandOver : At(w))
  /\ UNCHANGED <<current, queue, count, clockVars, irq, heapVars>>

ClockEnter ==
  /\ At("clk_enter")
  /\ ticks' = (ticks + 1) % TickMod
  /\ irq' = FALSE
  /\ frames' = Becomes(<<"clk_awaken">>)
  /\ UNCHANGED <<current, queue, count, awaken_tick, heapVars, raced>>

\* < for <=
DueMutant == {i \in DOMAIN queue["tick_queue"] :
                awaken_tick[queue["tick_queue"][i]] < ticks}

\* should_awaken, over the positions of tick_queue
Due == {i \in DOMAIN queue["tick_queue"] :
          awaken_tick[queue["tick_queue"][i]] <= ticks}

\* starts the sleeper without unlinking it from tick_queue
ClockAwakenMutant ==
  /\ At("clk_awaken")
  /\ \E i \in Due :
       /\ \A j \in Due : i <= j
       /\ queue' = Enqueue(queue, "run_queue", queue["tick_queue"][i])
  /\ UNCHANGED <<current, count, clockVars, irq, frames, heapVars, raced>>

\* one round of clock_handler's loop: queue_find returns the first sleeper that
\* is due, queue_delete_fast unlinks it, process_start appends it
ClockAwaken ==
  /\ At("clk_awaken")
  /\ \E i \in Due :
       /\ \A j \in Due : i <= j
       /\ queue' = Enqueue(Unlink(queue, "tick_queue", i),
                           "run_queue", queue["tick_queue"][i])
  /\ UNCHANGED <<current, count, clockVars, irq, frames, heapVars, raced>>

\* queue_find finds nothing; the level restored is the enabled one of c_irq_handler
ClockDone ==
  /\ At("clk_awaken")
  /\ Due = {}
  /\ irq' = TRUE
  /\ frames' = Becomes(<<"clk_yield">>)
  /\ UNCHANGED <<current, queue, count, clockVars, heapVars, raced>>

\* clock_handler's process_yield(), up to its schedule_next_process()
ClockYield ==
  /\ At("clk_yield")
  /\ queue' = Enqueue(queue, "run_queue", current)
  /\ frames' = Becomes(<<"yield_sched", "clk_ret">>)
  /\ UNCHANGED <<current, count, clockVars, irq, heapVars, raced>>

\* c_irq_handler masks IRQs and returns; eret resumes the code that was
\* interrupted, which had IRQs enabled.
IrqReturn ==
  /\ At("clk_ret")
  /\ irq' = TRUE
  /\ frames' = Becomes(<<>>)
  /\ UNCHANGED <<current, queue, count, clockVars, heapVars, raced>>

-----------------------------------------------------------------------------
\* Calls a process body chooses to make ...
UserStep ==
  \/ \E c \in Procs : Fork(c)
  \/ \E n \in SleepTicks : Sleep(n)
  \/ Yield
  \/ Lock
  \/ Unlock
  \/ Exit

\* ... and code of the system, which runs on by itself once it is entered.
SystemStep ==
  \/ BootEnable \/ BootStop \/ IdleLoop
  \/ SleepStop \/ YieldSchedule
  \/ \E level \in BOOLEAN : PReturn(level)
  \/ ReapWait \/ ReapTake \/ ReapStack \/ ReapPcb
  \/ ClockEnter \/ ClockAwaken \/ ClockDone \/ ClockYield \/ IrqReturn

\* Two lists share a PCB: what the code does next is not modelled.
Crossed == ~Once(queue) /\ UNCHANGED vars

Next == UserStep \/ SystemStep \/ IrqEntry \/ Crossed

Spec == Init /\ [][Next]_vars

(***************************************************************************)
(* Fairness.  The CPU runs on: system code that is entered is executed.  A *)
(* timer interrupt stays pending until it is taken, so it is taken if IRQs *)
(* are enabled again and again, even if never for long.  The timer period  *)
(* (50 ms) leaves room for the few instructions of a reaper step, of the   *)
(* end of semaphore_P and of a critical section that is over.  The last    *)
(* two conjuncts are obligations of the process bodies: to leave critical  *)
(* sections, and, as nothing can preempt a process that process_fork left  *)
(* masked, to sleep, yield or return rather than spin there.               *)
(***************************************************************************)
RunsOn(p) ==
  /\ current = p
  /\ \/ ReapWait \/ ReapTake \/ ReapStack \/ ReapPcb
     \/ Unlock
     \/ \E level \in BOOLEAN : PReturn(level)
MaskedStop == ~irq /\ (Yield \/ Exit \/ \E n \in SleepTicks : Sleep(n))

Fairness ==
  /\ WF_vars(SystemStep)
  /\ SF_vars(IrqEntry)
  /\ \A p \in Procs \cup {Reaper} : SF_vars(RunsOn(p))
  /\ SF_vars(MaskedStop)

FairSpec == Spec /\ Fairness

-----------------------------------------------------------------------------
TypeOK ==
  /\ current \in Pcb
  /\ queue \in [Queues -> Seq(Pcb)]
  /\ count \in [Sems -> Int]
  /\ ticks \in 0..(TickMod - 1)
  /\ awaken_tick \in [Pcb -> 0..(TickMod - 1)]
  /\ irq \in BOOLEAN
  /\ frames \in [Pcb -> Seq(Labels)]
  /\ frames[current] # <<>>
  /\ to_free \in Procs \cup {Null}
  /\ pcbs \in SUBSET Pcb
  /\ stacks \in SUBSET (Pcb \ {Idle})
  /\ raced \in BOOLEAN

\* The processes linked on queue q.
On(q) == Range(queue[q])

\* The queue code links a process through the next and prev fields of its own
\* PCB, so none may be linked twice.  It is linked twice only by the handler of a
\* timer that expired in a hand-over window (process.c:133-134, 209-211), and then
\* always, at the latest by the process_yield at the end of that handler, before
\* any other process runs.
LinkedOnce == Once(queue) <=> (raced => Head(frames[current]) \in BeforeYield)

\* process.c:132: "invariant: the current process is not on the run queue",
\* wherever process_yield may be called: in a process body and at the end of
\* clock_handler.
YieldInvariant ==
  Head(frames[current]) \in UserLabels \cup {"clk_yield"}
    => current \notin On("run_queue")

\* It is broken by nothing but a timer in a hand-over window.
YieldUnraced == ~raced => YieldInvariant

(* What follows is said of the time until a timer expires in a hand-over      *)
(* window: the double link it makes drops processes from the queues.         *)

\* Nobody is lost: a process that has code left to run is running or linked on
\* a queue from which it can be started again.  (The idle process need not be:
\* schedule_next_process falls back on it.)
NobodyLost ==
  ~raced =>
    \A p \in Pcb \ {Idle} :
      frames[p] # <<>> =>
        \/ p = current
        \/ p \in On("run_queue") \cup On("tick_queue") \cup UNION {On(s) : s \in Sems}

\* No use after free: the PCB and the stack of the running process, and of every
\* process that can run again, are allocated; a process on dead_queue still has
\* both, and nothing of it can run any more.
NoUseAfterFree ==
  ~raced =>
    /\ \A p \in Procs \cup {Reaper} : frames[p] # <<>> => p \in pcbs \cap stacks
    /\ \A q \in Queues : On(q) \subseteq pcbs
    /\ \A p \in On("dead_queue") : p \in stacks /\ frames[p] = <<>>

\* The reaper always finds the dead process it was woken for.
ReaperHasCorpse ==
  ~raced /\ At("reap_take") => queue["dead_queue"] # <<>>

\* No lost wake-up: a process is blocked in semaphore_P exactly when the count
\* says so, one process per missing unit.
SemaphoreWaiters ==
  ~raced =>
    \A s \in Sems : Len(queue[s]) = IF count[s] < 0 THEN -count[s] ELSE 0

\* Processes past semaphore_P(sema) that have not reached semaphore_V(sema).
Holders == {p \in Pcb : /\ frames[p] # <<>>
                        /\ "critical" \in Range(frames[p])
                        /\ Range(frames[p]) \cap PRetLabels = {}}

\* `sema` admits at most its initial count of processes at a time.
MutualExclusion == ~raced => Cardinality(Holders) <= SemaInit

\* First come, first served: on every queue a process only moves forward, and it
\* leaves from the front, the run queue only to run; a sleeper leaves when it is due.
\* So who is third on the run queue waits for two others at most, whoever else
\* yields, is awakened or is forked meanwhile (process.c:133, 145, 220; synch.c:27, 44).
\* A step that links a process twice is not a move on sequences, and is left out.
NoOvertaking ==
  [][Once(queue') =>
       \A q \in Queues : \A i \in DOMAIN queue[q] :
         \/ \E j \in DOMAIN queue'[q] : j <= i /\ queue'[q][j] = queue[q][i]
         \/ q = "tick_queue" /\ awaken_tick[queue[q][i]] <= ticks
         \/ q # "tick_queue" /\ i = 1 /\ (q = "run_queue" => current' = queue[q][i])]_vars

-----------------------------------------------------------------------------
\* Round robin: a process on the run queue gets the CPU.
ReadyRuns == \A p \in Procs : p \in On("run_queue") ~> (current = p \/ raced)

\* A sleeper is awakened, whatever the tick counter does when it wraps.
SleeperWakes ==
  \A p \in Procs : p \in On("tick_queue") ~> (p \in On("run_queue") \/ raced)

\* A process that has returned gets its stack and its PCB freed.
DeadReaped == \A p \in Procs : p \in On("dead_queue") ~> (p \notin pcbs \/ raced)

\* A process blocked on `sema` gets to its critical section.
WaiterEnters == \A p \in Procs : p \in On("sema") ~> (p \in Holders \/ raced)
=============================================================================
