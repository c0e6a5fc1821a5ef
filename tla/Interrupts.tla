----------------------------- MODULE Interrupts -----------------------------
(***************************************************************************)
(* What an interrupted or descheduled thread gets back: the irq stub and   *)
(* context_switch of src/boot.S with the registers they save, the          *)
(* dispatcher of src/interrupts.c with its tables and the enable registers *)
(* of the controller, and the start of the kernel as far as it sets these  *)
(* up.  Which thread runs next is Scheduler's subject: here it is any.     *)
(*                                                                         *)
(* A context is the part of the CPU a thread can see: the program point,   *)
(* r0-r12 as one value, lr, the condition flags and the IRQ mask.          *)
(***************************************************************************)
EXTENDS Integers, SequencesExt

CONSTANTS
  Threads,   \* processes that process_fork has made
  Boot,      \* the boot context, later the idle process
  Sources,   \* interrupt numbers the controller knows
  Noisy,     \* sources other than the timer, asserted all the time
  ARM_TIMER,
  MaxNest    \* bound: interrupts taken on one stack and not returned from

ASSUME InterruptsAssumption ==
  /\ Boot \notin Threads
  /\ Sources \subseteq 0..71 /\ ARM_TIMER \in Sources /\ ARM_TIMER >= 64
  /\ Noisy \subseteq Sources \ {ARM_TIMER}
  /\ MaxNest \in Nat

\* In r0-r12: what the code of thread t computes is t, what C code leaves is this.
Clobbered == "clobbered"

BootPoints == {"interrupts_init", "register", "set_timer_handler", "enable"}
OwnPoints  == {"user", "forked"}  \* a thread's own code; after a process_fork
Points == BootPoints \cup OwnPoints \cup
  {"cleanup", "yielded", "emerged", "c_irq_handler", "handler", "handled",
   "irq_end", "pop_registers", "pop_lr_pc", "kernel"}

Context == [pc : Points, r : Threads \cup {Boot, Clobbered}, lr : Points,
            nzcv : BOOLEAN, masked : BOOLEAN]

VARIABLES
  cpu,        \* the context of the running thread
  elr, spsr,  \* ELR_hyp and SPSR_hyp: overwritten by every interrupt
  current, alive,
  stack,      \* per thread: the contexts saved on its stack, last first
  truth,      \* per thread: those the stack stands for (no code reads it)
  timer,      \* the ARM timer asserts its interrupt
  enabled,    \* the three enable registers of the controller
  handlers,   \* irq numbers with an entry in handlers and clearers
  h           \* set_timer_handler has been called

ctrlVars == <<timer, enabled, handlers, h>>
threadVars == <<current, alive, stack, truth>>
hypVars == <<elr, spsr>>
vars == <<cpu, hypVars, threadVars, ctrlVars>>

\* A context at point p of C code, whose registers are the compiler's.
In(p, masked) == [pc |-> p, r |-> Clobbered, lr |-> "kernel", nzcv |-> FALSE, masked |-> masked]

\* create_process: cpsr 0x15A has IRQs on, r0 is the argument, and the process
\* returns to cleanup.
NewContext(t) == [pc |-> "user", r |-> t, lr |-> "cleanup", nzcv |-> FALSE, masked |-> FALSE]

\* The firmware may have left any source enabled, and runs with IRQs masked.
Init ==
  /\ cpu = In("interrupts_init", TRUE)
  /\ elr = "kernel" /\ spsr = [nzcv |-> FALSE, masked |-> TRUE]
  /\ current = Boot /\ alive = Threads \cup {Boot}
  /\ stack = [t \in alive |-> IF t = Boot THEN <<>> ELSE <<NewContext(t)>>]
  /\ truth = stack
  /\ timer = FALSE /\ enabled \in SUBSET Sources /\ handlers = {} /\ h = FALSE

Push(s, t, c) == [s EXCEPT ![t] = <<c>> \o @]
Pop(s, t) == [s EXCEPT ![t] = Tail(@)]
Saved == Head(stack[current])

-----------------------------------------------------------------------------
(* The start of the kernel, masked.  Operators named ...Mutant, here and     *)
(* below, are wrong variants of the definition that follows them; no        *)
(* specification uses them.                                                 *)

Basic == {n \in Sources : n >= 64}
GPU1  == {n \in Sources : n < 32}
GPU2  == {n \in Sources : n >= 32 /\ n < 64}

\* forgets irq_gpu_disable2
InterruptsInitMutant ==
  /\ cpu.pc = "interrupts_init"
  /\ handlers' = {} /\ enabled' = enabled \ (Basic \cup GPU1)
  /\ cpu' = [cpu EXCEPT !.pc = "register"]
  /\ UNCHANGED <<hypVars, threadVars, timer, h>>

InterruptsInit ==
  /\ cpu.pc = "interrupts_init"
  /\ handlers' = {} /\ enabled' = ((enabled \ Basic) \ GPU1) \ GPU2
  /\ cpu' = [cpu EXCEPT !.pc = "register"]
  /\ UNCHANGED <<hypVars, threadVars, timer, h>>

\* in the table and the enable register of its number
RegisterIrqHandler(n) == handlers' = handlers \cup {n} /\ enabled' = enabled \cup {n}

ArmTimerInit ==
  /\ cpu.pc = "register"
  /\ RegisterIrqHandler(ARM_TIMER)
  /\ cpu' = [cpu EXCEPT !.pc = "set_timer_handler"]
  /\ UNCHANGED <<hypVars, threadVars, timer, h>>

SetTimerHandler ==
  /\ cpu.pc = "set_timer_handler"
  /\ h' = TRUE
  /\ cpu' = [cpu EXCEPT !.pc = "enable"]
  /\ UNCHANGED <<hypVars, threadVars, timer, enabled, handlers>>

\* ENABLE_INTERRUPTS(); what follows is the idle loop
EnableInterrupts ==
  /\ cpu.pc = "enable"
  /\ cpu' = [NewContext(Boot) EXCEPT !.lr = "kernel"]
  /\ UNCHANGED <<hypVars, threadVars, ctrlVars>>

-----------------------------------------------------------------------------
(* Interrupts                                                               *)

TimerExpires ==
  /\ timer' = TRUE
  /\ UNCHANGED <<cpu, hypVars, threadVars, enabled, handlers, h>>

Pending == enabled \cap (Noisy \cup IF timer THEN {ARM_TIMER} ELSE {})

\* The CPU takes an interrupt: ELR and SPSR are set and IRQs masked; the stub
\* pushes r0-r12 and lr, ELR and cpsr, whose flags are still the interrupted ones.
IrqEntry ==
  /\ ~cpu.masked /\ Pending # {} /\ Len(truth[current]) < MaxNest
  /\ elr' = cpu.pc /\ spsr' = [nzcv |-> cpu.nzcv, masked |-> cpu.masked]
  /\ stack' = Push(stack, current, [cpu EXCEPT !.masked = TRUE])
  /\ truth' = Push(truth, current, cpu)
  /\ cpu' = In("c_irq_handler", TRUE)
  /\ UNCHANGED <<current, alive, ctrlVars>>

Clearer == timer' = FALSE

\* c_irq_handler: a pending source that has a handler is cleared and IRQs are
\* enabled; without one there is nothing to do.  (Only the timer has one.)
Dispatch ==
  /\ cpu.pc = "c_irq_handler"
  /\ IF Pending \cap handlers = {}
     THEN cpu' = In("irq_end", TRUE) /\ UNCHANGED timer
     ELSE cpu' = In("handler", FALSE) /\ Clearer
  /\ UNCHANGED <<hypVars, threadVars, enabled, handlers, h>>

\* DISABLE_INTERRUPTS() and the return from c_irq_handler.  Until then the IRQs that
\* schedule_next_process has enabled are on: one that is pending comes first.
Handled ==
  /\ cpu.pc = "handled"
  /\ cpu' = In("irq_end", TRUE)
  /\ UNCHANGED <<hypVars, threadVars, ctrlVars>>

\* returns where the latest interrupt came from: ELR is not put back
IrqReturnMutant ==
  /\ cpu.pc = "irq_end"
  /\ cpu' = [Saved EXCEPT !.pc = elr, !.nzcv = spsr.nzcv, !.masked = spsr.masked]
  /\ stack' = Pop(stack, current) /\ truth' = Pop(truth, current)
  /\ UNCHANGED <<hypVars, current, alive, ctrlVars>>

\* The end of the stub puts ELR, r0-r12 and lr back, and cpsr, with IRQs still
\* masked; eret then overwrites cpsr with SPSR, which nothing has put back.
IrqReturn ==
  /\ cpu.pc = "irq_end"
  /\ elr' = Saved.pc
  /\ cpu' = [Saved EXCEPT !.nzcv = spsr.nzcv, !.masked = spsr.masked]
  /\ stack' = Pop(stack, current) /\ truth' = Pop(truth, current)
  /\ UNCHANGED <<spsr, current, alive, ctrlVars>>

-----------------------------------------------------------------------------
(* Switching threads                                                        *)

\* schedule_next_process, to return to point `back`: IRQs are masked,
\* context_switch saves the caller, takes the stack of t and its cpsr.  From here
\* on t runs, with its registers still on the stack: a new process with IRQs on.
SwitchTo(t, back) ==
  LET caller == [pc |-> back, r |-> cpu.r, lr |-> back, nzcv |-> cpu.nzcv, masked |-> TRUE]
      pushed == Push(stack, current, caller)
  IN  /\ stack' = pushed /\ truth' = Push(truth, current, caller)
      /\ current' = t
      /\ cpu' = [In("pop_registers", Head(pushed[t]).masked) EXCEPT !.nzcv = Head(pushed[t]).nzcv]
      /\ UNCHANGED <<hypVars, ctrlVars>>

\* handler() of arm_timer.c: clock_handler ends in process_yield
HandlerYields ==
  /\ cpu.pc = "handler" /\ h
  /\ \E t \in alive : SwitchTo(t, "emerged")
  /\ UNCHANGED alive

\* a thread yields, sleeps or blocks
Yield ==
  /\ cpu.pc \in OwnPoints
  /\ \E t \in alive : SwitchTo(t, "yielded")
  /\ UNCHANGED alive

\* cleanup: a thread that ends is never switched to again
Cleanup ==
  /\ cpu.pc = "cleanup"
  /\ \E t \in alive \ {current} : SwitchTo(t, "kernel")
  /\ alive' = alive \ {current}

PopRegisters ==
  /\ cpu.pc = "pop_registers"
  /\ cpu' = [cpu EXCEPT !.pc = "pop_lr_pc", !.r = Saved.r]
  /\ UNCHANGED <<hypVars, threadVars, ctrlVars>>

\* pops lr and pc from one word: the frame is not used up
PopLrPcMutant ==
  /\ cpu.pc = "pop_lr_pc"
  /\ cpu' = [cpu EXCEPT !.pc = Saved.pc, !.lr = Saved.lr]
  /\ truth' = Pop(truth, current)
  /\ UNCHANGED <<hypVars, current, alive, stack, ctrlVars>>

PopLrPc ==
  /\ cpu.pc = "pop_lr_pc"
  /\ cpu' = [cpu EXCEPT !.pc = Saved.pc, !.lr = Saved.lr]
  /\ stack' = Pop(stack, current) /\ truth' = Pop(truth, current)
  /\ UNCHANGED <<hypVars, current, alive, ctrlVars>>

\* the level that the caller had, as if it came back with cpsr
YieldedMutant ==
  /\ cpu.pc = "yielded"
  /\ cpu' = [cpu EXCEPT !.pc = "user", !.lr = IF current = Boot THEN "kernel" ELSE "cleanup"]
  /\ UNCHANGED <<hypVars, threadVars, ctrlVars>>

\* SET_INTERRUPT_LEVEL(ENABLED), out of a switch that a thread has called
Yielded ==
  /\ cpu.pc = "yielded"
  /\ cpu' = [cpu EXCEPT !.pc = "user", !.masked = FALSE,
                        !.lr = IF current = Boot THEN "kernel" ELSE "cleanup"]
  /\ UNCHANGED <<hypVars, threadVars, ctrlVars>>

\* SET_INTERRUPT_LEVEL(ENABLED), out of the switch of the timer's handler, which
\* then returns to c_irq_handler
Emerged ==
  /\ cpu.pc = "emerged"
  /\ cpu' = In("handled", FALSE)
  /\ UNCHANGED <<hypVars, threadVars, ctrlVars>>

\* the body of a thread: compares, forks, or returns
Work ==
  /\ cpu.pc \in OwnPoints
  /\ cpu' = [cpu EXCEPT !.nzcv = ~@]
  /\ UNCHANGED <<hypVars, threadVars, ctrlVars>>

\* process_fork comes back with the IRQs masked that its sallocs have masked.  (The
\* process it makes is one of Threads.)
Fork ==
  /\ cpu.pc \in OwnPoints /\ current # Boot
  /\ cpu' = [cpu EXCEPT !.pc = "forked", !.masked = TRUE]
  /\ UNCHANGED <<hypVars, threadVars, ctrlVars>>

Return ==
  /\ cpu.pc \in OwnPoints /\ current # Boot
  /\ cpu' = [cpu EXCEPT !.pc = cpu.lr]
  /\ UNCHANGED <<hypVars, threadVars, ctrlVars>>

-----------------------------------------------------------------------------
KernelStep ==
  \/ InterruptsInit \/ ArmTimerInit \/ SetTimerHandler \/ EnableInterrupts
  \/ Dispatch \/ Handled \/ IrqReturn \/ HandlerYields
  \/ Cleanup \/ PopRegisters \/ PopLrPc \/ Yielded \/ Emerged

Next == KernelStep \/ TimerExpires \/ IrqEntry \/ Yield \/ Work \/ Fork \/ Return

Spec == Init /\ [][Next]_vars

\* Kernel code that is entered runs on, and the CPU takes an interrupt that is
\* pending each time IRQs are on.
FairSpec == Spec /\ WF_vars(KernelStep) /\ SF_vars(IrqEntry)

-----------------------------------------------------------------------------
(* Properties                                                               *)

\* Saved contexts are contexts, and a thread whose own code runs has none: the
\* switches and the interrupts on its stack are all undone (boot.S:46-72).
TypeOK ==
  /\ cpu \in Context
  /\ elr \in Points /\ spsr \in [nzcv : BOOLEAN, masked : BOOLEAN]
  /\ alive \subseteq Threads \cup {Boot} /\ current \in alive
  /\ \A t \in Threads \cup {Boot} : stack[t] \in Seq(Context) /\ truth[t] \in Seq(Context)
  /\ timer \in BOOLEAN /\ h \in BOOLEAN
  /\ enabled \subseteq Sources /\ handlers \subseteq Sources
  /\ cpu.pc \in OwnPoints => stack[current] = <<>>

\* The context that the running thread gets back, of all that it has saved, is
\* the one that it lost last: program point, r0-r12, lr and IRQ mask, through
\* any nesting of interrupts and switches.
GetsBack(fields) ==
  Len(truth'[current]) < Len(truth[current]) =>
    \A f \in fields : cpu'[f] = Head(truth[current])[f]

ContextKept == [][GetsBack({"pc", "r", "lr", "masked"})]_vars

\* "needed to restore the thread's state" (process.c:56): the condition flags too.
FlagsKept == [][GetsBack({"nzcv"})]_vars

\* While an interrupt can be taken, every source that can raise one has a
\* handler: c_irq_handler clears no other, and one that stays pending would be
\* taken again at every eret (interrupts.c:33), whatever the firmware left enabled.
EnabledHandled == ~cpu.masked => enabled \subseteq handlers

\* A thread that has forked and does nothing but compute: nothing can interrupt it.
MaskedSpin == cpu.pc = "forked"

\* The timer is always served, unless a thread spins for ever with the IRQs off
\* that process_fork left off (smemory.c:64): no path through handlers and switches
\* leaves them off for good.
TimerServed == <>[]MaskedSpin \/ (timer ~> ~timer)
=============================================================================
