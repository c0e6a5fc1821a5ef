-------------------------- MODULE InterruptsProofs --------------------------
(***************************************************************************)
(* Proofs about Interrupts: types, EnabledHandled and ContextKept, for any *)
(* number of threads, any sources and any depth of nested interrupts.      *)
(***************************************************************************)
EXTENDS Interrupts, TLAPS, SequenceTheorems

Thr == Threads \cup {Boot}
Flags == [nzcv : BOOLEAN, masked : BOOLEAN]

\* Where an interrupt has been taken and not returned from, where a switch has
\* not popped all of its frame, and where a thread has nothing on its stack.
IrqPoints == {"c_irq_handler", "handler", "emerged", "handled", "irq_end"}
PopPoints == {"pop_registers", "pop_lr_pc"}
Bottom == BootPoints \cup {"user", "forked", "cleanup", "yielded", "kernel"}

\* What holds of a context c whose thread had saved tr, from position k on,
\* when SPSR is s.
OnTop(c, tr, k, s) ==
  /\ c.pc \in Bottom => k = Len(tr) + 1
  /\ c.pc \in IrqPoints => k <= Len(tr) /\ tr[k].masked = FALSE /\ s.masked = FALSE
  /\ c.pc \in PopPoints => k <= Len(tr) /\ c.masked = tr[k].masked
  /\ c.pc = "pop_lr_pc" => c.r = tr[k].r
  /\ c.pc \in {"user", "forked"} => c.lr \in {"cleanup", "kernel"}

\* The saved context c is the context d, but for flags and mask.
Same(c, d) == c.pc = d.pc /\ c.r = d.r /\ c.lr = d.lr

\* The stack st stands for tr, each of whose contexts was on top of the rest.
StackOK(st, tr, s) ==
  /\ Len(st) = Len(tr)
  /\ \A k \in 1..Len(tr) : Same(st[k], tr[k]) /\ OnTop(tr[k], tr, k + 1, s)

Types ==
  /\ cpu \in Context /\ elr \in Points /\ spsr \in Flags
  /\ alive \subseteq Thr /\ current \in alive
  /\ stack \in [Thr -> Seq(Context)] /\ truth \in [Thr -> Seq(Context)]
  /\ timer \in BOOLEAN /\ h \in BOOLEAN
  /\ enabled \subseteq Sources /\ handlers \subseteq Sources

\* A thread that does not run has called context_switch, or is new.
ParkedOK ==
  \A t \in Thr \ {current} :
    Len(truth[t]) > 0 /\ stack[t][1].masked = truth[t][1].masked

StacksOK == \A t \in Thr : StackOK(stack[t], truth[t], spsr)

\* Before interrupts_init IRQs are masked.
TablesOK == (cpu.pc = "interrupts_init" /\ cpu.masked) \/ enabled \subseteq handlers

\* The inductive invariant.
IInv ==
  Types /\ OnTop(cpu, truth[current], 1, spsr) /\ StacksOK /\ ParkedOK /\ TablesOK

-----------------------------------------------------------------------------
(* Stacks                                                                   *)

\* A context in front of a sequence.
LEMMA ConsFacts ==
  ASSUME NEW st \in Seq(Context), NEW c \in Context, NEW new, new = <<c>> \o st
  PROVE  /\ new \in Seq(Context) /\ Len(new) = Len(st) + 1 /\ new[1] = c
         /\ \A k \in 1..Len(st) : new[k + 1] = st[k]
         /\ Len(st) \in Nat
OBVIOUS

\* A sequence without its first context.
LEMMA TailFacts ==
  ASSUME NEW st \in Seq(Context), Len(st) > 0
  PROVE  /\ Tail(st) \in Seq(Context) /\ Len(Tail(st)) = Len(st) - 1
         /\ Head(st) = st[1] /\ st[1] \in Context
         /\ \A k \in 1..Len(st) - 1 : Tail(st)[k] = st[k + 1]
         /\ Len(st) \in Nat
OBVIOUS

\* Saving a context that is on top keeps a stack in order.
LEMMA PushLemma ==
  ASSUME NEW st \in Seq(Context), NEW tr \in Seq(Context), NEW s,
         NEW c \in Context, NEW d \in Context,
         StackOK(st, tr, s), Same(c, d), OnTop(d, tr, 1, s),
         NEW st2, st2 = <<c>> \o st, NEW tr2, tr2 = <<d>> \o tr
  PROVE  StackOK(st2, tr2, s)
<1>1. /\ Len(st2) = Len(tr2) /\ Len(tr2) = Len(tr) + 1 /\ Len(tr) \in Nat
      /\ st2[1] = c /\ tr2[1] = d
      /\ \A k \in 1..Len(tr) : st2[k + 1] = st[k] /\ tr2[k + 1] = tr[k]
  BY ConsFacts DEF StackOK
<1>2. ASSUME NEW x, NEW k \in 1..(Len(tr) + 1), OnTop(x, tr, k, s)
      PROVE  OnTop(x, tr2, k + 1, s)
  <2>1. CASE k \in 1..Len(tr)
    <3>1. tr2[k + 1] = tr[k] /\ k <= Len(tr) /\ k + 1 <= Len(tr2)
      BY <1>1, <2>1
    <3>2. k = Len(tr) + 1 <=> k + 1 = Len(tr2) + 1
      BY <1>1
    <3> QED
      BY <1>2, <3>1, <3>2 DEF OnTop
  <2>2. CASE k = Len(tr) + 1
    <3>1. ~(k <= Len(tr)) /\ k + 1 = Len(tr2) + 1
      BY <1>1, <2>2
    <3>2. x.pc \notin IrqPoints /\ x.pc \notin PopPoints /\ x.pc # "pop_lr_pc"
      BY <1>2, <3>1 DEF OnTop, PopPoints
    <3> QED
      BY <1>2, <3>1, <3>2 DEF OnTop
  <2> QED
    BY <1>1, <2>1, <2>2
<1>3. ASSUME NEW k \in 1..Len(tr2)
      PROVE  Same(st2[k], tr2[k]) /\ OnTop(tr2[k], tr2, k + 1, s)
  <2>1. CASE k = 1
    BY <1>1, <1>2, <2>1
  <2>2. CASE k # 1
    <3>1. k - 1 \in 1..Len(tr) /\ (k - 1) + 1 = k
      BY <1>1, <2>2
    <3>2. st2[k] = st[k - 1] /\ tr2[k] = tr[k - 1]
      BY <1>1, <3>1
    <3>3. Same(st[k - 1], tr[k - 1]) /\ OnTop(tr[k - 1], tr, k, s)
      BY <3>1 DEF StackOK
    <3>4. k \in 1..(Len(tr) + 1)
      BY <1>1
    <3> QED
      BY <3>2, <3>3, <3>4, <1>2
  <2> QED
    BY <2>1, <2>2
<1> QED
  BY <1>1, <1>3 DEF StackOK

\* Popping a stack that is in order leaves one that is, with the context that was
\* saved last on top.
LEMMA PopLemma ==
  ASSUME NEW st \in Seq(Context), NEW tr \in Seq(Context), NEW s,
         StackOK(st, tr, s), Len(tr) > 0
  PROVE  /\ StackOK(Tail(st), Tail(tr), s)
         /\ OnTop(tr[1], Tail(tr), 1, s)
         /\ Same(st[1], tr[1])
<1>1. /\ Len(Tail(st)) = Len(Tail(tr)) /\ Len(Tail(tr)) = Len(tr) - 1 /\ Len(tr) \in Nat
      /\ \A k \in 1..Len(tr) - 1 : Tail(st)[k] = st[k + 1] /\ Tail(tr)[k] = tr[k + 1]
  BY TailFacts DEF StackOK
<1>2. ASSUME NEW x, NEW k \in 1..Len(tr), OnTop(x, tr, k + 1, s)
      PROVE  OnTop(x, Tail(tr), k, s)
  <2>1. CASE k \in 1..Len(tr) - 1
    <3>1. Tail(tr)[k] = tr[k + 1] /\ k <= Len(Tail(tr)) /\ k + 1 <= Len(tr)
      BY <1>1, <2>1
    <3>2. k = Len(Tail(tr)) + 1 <=> k + 1 = Len(tr) + 1
      BY <1>1
    <3> QED
      BY <1>2, <3>1, <3>2 DEF OnTop
  <2>2. CASE k = Len(tr)
    <3>1. ~(k + 1 <= Len(tr)) /\ k = Len(Tail(tr)) + 1
      BY <1>1, <2>2
    <3>2. x.pc \notin IrqPoints /\ x.pc \notin PopPoints /\ x.pc # "pop_lr_pc"
      BY <1>2, <3>1 DEF OnTop, PopPoints
    <3> QED
      BY <1>2, <3>1, <3>2 DEF OnTop
  <2> QED
    BY <1>1, <2>1, <2>2
<1>3. ASSUME NEW k \in 1..Len(Tail(tr))
      PROVE  Same(Tail(st)[k], Tail(tr)[k]) /\ OnTop(Tail(tr)[k], Tail(tr), k + 1, s)
  <2>1. k \in 1..Len(tr) - 1 /\ k + 1 \in 1..Len(tr)
    BY <1>1
  <2>2. Same(st[k + 1], tr[k + 1]) /\ OnTop(tr[k + 1], tr, (k + 1) + 1, s)
    BY <2>1 DEF StackOK
  <2> QED
    BY <1>1, <1>2, <2>1, <2>2
<1>4. 1 \in 1..Len(tr) /\ Same(st[1], tr[1]) /\ OnTop(tr[1], tr, 1 + 1, s)
  BY <1>1 DEF StackOK
<1> QED
  BY <1>1, <1>2, <1>3, <1>4 DEF StackOK

-----------------------------------------------------------------------------
(* Steps that touch no stack                                                *)

\* What such a step has to show.
LEMMA CpuLemma ==
  ASSUME IInv, UNCHANGED <<hypVars, threadVars>>,
         cpu' \in Context, OnTop(cpu', truth[current], 1, spsr), TablesOK',
         timer' \in BOOLEAN, h' \in BOOLEAN, enabled' \subseteq Sources, handlers' \subseteq Sources
  PROVE  IInv'
<1>1. UNCHANGED <<elr, spsr, current, alive, stack, truth>>
  BY DEF hypVars, threadVars
<1>2. Types'
  BY <1>1 DEF IInv, Types
<1>3. StacksOK'
  BY <1>1 DEF IInv, StacksOK
<1>4. ParkedOK'
  BY <1>1 DEF IInv, ParkedOK
<1> QED
  BY <1>1, <1>2, <1>3, <1>4 DEF IInv

\* The contexts that code runs in.
LEMMA InFacts ==
  ASSUME NEW p \in Points, NEW m \in BOOLEAN
  PROVE  In(p, m) \in Context /\ In(p, m).pc = p /\ In(p, m).masked = m
BY DEF In, Context, Points, OwnPoints, BootPoints, Clobbered

\* A point where nothing is saved can be followed by another, and one in a
\* handler by another.
LEMMA MoveLemma ==
  ASSUME NEW c, NEW d, NEW tr, NEW k, NEW s, OnTop(c, tr, k, s),
         \/ c.pc \in Bottom /\ d.pc \in Bottom
            /\ (d.pc \in {"user", "forked"} => d.lr \in {"cleanup", "kernel"})
         \/ c.pc \in IrqPoints /\ d.pc \in IrqPoints
  PROVE  OnTop(d, tr, k, s)
BY DEF OnTop, Bottom, BootPoints, IrqPoints, PopPoints

\* The start of the kernel.
LEMMA BootLemma ==
  ASSUME IInv, InterruptsInit \/ ArmTimerInit \/ SetTimerHandler \/ EnableInterrupts
  PROVE  IInv'
<1>0. /\ cpu \in Context /\ OnTop(cpu, truth[current], 1, spsr) /\ TablesOK
      /\ timer \in BOOLEAN /\ h \in BOOLEAN /\ enabled \subseteq Sources /\ handlers \subseteq Sources
  BY DEF IInv, Types
<1>1. CASE InterruptsInit
  <2>1. enabled' = {}
    <3>1. \A n \in Sources : n \in Basic \/ n \in GPU1 \/ n \in GPU2
      BY InterruptsAssumption DEF Basic, GPU1, GPU2
    <3> QED
      BY <1>0, <1>1, <3>1 DEF InterruptsInit
  <2>2. cpu' \in Context /\ cpu'.pc = "register"
    BY <1>0, <1>1 DEF InterruptsInit, Context, Points, OwnPoints, BootPoints
  <2>3. OnTop(cpu', truth[current], 1, spsr)
    BY <1>0, <1>1, <2>2, MoveLemma DEF InterruptsInit, Bottom, BootPoints
  <2> QED
    BY <1>0, <1>1, <2>1, <2>2, <2>3, CpuLemma DEF InterruptsInit, TablesOK, threadVars, hypVars
<1>2. CASE ArmTimerInit
  <2>2. cpu' \in Context /\ cpu'.pc = "set_timer_handler"
    BY <1>0, <1>2 DEF ArmTimerInit, Context, Points, OwnPoints, BootPoints
  <2>3. OnTop(cpu', truth[current], 1, spsr)
    BY <1>0, <1>2, <2>2, MoveLemma DEF ArmTimerInit, Bottom, BootPoints
  <2>4. enabled \subseteq handlers
    BY <1>0, <1>2 DEF ArmTimerInit, TablesOK
  <2> QED
    BY <1>0, <1>2, <2>2, <2>3, <2>4, CpuLemma, InterruptsAssumption
       DEF ArmTimerInit, RegisterIrqHandler, TablesOK
<1>3. CASE SetTimerHandler
  <2>2. cpu' \in Context /\ cpu'.pc = "enable"
    BY <1>0, <1>3 DEF SetTimerHandler, Context, Points, OwnPoints, BootPoints
  <2>3. OnTop(cpu', truth[current], 1, spsr)
    BY <1>0, <1>3, <2>2, MoveLemma DEF SetTimerHandler, Bottom, BootPoints
  <2> QED
    BY <1>0, <1>3, <2>2, <2>3, CpuLemma DEF SetTimerHandler, TablesOK
<1>4. CASE EnableInterrupts
  <2>2. cpu' \in Context /\ cpu'.pc = "user" /\ cpu'.lr = "kernel"
    BY <1>4 DEF EnableInterrupts, NewContext, Context, Points, OwnPoints
  <2>3. OnTop(cpu', truth[current], 1, spsr)
    BY <1>0, <1>4, <2>2, MoveLemma DEF EnableInterrupts, Bottom, BootPoints
  <2> QED
    BY <1>0, <1>4, <2>2, <2>3, CpuLemma DEF EnableInterrupts, TablesOK, ctrlVars
<1> QED
  BY <1>1, <1>2, <1>3, <1>4

\* The body of a handler, and what a thread does by itself.
LEMMA LocalLemma ==
  ASSUME IInv, TimerExpires \/ Dispatch \/ Handled \/ PopRegisters \/ Yielded
         \/ Emerged \/ Work \/ Fork \/ Return
  PROVE  IInv'
<1>0. /\ cpu \in Context /\ OnTop(cpu, truth[current], 1, spsr) /\ TablesOK
      /\ timer \in BOOLEAN /\ h \in BOOLEAN /\ enabled \subseteq Sources /\ handlers \subseteq Sources
      /\ current \in Thr
  BY DEF IInv, Types
<1>1. CASE TimerExpires
  BY <1>0, <1>1, CpuLemma DEF TimerExpires, TablesOK
<1>2. CASE Dispatch
  <2>1. cpu' \in Context /\ cpu'.pc \in IrqPoints
    BY <1>2, InFacts DEF Dispatch, Points, OwnPoints, IrqPoints
  <2>2. OnTop(cpu', truth[current], 1, spsr)
    BY <1>0, <1>2, <2>1, MoveLemma DEF Dispatch, IrqPoints
  <2>3. enabled \subseteq handlers
    BY <1>0, <1>2 DEF Dispatch, TablesOK
  <2>4. timer' \in BOOLEAN
    BY <1>0, <1>2 DEF Dispatch, Clearer
  <2> QED
    BY <1>0, <1>2, <2>1, <2>2, <2>3, <2>4, CpuLemma DEF Dispatch, TablesOK
<1>3. CASE Handled
  <2>1. cpu' \in Context /\ cpu'.pc \in IrqPoints
    BY <1>3, InFacts DEF Handled, Points, OwnPoints, IrqPoints
  <2>2. OnTop(cpu', truth[current], 1, spsr)
    BY <1>0, <1>3, <2>1, MoveLemma DEF Handled, IrqPoints
  <2> QED
    BY <1>0, <1>3, <2>1, <2>2, CpuLemma DEF Handled, TablesOK, ctrlVars
<1>4. CASE PopRegisters
  <2>1. Len(truth[current]) > 0 /\ cpu.masked = truth[current][1].masked
    <3>1. 1 <= Len(truth[current]) /\ cpu.masked = truth[current][1].masked
      BY <1>0, <1>4 DEF PopRegisters, OnTop, PopPoints
    <3> QED
      BY <1>0, <3>1, LenProperties DEF IInv, Types
  <2>2. Saved \in Context /\ Saved.r = truth[current][1].r
    BY <1>0, <2>1, TailFacts, PopLemma DEF IInv, Types, StacksOK, StackOK, Saved, Same
  <2>3. cpu' \in Context /\ cpu'.pc = "pop_lr_pc" /\ cpu'.r = truth[current][1].r
        /\ cpu'.masked = cpu.masked
    BY <1>0, <1>4, <2>2 DEF PopRegisters, Context, Points, OwnPoints
  <2>4. OnTop(cpu', truth[current], 1, spsr)
    BY <1>0, <1>4, <2>1, <2>3 DEF PopRegisters, OnTop, PopPoints, IrqPoints, Bottom, BootPoints
  <2> QED
    BY <1>0, <1>4, <2>3, <2>4, CpuLemma DEF PopRegisters, TablesOK, ctrlVars
<1>5. CASE Yielded
  <2>1. cpu' \in Context /\ cpu'.pc = "user" /\ cpu'.lr \in {"cleanup", "kernel"}
    BY <1>0, <1>5 DEF Yielded, Context, Points, OwnPoints
  <2>2. OnTop(cpu', truth[current], 1, spsr)
    BY <1>0, <1>5, <2>1, MoveLemma DEF Yielded, Bottom
  <2> QED
    BY <1>0, <1>5, <2>1, <2>2, CpuLemma DEF Yielded, TablesOK, ctrlVars
<1>6. CASE Work
  <2>1. cpu' \in Context /\ cpu'.pc = cpu.pc /\ cpu'.pc \in {"user", "forked"} /\ cpu'.lr = cpu.lr
    BY <1>0, <1>6 DEF Work, Context, OwnPoints
  <2>2. OnTop(cpu', truth[current], 1, spsr)
    BY <1>0, <1>6, <2>1 DEF Work, OnTop, Bottom, IrqPoints, PopPoints, BootPoints
  <2> QED
    BY <1>0, <1>6, <2>1, <2>2, CpuLemma DEF Work, TablesOK, ctrlVars
<1>7. CASE Return
  <2>1. cpu.lr \in {"cleanup", "kernel"} /\ cpu.pc \in {"user", "forked"}
    BY <1>0, <1>7 DEF Return, OnTop, OwnPoints
  <2>2. cpu' \in Context /\ cpu'.pc \in {"cleanup", "kernel"}
    BY <1>0, <1>7, <2>1 DEF Return, Context, Points, OwnPoints
  <2>3. OnTop(cpu', truth[current], 1, spsr)
    BY <1>0, <1>7, <2>1, <2>2, MoveLemma DEF Return, Bottom
  <2> QED
    BY <1>0, <1>7, <2>1, <2>2, <2>3, CpuLemma DEF Return, TablesOK, ctrlVars
<1>8. CASE Fork
  <2>1. cpu.lr \in {"cleanup", "kernel"} /\ cpu.pc \in {"user", "forked"}
    BY <1>0, <1>8 DEF Fork, OnTop, OwnPoints
  <2>2. cpu' \in Context /\ cpu'.pc = "forked" /\ cpu'.lr = cpu.lr
    BY <1>0, <1>8 DEF Fork, Context, Points, OwnPoints
  <2>3. OnTop(cpu', truth[current], 1, spsr)
    BY <1>0, <2>1, <2>2, MoveLemma DEF Bottom
  <2> QED
    BY <1>0, <1>8, <2>1, <2>2, <2>3, CpuLemma DEF Fork, TablesOK, ctrlVars
<1>9. CASE Emerged
  <2>1. cpu' \in Context /\ cpu'.pc \in IrqPoints
    BY <1>9, InFacts DEF Emerged, Points, IrqPoints
  <2>2. OnTop(cpu', truth[current], 1, spsr)
    BY <1>0, <1>9, <2>1, MoveLemma DEF Emerged, IrqPoints
  <2>3. enabled \subseteq handlers
    BY <1>0, <1>9 DEF Emerged, TablesOK
  <2> QED
    BY <1>0, <1>9, <2>1, <2>2, <2>3, CpuLemma DEF Emerged, TablesOK, ctrlVars
<1> QED
  BY <1>1, <1>2, <1>3, <1>4, <1>5, <1>6, <1>7, <1>8, <1>9

-----------------------------------------------------------------------------
(* Steps that save or take back a context                                   *)

\* The stacks of the running thread, and how many contexts are on them.
LEMMA CurrentFacts ==
  ASSUME IInv
  PROVE  /\ current \in Thr /\ current \in alive /\ cpu \in Context
         /\ stack[current] \in Seq(Context) /\ truth[current] \in Seq(Context)
         /\ StackOK(stack[current], truth[current], spsr)
         /\ OnTop(cpu, truth[current], 1, spsr)
         /\ Len(truth[current]) \in Nat
BY LenProperties DEF IInv, Types, StacksOK

\* What saving c for d on the stack of the running thread does.
Saves(c, d, s, st, tr) ==
  /\ st \in [Thr -> Seq(Context)] /\ tr \in [Thr -> Seq(Context)]
  /\ st[current][1] = c /\ tr[current][1] = d
  /\ Len(st[current]) > 0 /\ Len(tr[current]) = Len(truth[current]) + 1
  /\ \A t \in Thr \ {current} : st[t] = stack[t] /\ tr[t] = truth[t]
  /\ \A t \in Thr : StackOK(st[t], tr[t], s)

\* A context that is on top can be saved.
LEMMA SaveLemma ==
  ASSUME IInv, NEW c \in Context, NEW d \in Context, Same(c, d), NEW s \in Flags,
         OnTop(d, truth[current], 1, s), spsr.masked = FALSE => s.masked = FALSE
  PROVE  Saves(c, d, s, Push(stack, current, c), Push(truth, current, d))
<1> DEFINE st == Push(stack, current, c)
           tr == Push(truth, current, d)
<1>0. stack \in [Thr -> Seq(Context)] /\ truth \in [Thr -> Seq(Context)] /\ current \in Thr
  BY DEF IInv, Types
<1>1. st[current] = <<c>> \o stack[current] /\ tr[current] = <<d>> \o truth[current]
      /\ \A t \in Thr \ {current} : st[t] = stack[t] /\ tr[t] = truth[t]
  BY <1>0 DEF Push
<1> HIDE DEF st, tr
<1>2. /\ st[current] \in Seq(Context) /\ tr[current] \in Seq(Context)
      /\ st[current][1] = c /\ tr[current][1] = d
      /\ Len(st[current]) > 0 /\ Len(tr[current]) = Len(truth[current]) + 1
  BY <1>1, ConsFacts, CurrentFacts
<1>3. st \in [Thr -> Seq(Context)] /\ tr \in [Thr -> Seq(Context)]
  BY <1>0, <1>1, <1>2 DEF Push, st, tr
<1>4. ASSUME NEW t \in Thr PROVE StackOK(stack[t], truth[t], s)
  BY <1>4 DEF IInv, StacksOK, StackOK, OnTop
<1>5. ASSUME NEW t \in Thr PROVE StackOK(st[t], tr[t], s)
  <2>1. CASE t = current
    BY <1>0, <1>1, <1>4, <2>1, PushLemma, CurrentFacts
  <2>2. CASE t # current
    BY <1>1, <1>4, <2>2
  <2> QED
    BY <2>1, <2>2
<1> QED
  BY <1>1, <1>2, <1>3, <1>5 DEF Saves, st, tr

\* An interrupt is taken.
LEMMA IrqEntryLemma ==
  ASSUME IInv, IrqEntry
  PROVE  IInv' /\ Len(truth'[current]) > Len(truth[current])
<1> DEFINE c == [cpu EXCEPT !.masked = TRUE]
<1>1. cpu \in Context /\ cpu.masked = FALSE /\ c \in Context /\ Same(c, cpu)
  BY CurrentFacts DEF IrqEntry, Context, Same
<1>2. spsr' \in Flags /\ spsr'.masked = FALSE
  BY <1>1 DEF IrqEntry, Flags, Context
<1>3. OnTop(cpu, truth[current], 1, spsr')
  BY <1>2, CurrentFacts DEF OnTop
<1>4. stack' = Push(stack, current, c) /\ truth' = Push(truth, current, cpu)
  BY DEF IrqEntry
<1> HIDE DEF c
<1>5. /\ stack' \in [Thr -> Seq(Context)] /\ truth' \in [Thr -> Seq(Context)]
      /\ truth'[current][1] = cpu
      /\ Len(truth'[current]) = Len(truth[current]) + 1
      /\ \A t \in Thr \ {current} : stack'[t] = stack[t] /\ truth'[t] = truth[t]
      /\ \A t \in Thr : StackOK(stack'[t], truth'[t], spsr')
  <2>1. spsr.masked = FALSE => spsr'.masked = FALSE
    BY <1>2
  <2>2. Saves(c, cpu, spsr', Push(stack, current, c), Push(truth, current, cpu))
    BY <1>1, <1>2, <1>3, <2>1, SaveLemma, CurrentFacts
  <2> QED
    BY <1>4, <2>2 DEF Saves
<1>6. UNCHANGED <<current, alive, timer, enabled, handlers, h>>
  BY DEF IrqEntry, ctrlVars
<1>7. cpu' \in Context /\ cpu'.pc = "c_irq_handler" /\ elr' \in Points
  BY <1>1, InFacts DEF IrqEntry, Points, OwnPoints, Context
<1>8. OnTop(cpu', truth'[current], 1, spsr')
  BY <1>1, <1>2, <1>5, <1>7, CurrentFacts DEF OnTop, Bottom, BootPoints, PopPoints
<1>9. ParkedOK'
  BY <1>5, <1>6 DEF IInv, ParkedOK
<1>10. TablesOK'
  BY <1>1, <1>6 DEF IInv, TablesOK
<1>11. Types'
  BY <1>2, <1>5, <1>6, <1>7 DEF IInv, Types
<1>12. Len(truth'[current]) > Len(truth[current])
  BY <1>5, CurrentFacts
<1> QED
  BY <1>5, <1>6, <1>8, <1>9, <1>10, <1>11, <1>12 DEF IInv, StacksOK

\* schedule_next_process and context_switch, to any thread t that is alive.
LEMMA SwitchLemma ==
  ASSUME IInv, NEW t \in alive, NEW back, SwitchTo(t, back),
         \/ cpu.pc \in {"user", "forked", "cleanup"} /\ back \in {"yielded", "kernel"}
         \/ cpu.pc = "handler" /\ back = "emerged",
         alive' \subseteq alive, t \in alive'
  PROVE  IInv' /\ Len(truth'[current]) > Len(truth[current])
<1> DEFINE c == [pc |-> back, r |-> cpu.r, lr |-> back, nzcv |-> cpu.nzcv, masked |-> TRUE]
<1>1. c \in Context /\ Same(c, c) /\ c.pc = back
  BY CurrentFacts DEF Context, Points, OwnPoints, Same
<1>2. OnTop(c, truth[current], 1, spsr)
  BY <1>1, MoveLemma, CurrentFacts DEF Bottom, IrqPoints
<1>3. stack' = Push(stack, current, c) /\ truth' = Push(truth, current, c) /\ current' = t
  BY DEF SwitchTo
<1>4. UNCHANGED <<elr, spsr, timer, enabled, handlers, h>>
  BY DEF SwitchTo, hypVars, ctrlVars
<1> HIDE DEF c
<1>5. /\ stack' \in [Thr -> Seq(Context)] /\ truth' \in [Thr -> Seq(Context)]
      /\ stack'[current][1] = c /\ truth'[current][1] = c
      /\ Len(stack'[current]) > 0 /\ Len(truth'[current]) = Len(truth[current]) + 1
      /\ \A u \in Thr \ {current} : stack'[u] = stack[u] /\ truth'[u] = truth[u]
      /\ \A u \in Thr : StackOK(stack'[u], truth'[u], spsr)
  <2>1. spsr \in Flags
    BY DEF IInv, Types
  <2>2. Saves(c, c, spsr, Push(stack, current, c), Push(truth, current, c))
    BY <1>1, <1>2, <2>1, SaveLemma
  <2> QED
    BY <1>3, <2>2 DEF Saves
<1>6. ASSUME NEW u \in Thr
      PROVE  Len(truth'[u]) > 0 /\ stack'[u][1].masked = truth'[u][1].masked
  <2>1. CASE u = current
    BY <1>5, <2>1, CurrentFacts
  <2>2. CASE u # current
    BY <1>5, <2>2 DEF IInv, ParkedOK
  <2> QED
    BY <2>1, <2>2
<1>7. t \in Thr /\ alive \subseteq Thr
  BY DEF IInv, Types
<1>8. Head(stack'[t]) = stack'[t][1] /\ stack'[t][1] \in Context
  <2>1. Len(stack'[t]) = Len(truth'[t]) /\ Len(truth'[t]) > 0 /\ stack'[t] \in Seq(Context)
    BY <1>5, <1>6, <1>7 DEF StackOK
  <2> QED
    BY <2>1, TailFacts
<1>9. cpu' = [In("pop_registers", Head(stack'[t]).masked) EXCEPT !.nzcv = Head(stack'[t]).nzcv]
  BY <1>3 DEF SwitchTo
<1>10. cpu' \in Context /\ cpu'.pc = "pop_registers" /\ cpu'.masked = truth'[t][1].masked
  <2>1. Head(stack'[t]).masked \in BOOLEAN /\ Head(stack'[t]).nzcv \in BOOLEAN
    BY <1>8 DEF Context
  <2>2. Head(stack'[t]).masked = truth'[t][1].masked
    BY <1>6, <1>7, <1>8
  <2> QED
    BY <1>9, <2>1, <2>2 DEF In, Context, Points, OwnPoints, Clobbered
<1>11. OnTop(cpu', truth'[current'], 1, spsr')
  <2>1. 1 <= Len(truth'[t])
    BY <1>5, <1>6, <1>7, LenProperties
  <2> QED
    BY <1>3, <1>10, <2>1 DEF OnTop, Bottom, BootPoints, IrqPoints, PopPoints
<1>12. TablesOK'
  BY <1>4 DEF IInv, TablesOK
<1>13. Types'
  BY <1>3, <1>4, <1>5, <1>7, <1>10 DEF IInv, Types
<1>14. StacksOK' /\ ParkedOK'
  BY <1>4, <1>5, <1>6 DEF StacksOK, ParkedOK
<1>15. Len(truth'[current]) > Len(truth[current])
  BY <1>5, CurrentFacts
<1> QED
  BY <1>5, <1>11, <1>12, <1>13, <1>14, <1>15 DEF IInv

\* The running thread gets back the context it saved last, d, but for the flags.
GotBack(d) == Same(cpu', d) /\ cpu'.masked = d.masked

\* What a step that takes a context back has to show.
LEMMA RestoreLemma ==
  ASSUME IInv, Len(truth[current]) > 0, cpu' \in Context, elr' \in Points,
         stack' = Pop(stack, current), truth' = Pop(truth, current),
         UNCHANGED <<spsr, current, alive, ctrlVars>>,
         GotBack(truth[current][1]), enabled \subseteq handlers
  PROVE  IInv'
<1>0. stack \in [Thr -> Seq(Context)] /\ truth \in [Thr -> Seq(Context)] /\ current \in Thr
  BY DEF IInv, Types
<1>1. stack'[current] = Tail(stack[current]) /\ truth'[current] = Tail(truth[current])
      /\ \A t \in Thr \ {current} : stack'[t] = stack[t] /\ truth'[t] = truth[t]
  BY <1>0 DEF Pop
<1>2. /\ StackOK(Tail(stack[current]), Tail(truth[current]), spsr)
      /\ OnTop(truth[current][1], Tail(truth[current]), 1, spsr)
  BY CurrentFacts, PopLemma
<1>3. Tail(stack[current]) \in Seq(Context) /\ Tail(truth[current]) \in Seq(Context)
  BY CurrentFacts, TailFacts DEF StackOK
<1>4. stack' \in [Thr -> Seq(Context)] /\ truth' \in [Thr -> Seq(Context)]
  BY <1>0, <1>3 DEF Pop
<1>5. OnTop(cpu', truth'[current], 1, spsr)
  BY <1>1, <1>2 DEF OnTop, GotBack, Same
<1>6. \A t \in Thr : StackOK(stack'[t], truth'[t], spsr)
  BY <1>1, <1>2 DEF IInv, StacksOK
<1>7. UNCHANGED <<spsr, current, alive, timer, enabled, handlers, h>>
  BY DEF ctrlVars
<1>8. Types'
  BY <1>4, <1>7 DEF IInv, Types
<1>9. ParkedOK' /\ TablesOK'
  BY <1>1, <1>7 DEF IInv, ParkedOK, TablesOK
<1> QED
  BY <1>5, <1>6, <1>7, <1>8, <1>9 DEF IInv, StacksOK

\* The word that is popped next stands for the context saved last.
LEMMA SavedFacts ==
  ASSUME IInv, cpu.pc \in IrqPoints \cup PopPoints
  PROVE  /\ Len(truth[current]) > 0
         /\ Saved \in Context /\ Same(Saved, truth[current][1])
<1>1. 1 <= Len(truth[current])
  BY CurrentFacts DEF OnTop
<1>2. Len(truth[current]) > 0 /\ Len(stack[current]) > 0
  BY <1>1, CurrentFacts DEF StackOK
<1>3. Saved \in Context /\ Saved = stack[current][1]
  BY <1>2, TailFacts, CurrentFacts DEF Saved
<1>4. Same(stack[current][1], truth[current][1])
  BY <1>2, PopLemma, CurrentFacts
<1> QED
  BY <1>2, <1>3, <1>4

\* Returning from an interrupt: ELR is put back, and SPSR has IRQs on whichever
\* interrupt has written it.
LEMMA IrqReturnLemma ==
  ASSUME IInv, IrqReturn
  PROVE  IInv' /\ GotBack(truth[current][1])
<1>1. /\ Len(truth[current]) > 0
      /\ Saved \in Context /\ Same(Saved, truth[current][1])
  BY SavedFacts DEF IrqReturn, IrqPoints
<1>2. truth[current][1].masked = FALSE /\ spsr.masked = FALSE
  BY CurrentFacts DEF IrqReturn, OnTop, IrqPoints
<1>3. spsr.nzcv \in BOOLEAN
  BY DEF IInv, Types, Flags
<1>4. cpu' \in Context /\ elr' \in Points
  BY <1>1, <1>2, <1>3 DEF IrqReturn, Context
<1>5. GotBack(truth[current][1])
  BY <1>1, <1>2 DEF IrqReturn, GotBack, Same, Context
<1>6. enabled \subseteq handlers
  BY DEF IrqReturn, IInv, TablesOK
<1> QED
  BY <1>1, <1>4, <1>5, <1>6, RestoreLemma DEF IrqReturn

\* Coming out of context_switch.
LEMMA PopLrPcLemma ==
  ASSUME IInv, PopLrPc
  PROVE  IInv' /\ GotBack(truth[current][1])
<1>1. /\ Len(truth[current]) > 0
      /\ Saved \in Context /\ Same(Saved, truth[current][1])
  BY SavedFacts DEF PopLrPc, PopPoints
<1>2. truth[current][1].masked = cpu.masked /\ truth[current][1].r = cpu.r
  BY CurrentFacts DEF PopLrPc, OnTop, PopPoints
<1>3. cpu' \in Context /\ elr' \in Points
  BY <1>1, CurrentFacts DEF PopLrPc, Context, hypVars, IInv, Types
<1>4. GotBack(truth[current][1])
  BY <1>1, <1>2, CurrentFacts DEF PopLrPc, GotBack, Same, Context
<1>5. enabled \subseteq handlers
  BY DEF PopLrPc, IInv, TablesOK
<1> QED
  BY <1>1, <1>3, <1>4, <1>5, RestoreLemma DEF PopLrPc, hypVars

-----------------------------------------------------------------------------
(* The invariant                                                            *)

\* A sequence of one context.
LEMMA OneFacts ==
  ASSUME NEW c \in Context
  PROVE  <<c>> \in Seq(Context) /\ Len(<<c>>) = 1 /\ <<c>>[1] = c
OBVIOUS

\* The kernel starts with what create_process has put on the stacks.
LEMMA InitInv == Init => IInv
<1> SUFFICES ASSUME Init PROVE IInv
  OBVIOUS
<1>1. alive = Thr /\ current = Boot /\ Boot \in Thr /\ Boot \notin Threads
  BY InterruptsAssumption DEF Init, Thr
<1>2. \A t \in Thr : NewContext(t) \in Context
  BY DEF NewContext, Context, Points, OwnPoints, Thr
<1>3. truth[Boot] = <<>> /\ \A t \in Thr \ {Boot} : truth[t] = <<NewContext(t)>>
  BY <1>1 DEF Init
<1>4. stack = truth /\ truth \in [Thr -> Seq(Context)]
  <2>1. ASSUME NEW t \in Thr PROVE truth[t] \in Seq(Context)
    <3>1. CASE t = Boot
      BY <1>3, <3>1, EmptySeq
    <3>2. CASE t # Boot
      BY <1>2, <1>3, <3>2, OneFacts
    <3> QED
      BY <3>1, <3>2
  <2>2. stack = truth /\ DOMAIN truth = Thr
        /\ truth = [t \in Thr |-> IF t = Boot THEN <<>> ELSE <<NewContext(t)>>]
    BY <1>1 DEF Init
  <2> QED
    BY <2>1, <2>2
<1>5. ASSUME NEW t \in Thr \ {Boot}
      PROVE  Len(truth[t]) = 1 /\ truth[t][1] = NewContext(t)
  BY <1>2, <1>3, OneFacts
<1>6. Len(truth[Boot]) = 0
  BY <1>3, EmptySeq
<1>7. \A t \in Thr : StackOK(stack[t], truth[t], spsr)
  <2>1. ASSUME NEW t \in Thr, NEW k \in 1..Len(truth[t])
        PROVE  OnTop(truth[t][k], truth[t], k + 1, spsr)
    <3>1. t # Boot
      BY <1>6, <2>1
    <3>2. t \in Thr \ {Boot}
      BY <3>1
    <3>3. Len(truth[t]) = 1 /\ truth[t][1] = NewContext(t)
      BY <1>5, <3>2
    <3>4. k = 1
      BY <2>1, <3>3
    <3> QED
      BY <3>3, <3>4 DEF OnTop, NewContext, IrqPoints, PopPoints
  <2> QED
    BY <1>4, <2>1 DEF StackOK, Same
<1>8. cpu \in Context /\ cpu.pc = "interrupts_init" /\ cpu.masked = TRUE
  BY InFacts DEF Init, Points, OwnPoints, BootPoints
<1>9. OnTop(cpu, truth[current], 1, spsr)
  BY <1>1, <1>6, <1>8 DEF OnTop, IrqPoints, PopPoints
<1>10. Types
  BY <1>1, <1>4, <1>8 DEF Init, Types, Flags, Points, OwnPoints
<1>11. ParkedOK
  BY <1>1, <1>4, <1>5 DEF ParkedOK
<1> QED
  BY <1>7, <1>8, <1>9, <1>10, <1>11 DEF IInv, StacksOK, TablesOK

\* The steps that switch threads.
LEMMA SwitchSteps ==
  ASSUME IInv, HandlerYields \/ Yield \/ Cleanup
  PROVE  IInv' /\ Len(truth'[current]) > Len(truth[current])
<1>1. CASE HandlerYields
  <2>1. PICK t \in alive : SwitchTo(t, "emerged")
    BY <1>1 DEF HandlerYields
  <2> QED
    BY <1>1, <2>1, SwitchLemma DEF HandlerYields
<1>2. CASE Yield
  <2>1. PICK t \in alive : SwitchTo(t, "yielded")
    BY <1>2 DEF Yield
  <2> QED
    BY <1>2, <2>1, SwitchLemma DEF Yield, OwnPoints
<1>3. CASE Cleanup
  <2>1. PICK t \in alive \ {current} : SwitchTo(t, "kernel")
    BY <1>3 DEF Cleanup
  <2> QED
    BY <1>3, <2>1, SwitchLemma DEF Cleanup
<1> QED
  BY <1>1, <1>2, <1>3

\* The steps of the CPU alone: nothing is saved or taken back.
CpuStep ==
  \/ InterruptsInit \/ ArmTimerInit \/ SetTimerHandler \/ EnableInterrupts
  \/ TimerExpires \/ Dispatch \/ Handled \/ PopRegisters \/ Yielded \/ Emerged
  \/ Work \/ Fork \/ Return

\* Every step is one of five kinds.
LEMMA NextCases ==
  ASSUME [Next]_vars
  PROVE  \/ CpuStep \/ UNCHANGED vars
         \/ IrqEntry \/ HandlerYields \/ Yield \/ Cleanup
         \/ IrqReturn \/ PopLrPc
BY DEF Next, KernelStep, CpuStep

\* Every step keeps the invariant.
LEMMA NextInv == IInv /\ [Next]_vars => IInv'
<1> SUFFICES ASSUME IInv, [Next]_vars PROVE IInv'
  OBVIOUS
<1>1. CASE CpuStep
  BY <1>1, BootLemma, LocalLemma DEF CpuStep
<1>2. CASE IrqEntry
  BY <1>2, IrqEntryLemma
<1>3. CASE HandlerYields \/ Yield \/ Cleanup
  BY <1>3, SwitchSteps
<1>4. CASE IrqReturn
  BY <1>4, IrqReturnLemma
<1>5. CASE PopLrPc
  BY <1>5, PopLrPcLemma
<1>6. CASE UNCHANGED vars
  BY <1>6 DEF vars, hypVars, threadVars, ctrlVars, IInv, Types, OnTop, StacksOK,
              StackOK, ParkedOK, TablesOK
<1> QED
  BY <1>1, <1>2, <1>3, <1>4, <1>5, <1>6, NextCases

\* The saved contexts of every thread stay in order, for any threads, sources and
\* nesting (boot.S:46-103).
THEOREM IInvHolds == Spec => []IInv
BY InitInv, NextInv, PTL DEF Spec

-----------------------------------------------------------------------------
(* What the invariant says                                                  *)

\* Types, and a thread whose own code runs has nothing left on its stack
\* (boot.S:46-103).
THEOREM TypesHold == Spec => []TypeOK
<1>1. IInv => TypeOK
  <2> SUFFICES ASSUME IInv PROVE TypeOK
    OBVIOUS
  <2>1. ASSUME cpu.pc \in OwnPoints PROVE stack[current] = <<>>
    <3>1. 1 = Len(truth[current]) + 1
      BY <2>1, CurrentFacts DEF OnTop, Bottom, OwnPoints
    <3>2. Len(stack[current]) = 0
      BY <3>1, CurrentFacts DEF StackOK
    <3> QED
      BY <3>2, CurrentFacts, EmptySeq
  <2>2. Types
    BY DEF IInv
  <2>3. \A t \in Threads \cup {Boot} : stack[t] \in Seq(Context) /\ truth[t] \in Seq(Context)
    BY <2>2 DEF Types, Thr
  <2> QED
    BY <2>1, <2>2, <2>3 DEF TypeOK, Types, Thr, Flags
<1> QED
  BY <1>1, IInvHolds, PTL

\* When an interrupt can be taken, every enabled source has a handler
\* (interrupts.c:16-58).
THEOREM EnabledHandledHolds == Spec => []EnabledHandled
<1>1. IInv => EnabledHandled
  BY DEF IInv, TablesOK, EnabledHandled
<1> QED
  BY <1>1, IInvHolds, PTL

\* A step that takes a context back takes back the one that was saved last, but
\* for the condition flags (boot.S:46-103).
THEOREM ContextKeptHolds == Spec => ContextKept
<1> DEFINE Kept == GetsBack({"pc", "r", "lr", "masked"})
<1>1. IInv /\ [Next]_vars => Kept
  <2> SUFFICES ASSUME IInv, [Next]_vars, Len(truth'[current]) < Len(truth[current])
               PROVE  \A f \in {"pc", "r", "lr", "masked"} :
                        cpu'[f] = Head(truth[current])[f]
    BY DEF GetsBack
  <2>1. ~(CpuStep \/ UNCHANGED vars)
    <3>1. (CpuStep \/ UNCHANGED vars) => truth' = truth
      BY DEF CpuStep, vars, threadVars, InterruptsInit, ArmTimerInit, SetTimerHandler,
             EnableInterrupts, TimerExpires, Dispatch, Handled, PopRegisters,
             Yielded, Emerged, Work, Fork, Return
    <3> QED
      BY <3>1, CurrentFacts
  <2>2. ~(IrqEntry \/ HandlerYields \/ Yield \/ Cleanup)
    <3>1. (IrqEntry \/ HandlerYields \/ Yield \/ Cleanup) =>
            Len(truth'[current]) > Len(truth[current])
      BY IrqEntryLemma, SwitchSteps
    <3>2. (IrqEntry \/ HandlerYields \/ Yield \/ Cleanup) =>
            Len(truth'[current]) \in Nat
      BY IrqEntryLemma, SwitchSteps, CurrentFacts, LenProperties DEF IInv, Types
    <3> QED
      BY <3>1, <3>2, CurrentFacts
  <2>3. GotBack(truth[current][1])
    BY <2>1, <2>2, NextCases, IrqReturnLemma, PopLrPcLemma
  <2>4. Head(truth[current]) = truth[current][1]
    BY <2>1, <2>2, NextCases, SavedFacts, CurrentFacts, TailFacts
       DEF IrqReturn, PopLrPc, IrqPoints, PopPoints
  <2> QED
    BY <2>3, <2>4 DEF GotBack, Same
<1> QED
  BY <1>1, IInvHolds, PTL DEF Spec, ContextKept
=============================================================================
