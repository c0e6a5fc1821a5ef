----------------------------- MODULE MCScheduler -----------------------------
(***************************************************************************)
(* Instances of Scheduler for TLC.                                         *)
(***************************************************************************)
EXTENDS SchedulerInv

\* PCBs other than Main are interchangeable: nothing orders them.
Symmetry == Permutations(Procs \ {Main})

\* awaken_tick is written before the process is linked on tick_queue and read
\* only while it is there: elsewhere its value cannot be told apart.
LiveState ==
  <<current, queue, count, ticks,
    [p \in On("tick_queue") |-> awaken_tick[p]], irq, frames, heapVars, raced>>
=============================================================================
