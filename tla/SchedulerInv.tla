----------------------------- MODULE SchedulerInv -----------------------------
(***************************************************************************)
(* The inductive invariant from which the safety properties of Scheduler   *)
(* are proved: Inv until a timer expires in a hand-over window, RacedInv   *)
(* from then on.  The parts of Inv are operators of the queues qs, the     *)
(* running process cur and the call stacks fs, so that they can also be    *)
(* said of the queues schedule_next_process finds in the middle of a step. *)
(***************************************************************************)
EXTENDS Scheduler

\* The processes linked on queue q; whether p is linked at all.
Members(qs, q) == Range(qs[q])
Linked(qs, p)  == \E q \in Queues : p \in Members(qs, q)

\* Queues from which a process is started again.
ReadyQueues == Queues \ {"dead_queue"}

QType(qs) == qs \in [Queues -> Seq(Pcb)]

\* Which processes a queue can hold; the run queue can hold any.
PlacesOK(qs) ==
  /\ Members(qs, "tick_queue") \subseteq Procs
  /\ Members(qs, "dead_queue") \subseteq Procs
  /\ Members(qs, "sema") \subseteq Procs
  /\ Members(qs, "dead_queue_semaphore") \subseteq {Reaper}

QueuesOK(qs) == QType(qs) /\ Once(qs) /\ PlacesOK(qs)

(* A call stack: its outermost point belongs to the process's own body, the *)
(* points above it to calls and interrupts, and only the innermost one can  *)
(* be in a hand-over window.                                                *)
Base(p) == IF p = Idle THEN BootLabels
           ELSE IF p = Reaper THEN ReaperLabels ELSE UserLabels
Above   == PRetLabels \cup ClockLabels \cup HandOver

FrameOK(p, f) ==
  /\ f \in Seq(Labels)
  /\ \A i \in 1..Len(f) : /\ i = Len(f) => f[i] \in Base(p)
                          /\ i # Len(f) => f[i] \in Above
                          /\ i # 1 => f[i] \notin HandOver

FramesOK(fs) ==
  /\ fs \in [Pcb -> Seq(Labels)]
  /\ \A p \in Pcb : FrameOK(p, fs[p])

\* p is in a hand-over window.
InHandOver(fs, p) == fs[p] # <<>> /\ Head(fs[p]) \in HandOver

\* What is started again has something left to run.
Startable(qs, fs) ==
  /\ \A q \in ReadyQueues : \A p \in Members(qs, q) : fs[p] # <<>>
  /\ fs[Idle] # <<>>

\* While cur runs: only cur can be in a hand-over window; there it is linked
\* where its wake-up will look for it, and outside it is linked nowhere; every
\* other process with something left to run waits on a queue.
RunningOK(qs, cur, fs) ==
  /\ QueuesOK(qs) /\ FramesOK(fs) /\ Startable(qs, fs)
  /\ cur \in Pcb /\ fs[cur] # <<>>
  /\ \A p \in Pcb : InHandOver(fs, p) => p = cur
  /\ Head(fs[cur]) = "sleep_stop"  => cur \in Members(qs, "tick_queue")
  /\ Head(fs[cur]) = "yield_sched" => cur \in Members(qs, "run_queue")
  /\ ~InHandOver(fs, cur) => ~Linked(qs, cur)
  /\ \A p \in Pcb \ {Idle, cur} :
       fs[p] # <<>> => \E q \in ReadyQueues : p \in Members(qs, q)

\* Inside schedule_next_process: every process with something left to run waits.
ParkedOK(qs, fs) ==
  /\ QueuesOK(qs) /\ FramesOK(fs) /\ Startable(qs, fs)
  /\ \A p \in Pcb : ~InHandOver(fs, p)
  /\ \A p \in Pcb \ {Idle} :
       fs[p] # <<>> => \E q \in ReadyQueues : p \in Members(qs, q)

\* The heap: whoever can run or is linked is allocated; a dead process is whole
\* until the reaper has taken it; and what the reaper is freeing (fr) is still
\* allocated, and out of everybody's reach.
HeapOK(qs, fs, fr, ps, st) ==
  /\ Idle \in ps
  /\ \A p \in Procs \cup {Reaper} : fs[p] # <<>> => p \in ps \cap st
  /\ \A p \in Pcb : Linked(qs, p) => p \in ps
  /\ \A p \in Members(qs, "dead_queue") : p \in st /\ fs[p] = <<>>
  /\ fr # Null => fr \in ps /\ fs[fr] = <<>> /\ ~Linked(qs, fr)

\* SemaphoreWaiters, of any queues and counts
WaitersOK(qs, cnt) ==
  \A s \in Sems : Len(qs[s]) = IF cnt[s] < 0 THEN -cnt[s] ELSE 0

\* The ranges of the variables RunningOK does not speak about.
ScalarsOK ==
  /\ count \in [Sems -> Int]
  /\ ticks \in 0..(TickMod - 1)
  /\ awaken_tick \in [Pcb -> 0..(TickMod - 1)]
  /\ irq \in BOOLEAN
  /\ to_free \in Procs \cup {Null}
  /\ pcbs \in SUBSET Pcb
  /\ stacks \in SUBSET (Pcb \ {Idle})

\* What holds as long as no timer has expired in a hand-over window.
Inv ==
  /\ ScalarsOK
  /\ RunningOK(queue, current, frames)
  /\ HeapOK(queue, frames, to_free, pcbs, stacks)
  /\ WaitersOK(queue, count)

(* What the counts of the semaphores say of the processes.  The outermost    *)
(* point of a call stack tells where a process's own body is.               *)
BodyAt(fs, p, l) == fs[p] # <<>> /\ Last(fs[p]) = l

\* Processes between semaphore_P(sema) and semaphore_V(sema), blocked or not.
Inside(fs) == {p \in Procs : BodyAt(fs, p, "critical")}

\* Each of them has taken one unit of the count; those linked on the wait queue
\* have not come out of semaphore_P.
LockOK(qs, cnt, fs) ==
  /\ IsFiniteSet(Inside(fs)) /\ Cardinality(Inside(fs)) = SemaInit - cnt["sema"]
  /\ \A p \in Members(qs, "sema") :
       p \in Inside(fs) /\ Range(fs[p]) \cap PRetLabels # {}

\* The dead are the units of the reaper's semaphore, and the one that the reaper
\* has been woken for and not taken.
CorpsesOK(qs, cnt, fs) ==
  Len(qs["dead_queue"]) =
    cnt["dead_queue_semaphore"] + IF BodyAt(fs, Reaper, "reap_take") THEN 1 ELSE 0

CountsOK(qs, cnt, fs) == LockOK(qs, cnt, fs) /\ CorpsesOK(qs, cnt, fs)

\* Inv, with what MutualExclusion and ReaperHasCorpse need besides.
CountInv == Inv /\ CountsOK(queue, count, frames)

\* What holds once one has: its handler, or one nested in it, runs on with the
\* process it interrupted linked, until its process_yield links that one again.
RacedInv ==
  /\ ScalarsOK /\ QType(queue)
  /\ current \in Pcb /\ frames \in [Pcb -> Seq(Labels)] /\ frames[current] # <<>>
  /\ Once(queue) => Linked(queue, current)
  /\ Once(queue) <=> Head(frames[current]) \in BeforeYield

\* The inductive invariants of the specification.
RaceInv      == raced \in BOOLEAN /\ IF raced THEN RacedInv ELSE Inv
CountRaceInv == raced \in BOOLEAN /\ IF raced THEN RacedInv ELSE CountInv
===============================================================================
