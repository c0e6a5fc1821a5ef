------------------------------ MODULE Console -------------------------------
(***************************************************************************)
(* What the kernel prints: prntf, puts and putc of src/stdout.c, itoa of   *)
(* src/stdlib.c with its static buffer, uart_putc and uart_puts of         *)
(* src/uart.c with the FIFO of the UART, and the calls that the boot code  *)
(* and the processes of src/kernel.c make.  All processes share the buffer *)
(* and the UART.  Texts are short: one character stands for a literal.     *)
(***************************************************************************)
EXTENDS Integers, SequencesExt

CONSTANTS
  Boot, Reaper, Main, Proc1, Proc2,
  Width,     \* bits of an int
  FifoSize,  \* characters the transmit FIFO of the UART holds
  Rounds     \* bound: lines that proc_1 and proc_2 print

\* an int of three bits holds a digit and the sign or the prefix 0x; Width is 32
ASSUME ConsoleAssumption ==
  /\ Width \in Nat /\ Width >= 3
  /\ FifoSize \in Nat \ {0} /\ Rounds \in Nat

\* b to the power of n
Power(b, n) == LET p[k \in Nat] == IF k = 0 THEN 1 ELSE b * p[k - 1] IN p[n]

Processes == {Boot, Reaper, Main, Proc1, Proc2}
Ints == -Power(2, Width - 1) .. Power(2, Width - 1) - 1
NUL == "NUL"
None == "none"

\* A part of a line: a literal character, or a number to print in a base.
Lit(c) == [base |-> 0, v |-> c]
Dec(n) == [base |-> 10, v |-> n]
Hex(n) == [base |-> 16, v |-> n]
Newline == Lit("\n")

\* Lines printed by one prntf, and by uart_puts, part for part.
Formatted(parts) == [by |-> "prntf", parts |-> parts]
Plain(parts) == [by |-> "uart_puts", parts |-> parts]

\* The lines of each process, where n is what the GPU answers, an address, or
\* what the count of proc_1 or proc_2 has got to.
FramebufferReport(n) == <<Plain(<<Lit("F"), Hex(n), Newline>>)>>
StartingReaper == <<Formatted(<<Lit("S"), Dec(0), Newline>>)>>
SystemConfig(n) == <<Plain(<<Lit("T"), Hex(n), Newline>>)>>
MainLines(n) ==
  <<Formatted(<<Lit("H"), Newline>>)>> \o SystemConfig(n)
    \o <<Formatted(<<Lit("R"), Dec(0), Newline>>)>>

Wrapped(n) == ((n + Power(2, Width - 1)) % Power(2, Width)) - Power(2, Width - 1)
Hello(c, n) ==
  [k \in 1..Rounds |-> Formatted(<<Lit(c), Dec(Wrapped(n + k - 1)), Newline>>)]

Program(n) ==
  [p \in Processes |->
    CASE p = Boot  -> FramebufferReport(n) [] p = Reaper -> StartingReaper
      [] p = Main  -> MainLines(n)
      [] p = Proc1 -> Hello("1", n)        [] p = Proc2 -> Hello("2", n)]

VARIABLES
  todo,     \* per process: the lines it has still to print
  call,     \* per process: where it is in printing a line
  procs,    \* the processes there are
  current, masked,
  intbuf,   \* the static buffer of itoa
  fifo,     \* the transmit FIFO of the UART
  out,      \* what has gone out on the line
  started   \* the lines begun, in order (no code reads it)

procVars == <<procs, current>>
uartVars == <<fifo, out>>
vars == <<todo, call, procVars, masked, intbuf, uartVars, started>>

-----------------------------------------------------------------------------
(* Conversion.  Operators named ...Mutant, here and below, are wrong        *)
(* variants of the definition that follows them; no specification uses      *)
(* them.                                                                    *)

Digit(d) == <<"0", "1", "2", "3", "4", "5", "6", "7",
              "8", "9", "a", "b", "c", "d", "e", "f">>[d + 1]

\* enough for the decimal numbers only
BufSizeMutant == 4

\* intbuf[33] for an int of 32 bits
BufSize == Width + 1

itoa(num, base) ==
  LET isneg == base = 10 /\ num < 0
      Low[i \in Nat] == IF i = 0 THEN <<>> ELSE <<Digit(i % base)>> \o Low[i \div base]
      sign == IF isneg THEN <<"-">> ELSE <<>>
      prefix == CASE base = 16 -> <<"x", "0">> [] base = 8 -> <<"0">>
                  [] base = 2 -> <<"b", "0">> [] OTHER -> <<>>
  IN IF num = 0 THEN <<"0">>
     ELSE Reverse(Low[(IF isneg THEN -num ELSE num) % Power(2, Width)] \o sign \o prefix)

\* intbuf after itoa has written `text` and its end; what is beyond stays.
Filled(text) ==
  [i \in 1..BufSize |->
    IF i <= Len(text) THEN text[i] ELSE IF i = Len(text) + 1 THEN NUL ELSE intbuf[i]]

\* The numeral of num, digit by digit from its weight: what a reader expects.
Numeral(num, base) ==
  LET u == IF base = 10 /\ num < 0 THEN -num ELSE num % Power(2, Width)
      size == CHOOSE k \in 1..Width :
                Power(base, k) > u /\ (k = 1 \/ Power(base, k - 1) <= u)
      digits == [k \in 1..size |-> Digit((u \div Power(base, size - k)) % base)]
  IN CASE base = 16 /\ num # 0 -> <<"0", "x">> \o digits
       [] base = 10 /\ num < 0 -> <<"-">> \o digits
       [] OTHER -> digits

Text(parts) ==
  FlattenSeq([k \in DOMAIN parts |->
    IF parts[k].base = 0 THEN <<parts[k].v>> ELSE Numeral(parts[k].v, parts[k].base)])

-----------------------------------------------------------------------------
(* Printing.  parts: what the line has left; pos: how far puts has read     *)
(* intbuf, 0 when it does not; c: the character that uart_putc has room     *)
(* for; level: whether IRQs are masked again at the end.                    *)

Idle == [on |-> FALSE, parts |-> <<>>, pos |-> 0, c |-> None, level |-> FALSE]
me == call[current]
Becomes(s) == call' = [call EXCEPT ![current] = s]

Init ==
  /\ \E n \in Ints : todo = Program(n)
  /\ call = [p \in Processes |-> Idle]
  /\ procs = {Boot} /\ current = Boot /\ masked = TRUE
  /\ intbuf = [i \in 1..BufSize |-> NUL]
  /\ fifo = <<>> /\ out = <<>> /\ started = <<>>

Start(by, level) ==
  /\ ~me.on /\ todo[current] # <<>>
  /\ LET line == Head(todo[current]) IN
       /\ line.by = by
       /\ started' = Append(started, Text(line.parts))
       /\ Becomes([Idle EXCEPT !.on = TRUE, !.parts = line.parts, !.level = level])
  /\ todo' = [todo EXCEPT ![current] = Tail(@)]
  /\ UNCHANGED <<procVars, intbuf, uartVars>>

\* prntf masks IRQs, and puts the level back at the end
Prntf == Start("prntf", masked) /\ masked' = TRUE

\* as if salloc put the level of its caller back
UartPutsMutant == Start("uart_puts", masked) /\ UNCHANGED masked

(* The numbers of these lines come from send_messages: salloc has masked    *)
(* IRQs, and nothing in send_messages or uart_puts turns them on again.     *)
(* That is so while salloc finds a block, as it does here: main_proc prints *)
(* these lines before it forks, out of a heap of 1 MB (kernel.c:133) with   *)
(* two stacks of 32 KB in it.  A salloc that fails (smemory.c:68) leaves    *)
(* IRQs on, and uart_puts would print its -1 unmasked.                      *)
UartPuts == Start("uart_puts", TRUE) /\ masked' = TRUE

\* the transmit FIFO is not full: bit 5 of the flags
Room == Len(fifo) < FifoSize

\* a literal: putc has waited for room
Literal ==
  /\ me.on /\ me.pos = 0 /\ me.c = None /\ me.parts # <<>>
  /\ Head(me.parts).base = 0 /\ Room
  /\ Becomes([me EXCEPT !.c = Head(me.parts).v, !.parts = Tail(@)])
  /\ UNCHANGED <<todo, procVars, masked, intbuf, uartVars, started>>

\* a number: itoa, then puts at the start of intbuf
Number ==
  /\ me.on /\ me.pos = 0 /\ me.c = None /\ me.parts # <<>>
  /\ LET part == Head(me.parts) IN
       part.base # 0 /\ intbuf' = Filled(itoa(part.v, part.base))
  /\ Becomes([me EXCEPT !.pos = 1, !.parts = Tail(@)])
  /\ UNCHANGED <<todo, procVars, masked, uartVars, started>>

\* puts reads intbuf, to the end or the next character, and waits for room
Puts ==
  /\ me.pos > 0 /\ me.c = None
  /\ \/ intbuf[me.pos] = NUL /\ Becomes([me EXCEPT !.pos = 0])
     \/ intbuf[me.pos] # NUL /\ Room
        /\ Becomes([me EXCEPT !.c = intbuf[me.pos], !.pos = @ + 1])
  /\ UNCHANGED <<todo, procVars, masked, intbuf, uartVars, started>>

\* uart_putc writes the data register; a full FIFO drops the character
UartPutc ==
  /\ me.c # None
  /\ fifo' = IF Len(fifo) < FifoSize THEN Append(fifo, me.c) ELSE fifo
  /\ Becomes([me EXCEPT !.c = None])
  /\ UNCHANGED <<todo, procVars, masked, intbuf, out, started>>

Return ==
  /\ me.on /\ me.pos = 0 /\ me.c = None /\ me.parts = <<>>
  /\ Becomes(Idle) /\ masked' = me.level
  /\ UNCHANGED <<todo, procVars, intbuf, uartVars, started>>

UartSends ==
  /\ fifo # <<>>
  /\ out' = Append(out, Head(fifo)) /\ fifo' = Tail(fifo)
  /\ UNCHANGED <<todo, call, procVars, masked, intbuf, started>>

-----------------------------------------------------------------------------
(* Processes.  Which one runs next is Scheduler's subject: here it is any.  *)

\* A process starts, and comes back from a switch, with IRQs on.
Runs(q) == current' = q /\ masked' = FALSE

Finished == ~me.on /\ todo[current] = <<>>

\* process_system_initialize: the boot code becomes the idle process
BootEnds ==
  /\ current = Boot /\ procs = {Boot} /\ Finished
  /\ procs' = {Boot, Reaper, Main}
  /\ \E q \in {Reaper, Main} : Runs(q)
  /\ UNCHANGED <<todo, call, intbuf, uartVars, started>>

\* the second process_fork is not made
MainEndsMutant ==
  /\ current = Main /\ Finished
  /\ procs' = (procs \ {Main}) \cup {Proc1}
  /\ \E q \in procs' : Runs(q)
  /\ UNCHANGED <<todo, call, intbuf, uartVars, started>>

\* main_proc forks proc_1 and proc_2, with IRQs masked since send_messages, and ends
MainEnds ==
  /\ current = Main /\ Finished
  /\ procs' = (procs \ {Main}) \cup {Proc1, Proc2}
  /\ \E q \in procs' : Runs(q)
  /\ UNCHANGED <<todo, call, intbuf, uartVars, started>>

\* The timer preempts a process, or it sleeps or waits between two lines.
SwitchTo(q) ==
  /\ q \in procs \ {current} /\ procs # {Boot}
  /\ ~masked \/ (~me.on /\ current \in {Reaper, Proc1, Proc2})
  /\ Runs(q)
  /\ UNCHANGED <<todo, call, procs, intbuf, uartVars, started>>

\* A step of the current process
Step == Prntf \/ UartPuts \/ Literal \/ Number \/ Puts \/ UartPutc \/ Return
          \/ BootEnds \/ MainEnds

Next == Step \/ UartSends \/ \E q \in Processes : SwitchTo(q)

Spec == Init /\ [][Next]_vars

\* The UART sends what it holds; every process gets its turns, as Scheduler's
\* ReadyRuns shows, and a turn is long enough for a step.  (The idle process has
\* nothing more to print.)
FairSpec ==
  /\ Spec
  /\ WF_vars(UartSends) /\ SF_vars(Step)
  /\ \A q \in Processes \ {Boot} : SF_vars(SwitchTo(q))

-----------------------------------------------------------------------------
(* Properties                                                               *)

\* What the kernel's literals and numbers are made of.
Chars == {Digit(d) : d \in 0..15} \cup {"-", "x", "\n", "F", "S", "T", "H", "R"}
Parts == [base : {0}, v : Chars] \cup [base : {10, 16}, v : Ints]
Lines == [by : {"prntf", "uart_puts"}, parts : Seq(Parts)]

\* Variables keep their types, and the text in intbuf ends inside it: 33 bytes
\* hold every number that the kernel prints, with sign or 0x (stdlib.c:4, 40).
TypeOK ==
  /\ procs \subseteq Processes /\ current \in procs /\ masked \in BOOLEAN
  /\ todo \in [Processes -> Seq(Lines)]
  /\ call \in [Processes -> [on : BOOLEAN, parts : Seq(Parts), pos : 0..BufSize,
                             c : Chars \cup {None}, level : BOOLEAN]]
  /\ fifo \in Seq(Chars) /\ Len(fifo) <= FifoSize /\ out \in Seq(Chars)
  /\ started \in Seq(Seq(Chars))
  /\ intbuf \in [1..BufSize -> Chars \cup {NUL}] /\ \E i \in 1..BufSize : intbuf[i] = NUL

\* Only the current process can be in the middle of a line, with IRQs masked, and
\* there is room for a character that uart_putc has waited to write.
OnePrints ==
  /\ \A p \in Processes : call[p] # Idle => p = current /\ call[p].on
  /\ me.on => masked
  /\ me.c # None => Room

\* the character uart_putc is about to write
Held == IF me.c = None THEN <<>> ELSE <<me.c>>

\* The output, what the current process has in hand, what puts has still to read of
\* intbuf and the rest of the line make up the lines begun.
AddsUp(unread) == out \o fifo \o Held \o unread \o Text(me.parts) = FlattenSeq(started)
NothingLost ==
  \/ me.pos = 0 /\ AddsUp(<<>>)
  \/ me.pos > 0 /\ \E k \in me.pos..BufSize :
       /\ intbuf[k] = NUL /\ \A i \in me.pos..(k - 1) : intbuf[i] # NUL
       /\ AddsUp(SubSeq(intbuf, me.pos, k - 1))

\* The inductive invariant from which OutputWhole is proved: the buffer of itoa is
\* that of the process whose line it is, up to the last character.
ConsoleInv == TypeOK /\ OnePrints /\ NothingLost

\* What goes out is the lines, one after the other and each with its own
\* numbers, up to where the output has got: no process prints into the line of
\* another, over its number in intbuf, or into a full FIFO (stdout.c:20,
\* stdlib.c:4, uart.c:81).
OutputWhole == IsPrefix(out \o fifo, FlattenSeq(started))

\* Every line of every process is out in the end, whatever else is printed.
EveryLineOut == <>(out = FlattenSeq(started) /\ \A p \in Processes : todo[p] = <<>>)
=============================================================================
