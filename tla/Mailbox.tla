------------------------------ MODULE Mailbox ------------------------------
(***************************************************************************)
(* Property messages: send_messages of src/mailbox.c, the calls the kernel *)
(* makes of it, and the GPU at the other end of two hardware FIFOs.        *)
(*                                                                         *)
(* The GPU reads and writes a message where it lies in memory; a mail is   *)
(* the address of the message with the channel in its low four bits.       *)
(* Memory is counted in words of four bytes.                               *)
(***************************************************************************)
EXTENDS Integers, SequencesExt

CONSTANTS
  Program,    \* the calls, in order: [retry |-> BOOLEAN, tags |-> tag array]
  Blocks,     \* the addresses salloc may return
  BlockWords, \* words of memory from each of them on
  Stale,      \* what memory holds before
  Depth,      \* mails a FIFO has room for
  OtherMail,  \* mails the GPU may send on other channels
  MaxOther,   \* bound: how many of them
  MaxFaults   \* bound: calls that fail, for want of memory or at the GPU

PROPERTY_CHANNEL == 8
NULL == 0

REQUEST == 0
RESPONSE_SUCCESS == 1   \* 0x80000000
RESPONSE_ERROR == 2     \* 0x80000001
Codes == {REQUEST, RESPONSE_SUCCESS, RESPONSE_ERROR}

NULL_TAG == 0
GET_BOARD_MODEL == 65537
GET_BOARD_REV == 65538
GET_ARM_MEMORY == 65541
GET_CLOCK_RATE == 196610
FB_ALLOCATE_BUFFER == 262145
FB_RELESE_BUFFER == 294913
FB_GET_PHYSICAL_DIMENSIONS == 262147
FB_SET_PHYSICAL_DIMENSIONS == 294915
FB_GET_VIRTUAL_DIMENSIONS == 262148
FB_SET_VIRTUAL_DIMENSIONS == 294916
FB_GET_BITS_PER_PIXEL == 262149
FB_GET_BYTES_PER_ROW == 262152
FB_SET_BITS_PER_PIXEL == 294917

\* A tag array goes up to its null tag; value_buffer_t is a union of two words.
Tag == [proptag : Nat \ {NULL_TAG}, value : [1..2 -> Nat]]

\* SMemory shows the alignment.
ASSUME MailboxAssumption ==
  /\ Program \in Seq([retry : BOOLEAN, tags : Seq(Tag)])
  /\ \A m \in Blocks : m \in Nat \ {NULL} /\ m % 16 = 0
  /\ BlockWords \in Nat /\ Stale \in Nat
  /\ Depth \in Nat \ {0} /\ MaxOther \in Nat /\ MaxFaults \in Nat
  /\ OtherMail \subseteq {mail \in Nat : mail % 16 # PROPERTY_CHANNEL}

VARIABLES
  todo,    \* the calls still to make, the current one included
  pc,      \* where send_messages is; "idle" in its callers
  tags,    \* the array it was given
  msg,     \* its local msg
  result,  \* what it last returned
  held,    \* blocks that are allocated
  mem,     \* the words of each block
  toGpu, toArm,    \* the FIFOs
  gpu,             \* what the GPU does: [at, msg, code]
  others, faults   \* counters of MaxOther and MaxFaults

callVars == <<todo, tags, result>>
gpuVars == <<gpu, others, faults>>
vars == <<callVars, pc, msg, held, mem, toGpu, toArm, gpuVars>>

Init ==
  /\ todo = Program /\ pc = "idle" /\ tags = <<>> /\ msg = NULL /\ result = 0
  /\ held = {} /\ mem = [m \in Blocks |-> [i \in 1..BlockWords |-> Stale]]
  /\ toGpu = <<>> /\ toArm = <<>>
  /\ gpu = [at |-> "idle", msg |-> NULL, code |-> REQUEST]
  /\ others = 0 /\ faults = 0

-----------------------------------------------------------------------------
(* The layout of a message.  Operators named ...Mutant, here and below, are  *)
(* wrong variants of the definition that follows them; no specification     *)
(* uses them.                                                               *)

get_value_buffer_len(proptag) ==
  CASE proptag \in {GET_ARM_MEMORY, GET_CLOCK_RATE, FB_ALLOCATE_BUFFER,
                    FB_GET_PHYSICAL_DIMENSIONS, FB_SET_PHYSICAL_DIMENSIONS,
                    FB_GET_VIRTUAL_DIMENSIONS, FB_SET_VIRTUAL_DIMENSIONS} -> 8
    [] proptag \in {GET_BOARD_MODEL, GET_BOARD_REV, FB_GET_BITS_PER_PIXEL,
                    FB_SET_BITS_PER_PIXEL, FB_GET_BYTES_PER_ROW} -> 4
    [] OTHER -> 0

ValueWords(t) == get_value_buffer_len(t.proptag) \div 4

\* the tags, three more words, and the rounding to 16 bytes
BufSize(ts) ==
  LET Bytes[n \in 0..Len(ts)] ==
        IF n = 0 THEN 12 ELSE Bytes[n - 1] + get_value_buffer_len(ts[n].proptag) + 12
  IN  Bytes[Len(ts)] + ((-Bytes[Len(ts)]) % 16)

\* salloc gives as much as it is asked for.
ASSUME BlocksSuffice == \A c \in DOMAIN Program : BufSize(Program[c].tags) <= 4 * BlockWords

TagWords(t) ==
  <<t.proptag, get_value_buffer_len(t.proptag), 0>> \o SubSeq(t.value, 1, ValueWords(t))

Message(ts) ==
  <<BufSize(ts), REQUEST>>
    \o FlattenSeq([n \in DOMAIN ts |-> TagWords(ts[n])]) \o <<NULL_TAG>>

\* skips the bookkeeping words of the first tag only
ValueAtMutant(ts, n) ==
  LET At[k \in 1..n] == IF k = 1 THEN 6 ELSE At[k - 1] + ValueWords(ts[k - 1]) IN At[n]

\* the word of the message in which the value of tag n starts
ValueAt(ts, n) ==
  LET At[k \in 1..n] == IF k = 1 THEN 6 ELSE At[k - 1] + 3 + ValueWords(ts[k - 1]) IN At[n]

CopyBack(ts, buf) ==
  [n \in DOMAIN ts |->
     [ts[n] EXCEPT !.value =
        [k \in 1..2 |-> IF k <= ValueWords(ts[n]) THEN buf[ValueAt(ts, n) + k - 1]
                                          ELSE ts[n].value[k]]]]

-----------------------------------------------------------------------------
(* The kernel                                                               *)

\* The next call: framebuffer_init or one of get_system_config.
Call ==
  /\ pc = "idle" /\ todo # <<>>
  /\ pc' = "start"
  /\ tags' = Head(todo).tags
  /\ UNCHANGED <<todo, result, msg, held, mem, toGpu, toArm, gpuVars>>

\* gpu_init tries again, get_system_config does not look at the result.
Return(res) ==
  /\ pc' = "idle" /\ result' = res
  /\ todo' = IF Head(todo).retry /\ res # 0 THEN todo ELSE Tail(todo)

\* salloc has no block: return -1
OutOfMemory ==
  /\ pc = "start" /\ faults < MaxFaults
  /\ faults' = faults + 1
  /\ Return(-1)
  /\ UNCHANGED <<tags, msg, held, mem, toGpu, toArm, gpu, others>>

\* salloc, and the message written to the block; the padding is not
SendMessages ==
  /\ pc = "start"
  /\ pc' = "send"
  /\ \E m \in Blocks \ held :
       /\ msg' = m /\ held' = held \cup {m}
       /\ LET text == Message(tags)
          IN  mem' = [mem EXCEPT ![m] = [i \in 1..BlockWords |->
                                           IF i <= Len(text) THEN text[i] ELSE mem[m][i]]]
  /\ UNCHANGED <<callVars, toGpu, toArm, gpuVars>>

\* sends a bus address
MailboxSendMutant ==
  /\ pc = "send" /\ Len(toArm) < Depth
  /\ toGpu' = Append(toGpu, 1073741824 + msg + PROPERTY_CHANNEL)
  /\ pc' = "read"
  /\ UNCHANGED <<callVars, msg, held, mem, toArm, gpuVars>>

\* leaves the channel out
MailboxSendChannelMutant ==
  /\ pc = "send" /\ Len(toArm) < Depth
  /\ toGpu' = Append(toGpu, msg)
  /\ pc' = "read"
  /\ UNCHANGED <<callVars, msg, held, mem, toArm, gpuVars>>

\* Waits for the FIFO to the ARM not to be full: MAIL0_STATUS is its status, the one
\* that mailbox_read waits for.  The low bits of msg are zero, so | adds the channel.
MailboxSend ==
  /\ pc = "send" /\ Len(toArm) < Depth
  /\ toGpu' = Append(toGpu, msg + PROPERTY_CHANNEL)
  /\ pc' = "read"
  /\ UNCHANGED <<callVars, msg, held, mem, toArm, gpuVars>>

\* takes mail of any channel
MailboxReadMutant ==
  /\ pc = "read" /\ toArm # <<>>
  /\ toArm' = Tail(toArm)
  /\ pc' = "reply"
  /\ UNCHANGED <<callVars, msg, held, mem, toGpu, gpuVars>>

\* one round of the outer loop: mail of other channels is thrown away
MailboxRead ==
  /\ pc = "read" /\ toArm # <<>>
  /\ toArm' = Tail(toArm)
  /\ pc' = IF Head(toArm) % 16 = PROPERTY_CHANNEL THEN "reply" ELSE "read"
  /\ UNCHANGED <<callVars, msg, held, mem, toGpu, gpuVars>>

\* the early return keeps the block
ReplyMutant ==
  /\ pc = "reply"
  /\ LET code == mem[msg][2]
     IN  /\ Return(CASE code = REQUEST -> 1 [] code = RESPONSE_ERROR -> 2 [] OTHER -> 0)
         /\ tags' = IF code = RESPONSE_SUCCESS THEN CopyBack(tags, mem[msg]) ELSE tags
         /\ held' = IF code = RESPONSE_ERROR THEN held ELSE held \ {msg}
  /\ UNCHANGED <<msg, mem, toGpu, toArm, gpuVars>>

\* the response code, the copy back to the array, sfree, return
Reply ==
  /\ pc = "reply"
  /\ LET code == mem[msg][2]
     IN  /\ Return(CASE code = REQUEST -> 1
                     [] code = RESPONSE_ERROR -> 2
                     [] code = RESPONSE_SUCCESS -> 0
                     [] OTHER -> -1)
         /\ tags' = IF code = RESPONSE_SUCCESS THEN CopyBack(tags, mem[msg]) ELSE tags
  /\ held' = held \ {msg}
  /\ UNCHANGED <<msg, mem, toGpu, toArm, gpuVars>>

-----------------------------------------------------------------------------
(* The GPU.  It reads a message by the format and not by the kernel's        *)
(* offsets: from tag to tag by the length each one states, up to the end.   *)

GpuTake ==
  /\ gpu.at = "idle" /\ toGpu # <<>>
  /\ toGpu' = Tail(toGpu)
  /\ gpu' = IF Head(toGpu) % 16 = PROPERTY_CHANNEL
            THEN [at |-> "busy", msg |-> Head(toGpu) - PROPERTY_CHANNEL, code |-> REQUEST]
            ELSE gpu
  /\ UNCHANGED <<callVars, pc, msg, held, mem, toArm, others, faults>>

\* the words of a message in which its tags start, in order
TagStarts(buf) ==
  LET From[i \in Nat] == IF i > BlockWords - 2 \/ buf[i] = NULL_TAG
                         THEN <<>> ELSE <<i>> \o From[i + 3 + (buf[i + 1] \div 4)]
  IN  From[3]

\* the answer to word k of the n-th tag: no two of a run are the same
Answer(proptag, n, k) == 100 * proptag + 10 * n + k

Answered(buf, code) ==
  LET starts == TagStarts(buf)
      value(i) == {nk \in (DOMAIN starts) \X (1..2) :
                     /\ nk[2] <= buf[starts[nk[1]] + 1] \div 4
                     /\ i = starts[nk[1]] + 2 + nk[2]}
  IN  [i \in 1..BlockWords |->
         IF i = 2 THEN code
         ELSE IF value(i) = {} THEN buf[i]
         ELSE LET nk == CHOOSE nk \in value(i) : TRUE
              IN  Answer(buf[starts[nk[1]]], nk[1], nk[2])]

\* It answers; or reports an error, having written some values; or does nothing.
GpuAnswer(code) ==
  /\ gpu.at = "busy"
  /\ gpu' = [gpu EXCEPT !.at = "done", !.code = code]
  /\ mem' = IF code = REQUEST THEN mem
            ELSE [mem EXCEPT ![gpu.msg] = Answered(@, code)]
  /\ IF code = RESPONSE_SUCCESS
     THEN UNCHANGED faults ELSE faults < MaxFaults /\ faults' = faults + 1
  /\ UNCHANGED <<callVars, pc, msg, held, toGpu, toArm, others>>

GpuPost ==
  /\ gpu.at = "done" /\ Len(toArm) < Depth
  /\ toArm' = Append(toArm, gpu.msg + PROPERTY_CHANNEL)
  /\ gpu' = [gpu EXCEPT !.at = "idle"]
  /\ UNCHANGED <<callVars, pc, msg, held, mem, toGpu, others, faults>>

\* mail on another channel
GpuOther ==
  /\ others < MaxOther /\ Len(toArm) < Depth
  /\ \E mail \in OtherMail : toArm' = Append(toArm, mail)
  /\ others' = others + 1
  /\ UNCHANGED <<callVars, pc, msg, held, mem, toGpu, gpu, faults>>

-----------------------------------------------------------------------------
Kernel == Call \/ OutOfMemory \/ SendMessages \/ MailboxSend \/ MailboxRead \/ Reply
Gpu == GpuTake \/ (\E code \in Codes : GpuAnswer(code)) \/ GpuPost

Next == Kernel \/ Gpu \/ GpuOther

Spec == Init /\ [][Next]_vars

\* The CPU runs on (nothing preempts a caller that salloc has left masked) and
\* the GPU deals with its mail; it need not send any of its own.
FairSpec == Spec /\ WF_vars(Kernel) /\ WF_vars(Gpu)

-----------------------------------------------------------------------------
\* What the variables hold; the FIFOs never overflow.
TypeOK ==
  /\ \E n \in 0..Len(Program) : todo = SubSeq(Program, n + 1, Len(Program))
  /\ pc \in {"idle", "start", "send", "read", "reply"}
  /\ tags \in Seq(Tag)
  /\ msg \in Blocks \cup {NULL} /\ result \in -1..2 /\ held \subseteq Blocks
  /\ mem \in [Blocks -> [1..BlockWords -> Nat]]
  /\ toGpu \in Seq(Nat) /\ Len(toGpu) <= Depth
  /\ toArm \in Seq(Nat) /\ Len(toArm) <= Depth
  /\ gpu \in [at : {"idle", "busy", "done"}, msg : Blocks \cup {NULL}, code : Codes]
  /\ others \in 0..MaxOther /\ faults \in 0..MaxFaults

\* send_messages gives its buffer back on every way out (mailbox.c:99-124) and
\* keeps it until then: nothing else is allocated, in and between the calls.
BufferFreed == held = IF pc \in {"send", "read", "reply"} THEN {msg} ELSE {}

\* The mail in the FIFO to the CPU that brings a message back.
Answers == {i \in DOMAIN toArm : toArm[i] % 16 = PROPERTY_CHANNEL}

\* One message is on its way at most: in one FIFO, at the GPU, or in the other.
OneMessage ==
  /\ pc \in {"send", "read", "reply"} => msg \in Blocks
  /\ pc # "idle" => todo # <<>> /\ tags = Head(todo).tags
  /\ toGpu # <<>> => /\ pc = "read" /\ toGpu = <<msg + PROPERTY_CHANNEL>>
                     /\ gpu.at = "idle" /\ Answers = {}
  /\ gpu.at # "idle" => pc = "read" /\ gpu.msg = msg /\ Answers = {}
  /\ \A i, j \in Answers : pc = "read" /\ i = j

\* It is in memory as send_messages has laid it out until the GPU deals with it, and
\* then holds the response code and, if that is success, the answers.
Sent(buf, text) == \A i \in 1..Len(text) : buf[i] = text[i]
MessageOK ==
  /\ pc = "send" \/ toGpu # <<>> \/ gpu.at = "busy" => Sent(mem[msg], Message(tags))
  /\ gpu.at = "done" \/ Answers # {} \/ pc = "reply" =>
       /\ mem[msg][2] = gpu.code
       /\ gpu.code = RESPONSE_SUCCESS =>
            \A n \in DOMAIN tags : \A k \in 1..ValueWords(tags[n]) :
              mem[msg][ValueAt(tags, n) + k - 1] = Answer(tags[n].proptag, n, k)

MailboxInv == TypeOK /\ BufferFreed /\ OneMessage /\ MessageOK

\* Kernel and GPU write only to a block that send_messages holds, within the
\* size it asked salloc for: no answer comes to a block that was freed, which the
\* kernel could have given to somebody else, and no tag is laid past the end.
WritesInBuffer ==
  [][\A m \in Blocks : \A i \in 1..BlockWords :
       mem'[m][i] # mem[m][i] => m \in held' /\ 4 * i <= mem'[m][1]]_vars

\* mailbox.h:120-122: send_messages "will populate that array with the responses
\* ... returns 0 on success".  It returns 0 exactly if the GPU has answered this
\* very request; then each value is the answer to its own tag, as many words of it
\* as the tag has; on every failure the array is what the caller gave.
AnswersInPlace ==
  [][pc # "idle" /\ pc' = "idle" =>
       LET ok == pc = "reply" /\ gpu.code = RESPONSE_SUCCESS
       IN  /\ result' = 0 <=> ok
           /\ \A n \in DOMAIN tags : \A k \in 1..2 :
                tags'[n].value[k] =
                  IF ok /\ k <= ValueWords(tags[n])
                  THEN Answer(tags[n].proptag, n, k) ELSE tags[n].value[k]]_vars

\* mailbox_send is stuck: it waits for room in the FIFO that only its own caller
\* would empty, once it has sent (mailbox.c:26).
SendStuck == pc = "send" /\ Len(toArm) = Depth

\* The kernel gets through its calls, however the mail of other channels falls in
\* between, unless a call finds the FIFO to the ARM full of such mail; once the GPU
\* and the heap have stopped failing.
CallsReturn == <>(todo = <<>> /\ pc = "idle") \/ <>[]SendStuck
=============================================================================
