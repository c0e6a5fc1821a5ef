----------------------------- MODULE SerialBoot -----------------------------
(***************************************************************************)
(* Loading the kernel over the serial line: forward.py on the host, the    *)
(* packet loop of bootloader.c on the board, and the line between them,    *)
(* which may corrupt or lose a byte on its way to the board.               *)
(*                                                                         *)
(* A packet is type, address, data and check sum.  Here each is one byte   *)
(* (in the code the address and the data are four), and a byte has three   *)
(* bits, so that the check sum is computed and not assumed to work.        *)
(***************************************************************************)
EXTENDS Integers, SequencesExt

CONSTANTS
  Image,       \* kernel7.img, a sequence of words
  ChunkWords,  \* the words that read_file reads at a time: 128 bytes
  LoadAddr,    \* 0x8000
  Junk,        \* what RAM may hold, besides zeros, when the board starts
  MaxErrors,   \* bound: bytes corrupted
  MaxLost      \* bound: bytes lost

Byte == 0..7
FF   == 7      \* 0xff: the end of a reply, and the filler of jumps and reads
Read88 == 6    \* 0x88: a byte read follows
Banner == 8    \* the line "Waiting for input"

WRITE == 1
JUMP == 2
READ == 4

ASSUME SerialAssumption ==
  /\ Image \in Seq(Byte)
  /\ ChunkWords \in Nat \ {0}
  /\ LoadAddr \in Byte /\ LoadAddr + Len(Image) - 1 \in Byte
  /\ Junk \in Byte
  /\ MaxErrors \in Nat /\ MaxLost \in Nat

VARIABLES
  host,    \* where forward.py is
  pos,     \* words of the image that are dealt with: addr - 0x8000
  left,    \* words of the current chunk still to write
  numw,    \* read_file's count of the words it wrote
  out,     \* bytes of the current packet still to send
  up,      \* the line to the board: [val |-> as it arrives, sent |-> as it was sent]
  down,    \* the line to the host
  board,   \* "reset", "loop" or "jumped"
  packet,  \* the bytes of the packet received so far; pidx is its length
  mem,     \* RAM
  ram,     \* what it held when the board started (no code reads it)
  stored,  \* words the board has stored
  entry,   \* the address branched to
  errors, lost   \* faults so far

hostVars  == <<host, pos, left, numw, out>>
boardVars == <<board, packet, mem, ram, stored, entry>>
vars == <<hostVars, up, down, boardVars, errors, lost>>

Init ==
  /\ host = "banner" /\ pos = 0 /\ left = 0 /\ numw = 0 /\ out = <<>>
  /\ up = <<>> /\ down = <<>>
  /\ board = "reset" /\ packet = <<>> /\ stored = 0 /\ entry = -1
  /\ ram \in {[a \in Byte |-> 0], [a \in Byte |-> Junk]} /\ mem = ram
  /\ errors = 0 /\ lost = 0

(* The operators named ...Mutant, here and below, are wrong variants of the  *)
(* definition that follows them; no specification uses them.                *)

Bit(x, b) == (x \div b) % 2

\* | for ^
XorMutant(x, y) == LET sum(b) == b * (IF Bit(x, b) + Bit(y, b) > 0 THEN 1 ELSE 0)
                   IN  sum(4) + sum(2) + sum(1)

\* x ^ y, of two bytes
Xor(x, y) == LET sum(b) == b * ((Bit(x, b) + Bit(y, b)) % 2)
             IN  sum(4) + sum(2) + sum(1)

\* A packet with its check sum.
Packet(type, addr, data) == <<type, addr, data, Xor(Xor(type, addr), data)>>

-----------------------------------------------------------------------------
(* forward.py                                                               *)

\* The line 'Waiting for input' has been read.
HostStart ==
  /\ host = "banner" /\ down # <<>> /\ Head(down) = Banner
  /\ host' = "read" /\ down' = Tail(down)
  /\ UNCHANGED <<pos, left, numw, out, up, boardVars, errors, lost>>

Chunk == SubSeq(Image, pos + 1, Min({Len(Image), pos + ChunkWords}))
AllZeros(c) == Range(c) = {0}

\* skips every chunk that has a zero word
ReadChunkMutant ==
  /\ host = "read" /\ left = 0 /\ Chunk # <<>>
  /\ IF 0 \in Range(Chunk)
     THEN pos' = pos + Len(Chunk) /\ UNCHANGED left
     ELSE left' = Len(Chunk) /\ UNCHANGED pos
  /\ UNCHANGED <<host, numw, out, up, down, boardVars, errors, lost>>

\* f.read(128): a chunk of zeros is not sent
ReadChunk ==
  /\ host = "read" /\ left = 0 /\ Chunk # <<>>
  /\ IF AllZeros(Chunk)
     THEN pos' = pos + Len(Chunk) /\ UNCHANGED left
     ELSE left' = Len(Chunk) /\ UNCHANGED pos
  /\ UNCHANGED <<host, numw, out, up, down, boardVars, errors, lost>>

\* write_write
WriteWord ==
  /\ host = "read" /\ left > 0
  /\ host' = "send"
  /\ out' = Packet(WRITE, LoadAddr + pos, Image[pos + 1])
  /\ UNCHANGED <<pos, left, numw, up, down, boardVars, errors, lost>>

\* the filler is forgotten
WriteJumpMutant ==
  /\ host = "read" /\ left = 0 /\ Chunk = <<>>
  /\ host' = "jump"
  /\ out' = Packet(JUMP, LoadAddr, 0)
  /\ UNCHANGED <<pos, left, numw, up, down, boardVars, errors, lost>>

\* write_jump, at the end of the file
WriteJump ==
  /\ host = "read" /\ left = 0 /\ Chunk = <<>>
  /\ host' = "jump"
  /\ out' = Packet(JUMP, LoadAddr, FF)
  /\ UNCHANGED <<pos, left, numw, up, down, boardVars, errors, lost>>

\* does not wait for the reply
PacketSentMutant == host' = IF host = "send" THEN "read" ELSE "done"

\* Returns from write_packet: a write waits for its reply, the jump does not.
PacketSent == host' = IF host = "send" THEN "wait" ELSE "done"

(* write_byte: throws away what has arrived, which may be less than the     *)
(* board has sent, and sends.  The byte may be changed, or lost, on its way. *)
WriteByte ==
  /\ out # <<>>
  /\ \/ /\ up' = Append(up, [val |-> Head(out), sent |-> Head(out)])
        /\ UNCHANGED <<errors, lost>>
     \/ \E b \in Byte \ {Head(out)} :
          /\ errors < MaxErrors /\ errors' = errors + 1
          /\ up' = Append(up, [val |-> b, sent |-> Head(out)])
          /\ UNCHANGED lost
     \/ /\ lost < MaxLost /\ lost' = lost + 1
        /\ UNCHANGED <<up, errors>>
  /\ \E k \in 0..Len(down) : down' = SubSeq(down, k + 1, Len(down))
  /\ out' = Tail(out)
  /\ IF Len(out) = 1 THEN PacketSent ELSE UNCHANGED host
  /\ UNCHANGED <<pos, left, numw, boardVars>>

\* expects the reply to start with a byte of its own
ReadUntilProcMutant ==
  /\ host = "wait" /\ Len(down) > 1
  /\ down' = Tail(Tail(down))
  /\ IF Head(Tail(down)) = FF
     THEN host' = "read" /\ pos' = pos + 1 /\ left' = left - 1 /\ numw' = numw + 1
     ELSE UNCHANGED <<host, pos, left, numw>>
  /\ UNCHANGED <<out, up, boardVars, errors, lost>>

\* read_until_proc: everything up to 0xff is ignored, an error code too
ReadUntilProc ==
  /\ host = "wait" /\ down # <<>>
  /\ down' = Tail(down)
  /\ IF Head(down) = FF
     THEN host' = "read" /\ pos' = pos + 1 /\ left' = left - 1 /\ numw' = numw + 1
     ELSE UNCHANGED <<host, pos, left, numw>>
  /\ UNCHANGED <<out, up, boardVars, errors, lost>>

Host ==
  \/ HostStart \/ ReadChunk \/ WriteWord \/ WriteJump \/ WriteByte \/ ReadUntilProc

-----------------------------------------------------------------------------
(* bootloader.c                                                             *)

\* uart_puts("Waiting for input\r\n")
BoardStart ==
  /\ board = "reset"
  /\ board' = "loop" /\ down' = Append(down, Banner)
  /\ UNCHANGED <<hostVars, up, packet, mem, ram, stored, entry, errors, lost>>

\* uart_getc, while the packet is not complete
Getc ==
  /\ board = "loop" /\ up # <<>> /\ Len(packet) < 3
  /\ packet' = Append(packet, Head(up))
  /\ up' = Tail(up)
  /\ UNCHANGED <<hostVars, down, board, mem, ram, stored, entry, errors, lost>>

\* The packet is complete with the byte that has just arrived.
Complete == board = "loop" /\ up # <<>> /\ Len(packet) = 3
Full == Append(packet, Head(up))
Type == Full[1].val
Addr == Full[2].val
Data == Full[3].val

\* leaves out the address
CheckSumOKMutant == Full[4].val = Xor(Type, Data)

CheckSumOK == Full[4].val = Xor(Xor(Type, Addr), Data)

\* The packet is used up, and the reply is `code` and 0xff.
Handled == packet' = <<>> /\ up' = Tail(up)
Reply(code) == down' = down \o code \o <<FF>>

Store ==
  /\ Complete /\ CheckSumOK /\ Type = WRITE
  /\ mem' = [mem EXCEPT ![Addr] = Data]
  /\ stored' = stored + 1
  /\ Handled /\ Reply(<<>>)
  /\ UNCHANGED <<hostVars, board, ram, entry, errors, lost>>

Jump ==
  /\ Complete /\ CheckSumOK /\ Type = JUMP /\ Data = FF
  /\ board' = "jumped" /\ entry' = Addr
  /\ Handled
  /\ UNCHANGED <<hostVars, down, mem, ram, stored, errors, lost>>

ReadMem ==
  /\ Complete /\ CheckSumOK /\ Type = READ /\ Data = FF
  /\ Handled /\ Reply(<<Read88, mem[Addr]>>)
  /\ UNCHANGED <<hostVars, board, mem, ram, stored, entry, errors, lost>>

\* The four error codes.
Refusal ==
  CASE ~CheckSumOK  -> <<0, 4>>
    [] Type = JUMP  -> <<0, 1>>
    [] Type = READ  -> <<0, 2>>
    [] OTHER        -> <<0, 3>>

Refuse ==
  /\ Complete
  /\ ~CheckSumOK \/ ~(Type = WRITE \/ (Type \in {JUMP, READ} /\ Data = FF))
  /\ Handled /\ Reply(Refusal)
  /\ UNCHANGED <<hostVars, board, mem, ram, stored, entry, errors, lost>>

Board == BoardStart \/ Getc \/ Store \/ Jump \/ ReadMem \/ Refuse

-----------------------------------------------------------------------------
Next == Host \/ Board

Spec == Init /\ [][Next]_vars

\* Both programs run on, each at its own pace, and the line delivers.
FairSpec == Spec /\ WF_vars(Host) /\ WF_vars(Board)

-----------------------------------------------------------------------------
WireByte == [val : Byte, sent : Byte]

\* What the variables hold; the board never has more than a packet.
TypeOK ==
  /\ host \in {"banner", "read", "send", "wait", "jump", "done"}
  /\ pos \in 0..Len(Image) /\ left \in 0..ChunkWords /\ numw \in 0..Len(Image)
  /\ out \in Seq(Byte) /\ up \in Seq(WireByte)
  /\ down \in Seq(Byte \cup {Banner})
  /\ board \in {"reset", "loop", "jumped"}
  /\ packet \in Seq(WireByte) /\ Len(packet) < 4
  /\ mem \in [Byte -> Byte] /\ ram \in [Byte -> Byte] /\ stored \in Nat /\ entry \in Byte \cup {-1}
  /\ errors \in 0..MaxErrors /\ lost \in 0..MaxLost

Damaged == {k \in DOMAIN Full : Full[k].val # Full[k].sent}

\* The check sum does its work: a packet in which one byte was corrupted neither
\* changes memory nor starts the kernel.  (Not so when a byte was lost and two were
\* corrupted: the loader may then go on after half a packet, and the board check
\* the sum of two halves.)
SingleErrorHarmless ==
  [][(lost = 0 \/ errors <= 1) /\ Complete /\ Cardinality(Damaged) = 1 =>
       UNCHANGED <<mem, entry>>]_vars

\* Word k of the image is not in a chunk of zeros.
Sent(k) ==
  LET first == ChunkWords * ((k - 1) \div ChunkWords)
  IN  ~AllZeros(SubSeq(Image, first + 1, Min({Len(Image), first + ChunkWords})))

\* RAM that was r, when the first n words of the image are dealt with.
Loaded(r, n) ==
  [a \in Byte |-> IF \E k \in 1..n : Sent(k) /\ a = LoadAddr + k - 1
                  THEN Image[a - LoadAddr + 1] ELSE r[a]]

\* When no byte was lost or changed, the kernel is started at 0x8000 with every
\* word of the image in place that is not in a chunk of zeros.  The rest of RAM is
\* what it was, also where the chunks of zeros belong: the kernel finds zeros there
\* only if RAM had them (forward.py:102-103).
KernelIntact ==
  board = "jumped" /\ errors = 0 /\ lost = 0 =>
    entry = LoadAddr /\ mem = Loaded(ram, Len(Image))

\* forward.py gets through the file when no byte is lost and no packet is
\* corrupted in two places; in particular it never takes the wrong byte for the
\* end of a reply, or throws that end away.
HostFinishes == [](lost = 0 /\ errors <= 1) => <>(host = "done")

\* On a line without faults the kernel is started.
KernelStarts == [](lost = 0 /\ errors = 0) => <>(board = "jumped")

\* "wrote" and numw (forward.py:113): on a line without faults the words counted
\* were stored, each before the next is sent.  (A single corrupted byte refutes it:
\* the loader takes the reply that refuses the packet for any other.)
WroteMeansStored ==
  errors = 0 /\ lost = 0 =>
    /\ numw <= stored
    /\ host \in {"jump", "done"} => stored = numw

-----------------------------------------------------------------------------
(* The inductive invariant.                                                 *)

\* Where read_file is: a chunk begins at a multiple of ChunkWords, and is dealt
\* with before the next.
PlaceOK ==
  /\ pos + left <= Len(Image) /\ numw <= pos
  /\ (pos + left) % ChunkWords = 0 \/ pos + left = Len(Image)
  /\ \A k \in (pos + 1)..(pos + left) : Sent(k)
  /\ host \in {"send", "wait"} => left > 0
  /\ host = "banner" => pos = 0 /\ left = 0
  /\ host \in {"jump", "done"} => pos = Len(Image) /\ left = 0

\* The bytes that are under way: with the board, on the line, still to send.
Arrived == Len(packet) + Len(up)
InFlight == Arrived + Len(out)

\* Byte i of those with the board or on the line, and what was sent as byte i.
Arriving(i) == IF i <= Len(packet) THEN packet[i] ELSE up[i - Len(packet)]
Wire(i) == IF i <= Arrived THEN Arriving(i).sent ELSE out[i - Arrived]

\* Unless one was lost, the bytes under way are whole packets.
CheckSummed(k) == Wire(k + 4) = Xor(Xor(Wire(k + 1), Wire(k + 2)), Wire(k + 3))
WholePackets ==
  \E n \in 0..InFlight : InFlight = 4 * n /\ \A m \in 0..(n - 1) : CheckSummed(4 * m)

WholeOK ==
  /\ host \in {"send", "jump"} <=> out # <<>>
  /\ board = "reset" => host = "banner" /\ down = <<>>
  /\ host = "banner" => InFlight = 0 /\ Len(down) <= 1
  /\ lost = 0 => WholePackets

CurrentPacket == IF host \in {"send", "wait"}
                 THEN Packet(WRITE, LoadAddr + pos, Image[pos + 1])
                 ELSE Packet(JUMP, LoadAddr, FF)

\* The bytes changed on their way are at most one, and the faults count it.
Changed == {i \in 1..Arrived : Arriving(i).val # Arriving(i).sent}
OneChanged == \A i, j \in Changed : errors = 1 /\ i = j

(* While at most one byte has been changed the loader sends a packet only when *)
(* the board has dealt with the last one, and takes in the whole of a reply.   *)
(* If a byte is lost the packet is never complete, and the loader waits.       *)
FlightOK ==
  errors <= 1 =>
    /\ host = "read" => InFlight = 0
    /\ host \in {"read", "send", "jump"} => down = <<>>
    /\ host = "wait" /\ down # <<>> =>
         InFlight = 0 /\ \A i \in 1..(Len(down) - 1) : down[i] # FF
    /\ InFlight <= 4
    /\ InFlight = 4 => \A i \in 1..4 : Wire(i) = CurrentPacket[i]
    /\ OneChanged

\* While nothing has been lost or changed: all of a packet is on its way until the
\* board has dealt with it, and then one reply is.
CleanOK ==
  errors = 0 /\ lost = 0 =>
    /\ host \in {"send", "jump"} => InFlight = 4
    /\ host # "wait" => stored = numw
    /\ host = "wait" => \/ InFlight = 4 /\ down = <<>> /\ stored = numw
                        \/ InFlight = 0 /\ down = <<FF>> /\ stored = numw + 1
    /\ host = "done" => InFlight = 4 \/ board = "jumped"
    /\ board = "jumped" => host = "done" /\ entry = LoadAddr
    /\ mem = Loaded(ram, IF stored = numw THEN pos ELSE pos + 1)

SerialInv == TypeOK /\ PlaceOK /\ WholeOK /\ FlightOK /\ CleanOK
=============================================================================
