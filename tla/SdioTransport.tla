---------------------------- MODULE SdioTransport ----------------------------
(***************************************************************************)
(* sdio_spi.c of the porting assistant: calls that read and write the      *)
(* transceiver's memory over SDIO.  CMD52 writes set, one register at a    *)
(* time, the window the chip's keyhole shows; CMD53 then moves bytes inside *)
(* that window, whole blocks first and the rest bytewise.  Any command may *)
(* fail, and one that fails may have taken effect, in part or entirely.    *)
(*                                                                         *)
(* The transceiver and mmhal_wlan_sdio_* are not under src/: each function *)
(* has its keyhole, and a CMD53 read may repeat its first word in place of *)
(* the second, as the comment in sdio_spi_read_multi_byte reports.         *)
(*                                                                         *)
(* Bytes are numbers that tell where they come from.  Calls stay below the *)
(* last window, whose end wraps to 0: no caller addresses it.              *)
(*                                                                         *)
(* Bounds: Starts and Lengths of the calls, MaxCalls.                      *)
(***************************************************************************)
EXTENDS Integers, Sequences

CONSTANTS Window,    \* bytes of a window (64K), also the longest transfer (128 * 512)
          Windows,   \* windows below the last
          Radix,     \* values of the register of the lower address bits (256)
          Word,      \* 4
          Block1, Block2,  \* block sizes of the functions (8, 512)
          Mask, Starts, Lengths, MaxCalls

Top == Windows * Window
Address == 0..(Top - 1)

ASSUME SizesAssumption ==
  /\ {Window, Windows, Radix, Word, Block1, Block2} \subseteq Nat \ {0}
  /\ Window % Word = 0 /\ Word < Block1 /\ 2 * Word < Block2
ASSUME CallsAssumption ==
  Starts \subseteq Address /\ Lengths \subseteq Nat /\ MaxCalls \in Nat /\ Mask \in Nat

VARIABLES
  \* the transceiver
  mem, reg,
  \* the call
  op,        \* the function that runs: "read", "write", "read_le32" or "write_le32"
  updating,  \* it is called by sdio_spi_update_le32
  start, len, src, buf,  \* address, length, bytes to write, bytes read
  pc,
  done,      \* bytes of the chunks before this one
  size, pos, \* bytes of this chunk, and of those already moved
  ret,
  \* history, read by no step
  stored,    \* bytes written that arrived
  failed,    \* a transfer of this call failed
  garbled,   \* a repeated word was not seen, or seen twice
  calls

device == <<mem, reg>>
args   == <<op, updating, start, len, src>>
vars   == <<device, args, buf, pc, done, size, pos, ret, stored, failed, garbled, calls>>

Blank == 90000           \* what the caller's buffer holds before a read
SourceByte(n, i) == 1000 * n + i

fn == IF op = "read_le32" THEN 1 ELSE 2
Multi == op \in {"read", "write"}

Init ==
  /\ \/ mem = [a \in Address |-> a]
     \/ mem = [a \in Address |-> 0]
  /\ reg = [f \in {1, 2} |-> [w0 |-> 0, w1 |-> 0, config |-> "none"]]
  /\ op = "read" /\ updating = FALSE /\ start = 0 /\ len = 0 /\ src = <<>> /\ buf = <<>>
  /\ pc = "idle" /\ done = 0 /\ size = 0 /\ pos = 0 /\ ret = "ok"
  /\ stored = 0 /\ failed = FALSE /\ garbled = FALSE /\ calls = 0

-----------------------------------------------------------------------------
(* A call begins *)

Begin(o, a, n, bytes) ==
  /\ pc = "idle" /\ calls < MaxCalls /\ a + n <= Top
  /\ op' = o /\ start' = a /\ len' = n /\ src' = bytes
  /\ buf' = [i \in 1..n |-> Blank]
  /\ done' = 0 /\ stored' = 0 /\ failed' = FALSE /\ garbled' = FALSE
  /\ calls' = calls + 1
  /\ UNCHANGED <<device, size, pos>>

Runs == pc' = "window0" /\ ret' = "running"
Refused == UNCHANGED pc /\ ret' = "invalid"

SourceBytes(n) == [i \in 1..n |-> SourceByte(calls + 1, i)]

BadLength(n) == n = 0 \/ n % Word # 0

MultiByte(o, a, n) ==
  /\ ~BadLength(n) /\ Runs
  /\ Begin(o, a, n, IF o = "write" THEN SourceBytes(n) ELSE <<>>)
  /\ updating' = FALSE

Invalid(o, a, n) ==
  /\ BadLength(n) /\ Refused
  /\ Begin(o, a, n, <<>>)
  /\ updating' = FALSE

Aligned(a) == a % Word = 0

\* Refused when data is NULL.
ReadLe32(a) ==
  /\ Aligned(a) /\ Begin("read_le32", a, Word, <<>>) /\ updating' = FALSE
  /\ Runs \/ Refused

WriteLe32(a) ==
  Aligned(a) /\ Runs /\ Begin("write_le32", a, Word, SourceBytes(Word)) /\ updating' = FALSE
UpdateLe32(a) ==
  Aligned(a) /\ Runs /\ Begin("read_le32", a, Word, <<>>) /\ updating' = TRUE

Call ==
  \E a \in Starts :
    \/ \E n \in Lengths, o \in {"read", "write"} : MultiByte(o, a, n) \/ Invalid(o, a, n)
    \/ ReadLe32(a) \/ WriteLe32(a) \/ UpdateLe32(a)

Return(r) == pc' = "idle" /\ ret' = r

-----------------------------------------------------------------------------
(* morse_address_base_set *)

At == start + done + pos     \* the address of the next transfer
WindowOf(a) == a \div Window

KeyholeFor(a) ==
  [w0 |-> WindowOf(a) % Radix, w1 |-> WindowOf(a) \div Radix, config |-> "4BYTE"]

\* The registers after the CMD52 at c.
Written(c) ==
  CASE c = "window0" -> [reg EXCEPT ![fn].w0 = KeyholeFor(start + done).w0]
    [] c = "window1" -> [reg EXCEPT ![fn].w1 = KeyholeFor(start + done).w1]
    [] c = "config"  -> [reg EXCEPT ![fn].config = "4BYTE"]

ChunkSize_NoTruncate(a, left) == IF left < Window THEN left ELSE Window

\* The bytes to transfer on this iteration of the loop.
ChunkSize(a, left) ==
  LET most == IF left < Window THEN left ELSE Window
      nextBoundary == (WindowOf(a) + 1) * Window
  IN  IF a + most > nextBoundary THEN nextBoundary - a ELSE most

Cmd52 ==
  /\ pc \in {"window0", "window1", "config"}
  /\ reg' = Written(pc)
  /\ pc' = CASE pc = "window0" -> "window1" [] pc = "window1" -> "config" [] OTHER -> "move"
  /\ IF pc = "config"
     THEN /\ size' = IF Multi THEN ChunkSize(start + done, len - done) ELSE len
          /\ pos' = 0
     ELSE UNCHANGED <<size, pos>>
  /\ UNCHANGED <<mem, args, buf, done, ret, stored, failed, garbled, calls>>

Cmd52Fails_Ignored ==
  /\ pc \in {"window0", "window1"}
  /\ pc' = IF pc = "window0" THEN "window1" ELSE "config"
  /\ UNCHANGED <<device, args, buf, done, size, pos, ret, stored, failed, garbled, calls>>

Cmd52Fails ==
  /\ pc \in {"window0", "window1", "config"}
  /\ reg' \in {reg, Written(pc)}
  /\ Return("error")
  /\ UNCHANGED <<mem, args, buf, done, size, pos, stored, failed, garbled, calls>>

-----------------------------------------------------------------------------
(* morse_cmd53_read and morse_cmd53_write: transfers of a chunk *)

BlockSize == IF fn = 1 THEN Block1 ELSE Block2

\* The next transfer: the whole blocks, then what is left over.
Part ==
  LET blocks == (size - pos) \div BlockSize
  IN  IF blocks > 0 THEN blocks * BlockSize ELSE size - pos

\* The window the keyhole shows, and the address in it of byte i of a transfer to a.
Base == (reg[fn].w1 * Radix + reg[fn].w0) * Window
Shown(a, i) == Base + ((a + i) % Window)

Target_ChunkStart == start + done
Target == At

\* k bytes arrive in the transceiver.
Store(k) ==
  /\ mem' = [a \in Address |->
               IF \E i \in 0..(k - 1) : Shown(Target, i) = a
               THEN src[done + pos + (CHOOSE i \in 0..(k - 1) : Shown(Target, i) = a) + 1]
               ELSE mem[a]]
  /\ stored' = stored + k

\* k bytes arrive in the caller's buffer; in a garbled read the first word comes twice.
Fetch(k, repeat) ==
  LET byte(j) == IF repeat /\ j \in Word..(2 * Word - 1) THEN j - Word ELSE j
  IN  buf' = [i \in 1..len |->
                IF i - done - pos \in 1..k THEN mem[Shown(At, byte(i - done - pos - 1))]
                                          ELSE buf[i]]

Moved == pos' = pos + Part /\ pc' = IF pos + Part < size THEN "move" ELSE "moved"

Cmd53Write ==
  /\ pc = "move" /\ op \in {"write", "write_le32"}
  /\ Store(Part) /\ Moved
  /\ UNCHANGED <<reg, args, buf, done, size, ret, failed, garbled, calls>>

Cmd53WriteFails ==
  /\ pc = "move" /\ op \in {"write", "write_le32"}
  /\ \E k \in 0..Part : Store(k)
  /\ failed' = TRUE /\ Return("error")
  /\ UNCHANGED <<reg, args, buf, done, size, pos, garbled, calls>>

\* Only a word repeated at the start of the chunk is looked for afterwards.
Cmd53Read ==
  /\ pc = "move" /\ op \in {"read", "read_le32"}
  /\ \E repeat \in BOOLEAN :
       /\ repeat => Part >= 2 * Word
       /\ Fetch(Part, repeat)
       /\ garbled' = (garbled \/ (repeat /\ pos > 0))
  /\ Moved
  /\ UNCHANGED <<device, args, done, size, ret, stored, failed, calls>>

\* sdio_spi_read_multi_byte does not look at the result.
Cmd53ReadFails ==
  /\ pc = "move" /\ op \in {"read", "read_le32"}
  /\ \E k \in 0..Part : Fetch(k, FALSE)
  /\ failed' = TRUE
  /\ IF op = "read" THEN pc' = "moved" /\ UNCHANGED ret ELSE Return("error")
  /\ UNCHANGED <<device, args, done, size, pos, stored, garbled, calls>>

-----------------------------------------------------------------------------
(* After a chunk *)

Repeated_Ignored == FALSE

Repeated ==
  size >= 2 * Word /\ \A i \in 1..Word : buf[done + i] = buf[done + Word + i]

\* The first two words are read again when they are equal.
ReRead ==
  /\ pc = "moved" /\ op = "read" /\ Repeated
  /\ pos' = 0 /\ pc' = "reread"
  /\ UNCHANGED <<device, args, buf, done, size, ret, stored, failed, garbled, calls>>

ReReadDone_CheckAgain ==
  /\ pc = "reread" /\ Fetch(2 * Word, FALSE)
  /\ pc' = "moved"
  /\ UNCHANGED <<device, args, done, size, pos, ret, stored, failed, garbled, calls>>

ReReadDone ==
  /\ pc = "reread"
  /\ \/ \E repeat \in BOOLEAN :
          Fetch(2 * Word, repeat) /\ garbled' = (garbled \/ repeat) /\ UNCHANGED failed
     \/ \E k \in 0..(2 * Word) :
          Fetch(k, FALSE) /\ failed' = TRUE /\ UNCHANGED garbled
  /\ pc' = "chunk"
  /\ UNCHANGED <<device, args, done, size, pos, ret, stored, calls>>

ChunkDone ==
  \/ pc = "chunk"
  \/ pc = "moved" /\ op = "write"
  \/ pc = "moved" /\ op = "read" /\ ~Repeated

NextChunk ==
  /\ ChunkDone
  /\ done' = done + size /\ pos' = 0
  /\ IF done' < len THEN pc' = "window0" /\ UNCHANGED ret ELSE Return("ok")
  /\ UNCHANGED <<device, args, buf, size, stored, failed, garbled, calls>>

Le32Done ==
  /\ pc = "moved" /\ ~Multi /\ ~(updating /\ op = "read_le32")
  /\ Return("ok")
  /\ UNCHANGED <<device, args, buf, done, size, pos, stored, failed, garbled, calls>>

Modified(b) == b + Mask

\* sdio_spi_update_le32 writes the word it has read with the masked bits changed.
UpdateWrite ==
  /\ pc = "moved" /\ updating /\ op = "read_le32"
  /\ op' = "write_le32" /\ src' = [i \in 1..Word |-> Modified(buf[i])]
  /\ pos' = 0 /\ pc' = "window0"
  /\ UNCHANGED <<device, updating, start, len, buf, done, size, ret, stored, failed,
                 garbled, calls>>

-----------------------------------------------------------------------------
Step ==
  \/ Cmd52 \/ Cmd52Fails \/ Cmd53Write \/ Cmd53WriteFails \/ Cmd53Read \/ Cmd53ReadFails
  \/ ReRead \/ ReReadDone \/ NextChunk \/ Le32Done \/ UpdateWrite

Next == Call \/ Step

Spec == Init /\ [][Next]_vars

\* A command ends, with its answer or an error, and the calling task runs.
FairSpec == Spec /\ WF_vars(Step)

-----------------------------------------------------------------------------
\* The bytes the next command moves.
Moving == CASE pc = "move" -> Part [] pc = "reread" -> 2 * Word [] OTHER -> 0

\* "cannot cross 64K boundaries": a transfer stays in the window it starts in, inside the
\* caller's range and inside its buffer.
NoCrossing ==
  Moving > 0 => /\ (At % Window) + Moving <= Window
                /\ done + pos + Moving <= len

\* Whenever data moves, the keyhole shows the window that is addressed: also after calls
\* that failed between two of its registers, and for either function.
KeyholeSet == Moving > 0 => reg[fn] = KeyholeFor(At)

\* A read that returns 0 delivers what the memory holds, whatever was repeated once, unless
\* a transfer failed or a repetition escaped (the comment leaves it to upper layers).
ReadDelivers ==
  ret = "ok" /\ op \in {"read", "read_le32"} /\ ~failed /\ ~garbled =>
    \A i \in 1..len : buf[i] = mem[start + i - 1]

\* "Result of operation (0 or an error code from @ref mmhal_sdio_error_codes)": a call that
\* returns 0 had no transfer fail.
OkMeansMoved == ret = "ok" => ~failed

\* Writes and updates do what SdioMemory promises.
Promise == INSTANCE SdioMemory WITH
  src <- IF updating /\ op = "read_le32"
         THEN [i \in 1..Word |-> Modified(mem[start + i - 1])] ELSE src
WritesAsPromised == Promise!ASpec

\* Every call returns: each iteration of the loops makes progress.
Returns == ret = "running" ~> ret # "running"
=============================================================================
