------------------------ MODULE SdioTransport_proofs ------------------------
(***************************************************************************)
(* Proofs about SdioTransport for any sizes of windows, words and blocks   *)
(* that SizesAssumption allows, any addresses and lengths, and any number  *)
(* of calls.                                                               *)
(*                                                                         *)
(* SdioInv is inductive.  Its parts follow a call from left to right:      *)
(* CallOK says what runs, RegistersOK which of the keyhole's registers are *)
(* set already, ChunkOK that the chunk lies in one window and in the       *)
(* caller's range, StoredOK how many bytes of a write have arrived, and    *)
(* ReadOK which bytes of a read are right: all, except that the second     *)
(* word of a chunk may repeat the first, and is then equal to it.          *)
(* ShownWhereMeant, the fact most steps rest on, says that a chunk's bytes *)
(* are seen through the keyhole at their own addresses.                    *)
(***************************************************************************)
EXTENDS SdioTransport, TLAPS

RegType == [{1, 2} -> [w0 : Nat, w1 : Nat, config : {"none", "4BYTE"}]]

Writing == op \in {"write", "write_le32"}
Running == pc # "idle"
\* The chunk of this iteration is known, and its window set.
InChunk == pc \in {"move", "moved", "reread", "chunk"}

TypeOK ==
  /\ mem \in [Address -> Nat]
  /\ reg \in [{1, 2} -> [w0 : Nat, w1 : Nat, config : {"none", "4BYTE"}]]
  /\ op \in {"read", "write", "read_le32", "write_le32"} /\ updating \in BOOLEAN
  /\ {start, len, done, size, pos, stored, calls} \subseteq Nat /\ start + len <= Top
  /\ start \in Address /\ src \in Seq(Nat)
  /\ pc \in {"idle", "window0", "window1", "config", "move", "moved", "reread", "chunk"}
  /\ ret \in {"running", "ok", "error", "invalid"}
  /\ failed \in BOOLEAN /\ garbled \in BOOLEAN

\* What runs, and with what.
CallOK ==
  /\ Running <=> ret = "running"
  /\ Running => IF Writing THEN Len(src) = len ELSE src = <<>>
  /\ Running => IF Multi THEN done < len /\ ~updating ELSE done = 0 /\ len = Word /\ Aligned(start)
  /\ Running /\ ~Multi => ~failed /\ ~garbled
  /\ pc \in {"reread", "chunk"} => op = "read"

\* The registers written so far.
RegistersOK ==
  LET key == KeyholeFor(start + done)
  IN  /\ pc \in {"window1", "config"} \/ InChunk => reg[fn].w0 = key.w0
      /\ pc = "config" \/ InChunk => reg[fn].w1 = key.w1
      /\ InChunk => reg[fn].config = key.config

\* The chunk lies in one window and in the caller's range.
ChunkOK ==
  InChunk =>
    /\ size > 0 /\ done + size <= len
    /\ start + done + size <= (WindowOf(start + done) + 1) * Window
    /\ pos <= size /\ (pc = "move" => pos < size) /\ (~Multi => size = Word)
    /\ pc = "reread" => pos = 0 /\ 2 * Word <= size
    /\ pc = "moved" => pos = size \/ (op = "read" /\ failed)

StoredOK ==
  Running => stored = IF ~Writing THEN 0 ELSE IF InChunk THEN done + pos ELSE done

\* Byte i of the caller's buffer is what the memory holds.
Right(i) == buf[i] = mem[start + i - 1]
Second(i) == size >= 2 * Word /\ i \in (done + Word + 1)..(done + 2 * Word)

\* What was read so far is right, but for a second word that may repeat the first.
ReadOK ==
  Running /\ ~Writing /\ ~failed /\ ~garbled =>
    /\ \A i \in 1..done : Right(i)
    /\ pc = "chunk" => \A i \in 1..(done + size) : Right(i)
    /\ pc \in {"move", "moved", "reread"} =>
         LET n == IF pc = "reread" THEN size ELSE pos IN
         /\ \A i \in 1..(done + n) : Right(i) \/ (op = "read" /\ Second(i))
         /\ pc # "reread" =>
              \/ \A i \in 1..(done + n) : Right(i)
              \/ op = "read" /\ n >= 2 * Word /\ Repeated

SdioInv == TypeOK /\ CallOK /\ RegistersOK /\ ChunkOK /\ StoredOK /\ ReadOK

-----------------------------------------------------------------------------
(* Arithmetic *)

\* Quotient and remainder.
LEMMA DivMod ==
  ASSUME NEW a \in Nat, NEW d \in Nat \ {0}
  PROVE  /\ a \div d \in Nat /\ a % d \in 0..(d - 1)
         /\ a = (a \div d) * d + (a % d)
<1>1. a % d \in 0..(d - 1) /\ a \div d \in Int
  OBVIOUS
<1>2. a = (a \div d) * d + (a % d)
  OBVIOUS
<1>3. a \div d >= 0
  OBVIOUS
<1>4. QED
  BY <1>1, <1>2, <1>3

\* Multiples of d are d apart.
LEMMA Multiples ==
  ASSUME NEW d \in Nat \ {0}, NEW x \in Nat, NEW y \in Nat, x * d < y * d
  PROVE  x + 1 <= y /\ x * d + d <= y * d
  OBVIOUS

\* The quotient is the one that fits.
LEMMA DivUnique ==
  ASSUME NEW a \in Nat, NEW d \in Nat \ {0}, NEW q \in Nat, q * d <= a, a < (q + 1) * d
  PROVE  a \div d = q /\ a % d = a - q * d
<1> DEFINE p == a \div d
<1>1. p \in Nat /\ a = p * d + (a % d) /\ a % d \in 0..(d - 1)
  BY DivMod
<1> HIDE DEF p
<1>2. p * d < (q + 1) * d /\ q * d < (p + 1) * d
  BY <1>1
<1>3. p = q
  <2>1. p + 1 <= q + 1 /\ q + 1 <= p + 1
    BY <1>1, <1>2, Multiples
  <2>2. QED
    BY <1>1, <2>1
<1>4. QED
  BY <1>1, <1>3 DEF p

\* The constants, as the proofs use them.
LEMMA Sizes ==
  /\ Window \in Nat \ {0} /\ Radix \in Nat \ {0} /\ Word \in Nat \ {0}
  /\ Block1 \in Nat \ {0} /\ Block2 \in Nat \ {0} /\ Top \in Nat /\ Mask \in Nat
  /\ Window % Word = 0 /\ Word < Block1 /\ 2 * Word < Block2
  /\ Starts \subseteq Address /\ Lengths \subseteq Nat
  /\ \A a \in Address : a \in Nat
  BY SizesAssumption, CallsAssumption DEF Top, Address

\* The end of a's window.
LEMMA Boundary ==
  ASSUME NEW a \in Nat
  PROVE  /\ WindowOf(a) \in Nat /\ WindowOf(a) * Window \in Nat /\ (WindowOf(a) + 1) * Window \in Nat
         /\ WindowOf(a) * Window <= a /\ a < (WindowOf(a) + 1) * Window
         /\ a % Window = a - WindowOf(a) * Window
         /\ (WindowOf(a) + 1) * Window = WindowOf(a) * Window + Window
<1>1. a \div Window \in Nat /\ a % Window \in 0..(Window - 1)
      /\ a = (a \div Window) * Window + (a % Window)
  BY DivMod, Sizes
<1>2. QED
  BY <1>1, Sizes DEF WindowOf

\* An address in a's window.
LEMMA SameWindow ==
  ASSUME NEW a \in Nat, NEW i \in Nat, a + i < (WindowOf(a) + 1) * Window
  PROVE  WindowOf(a + i) = WindowOf(a) /\ (a + i) % Window = (a + i) - WindowOf(a) * Window
<1> DEFINE q == WindowOf(a)
           b == a + i
<1>1. q \in Nat /\ q * Window \in Nat /\ q * Window <= a /\ b < (q + 1) * Window
  BY Boundary
<1>2. WindowOf(b) = b \div Window
  BY DEF WindowOf
<1>3. b \in Nat /\ a <= b
  OBVIOUS
<1> HIDE DEF q, b
<1>4. q * Window <= b
  BY <1>1, <1>3
<1>5. b \div Window = q /\ b % Window = b - q * Window
  BY <1>1, <1>3, <1>4, DivUnique, Sizes
<1>6. WindowOf(b) = q
  BY <1>2, <1>5
<1>7. QED
  BY <1>5, <1>6 DEF q, b

\* The keyhole's registers name a window.
LEMMA Keyhole ==
  ASSUME NEW a \in Nat
  PROVE  /\ KeyholeFor(a).w0 \in Nat /\ KeyholeFor(a).w1 \in Nat
         /\ KeyholeFor(a).w1 * Radix + KeyholeFor(a).w0 = WindowOf(a)
         /\ KeyholeFor(a) \in [w0 : Nat, w1 : Nat, config : {"none", "4BYTE"}]
<1> DEFINE q == WindowOf(a)
<1>1. q \in Nat
  BY Boundary
<1> HIDE DEF q
<1>2. /\ q \div Radix \in Nat /\ q % Radix \in Nat
      /\ q = (q \div Radix) * Radix + (q % Radix)
  BY <1>1, DivMod, Sizes
<1>3. KeyholeFor(a) = [w0 |-> q % Radix, w1 |-> q \div Radix, config |-> "4BYTE"]
  BY DEF KeyholeFor, q
<1>4. QED
  BY <1>2, <1>3 DEF q

\* A chunk is not empty, ends with its window, and is part of what is left.
LEMMA ChunkFits ==
  ASSUME NEW a \in Nat, NEW left \in Nat \ {0}
  PROVE  /\ ChunkSize(a, left) \in 1..left
         /\ a + ChunkSize(a, left) <= (WindowOf(a) + 1) * Window
<1> DEFINE e == (WindowOf(a) + 1) * Window
<1>1. e \in Nat /\ a < e
  BY Boundary
<1> HIDE DEF e
<1>2. ChunkSize(a, left) = LET most == IF left < Window THEN left ELSE Window
                           IN  IF a + most > e THEN e - a ELSE most
  BY DEF ChunkSize, e
<1>3. /\ ChunkSize(a, left) \in 1..left
      /\ a + ChunkSize(a, left) <= e
  BY <1>1, <1>2, Sizes
<1>4. QED
  BY <1>3 DEF e

\* An aligned word does not leave its window.
LEMMA WordFits ==
  ASSUME NEW a \in Nat, Aligned(a)
  PROVE  a + Word <= (WindowOf(a) + 1) * Window
<1> DEFINE x == a \div Word
           v == Window \div Word
           k == WindowOf(a) + 1
<1>1. x \in Nat /\ a = x * Word
  BY DivMod, Sizes DEF Aligned
<1>2. v \in Nat /\ Window = v * Word
  <2>1. v \in Nat /\ Window = v * Word + (Window % Word)
    BY DivMod, Sizes
  <2>2. v * Word \in Nat
    BY <2>1, Sizes
  <2>3. QED
    BY <2>1, <2>2, Sizes
<1>3. k \in Nat /\ a < k * Window
  BY Boundary
<1> HIDE DEF x, v, k
<1>4. k * Window = (k * v) * Word /\ k * v \in Nat
  BY <1>2, <1>3, Sizes
<1>5. x * Word < (k * v) * Word
  BY <1>1, <1>3, <1>4
<1>6. x * Word + Word <= (k * v) * Word
  BY <1>1, <1>4, <1>5, Multiples, Sizes
<1>7. QED
  BY <1>1, <1>4, <1>6 DEF k

\* A transfer moves something, and not more than what is left of the chunk.
LEMMA PartFits ==
  ASSUME size \in Nat, pos \in Nat, pos < size
  PROVE  Part \in 1..(size - pos)
<1> DEFINE left == size - pos
           blocks == left \div BlockSize
<1>1. BlockSize \in Nat \ {0} /\ left \in Nat \ {0}
  BY Sizes DEF BlockSize
<1> HIDE DEF left
<1>2. blocks \in Nat /\ blocks * BlockSize <= left
  BY <1>1, DivMod
<1> HIDE DEF blocks
<1>3. CASE blocks > 0
  <2>1. blocks * BlockSize \in Nat /\ blocks * BlockSize >= 1
    BY <1>1, <1>2, <1>3
  <2>2. Part = blocks * BlockSize
    BY <1>3 DEF Part, blocks, left
  <2>3. QED
    BY <1>1, <1>2, <2>1, <2>2 DEF left
<1>4. CASE ~(blocks > 0)
  <2>1. Part = left
    BY <1>4 DEF Part, blocks, left
  <2>2. QED
    BY <1>1, <2>1 DEF left
<1>5. QED
  BY <1>3, <1>4

\* Less than a block goes in one transfer.
LEMMA SmallPart ==
  ASSUME size \in Nat, pos \in Nat, pos < size, size < BlockSize
  PROVE  Part = size - pos
<1> DEFINE left == size - pos
<1>1. BlockSize \in Nat \ {0} /\ left \in Nat /\ left < BlockSize
  BY Sizes DEF BlockSize
<1> HIDE DEF left
<1>2. left \div BlockSize = 0
  BY <1>1, DivUnique
<1>3. QED
  BY <1>2 DEF Part, left

-----------------------------------------------------------------------------
(* What a transfer touches *)

\* The numbers of the call, one by one.
LEMMA Typed ==
  ASSUME TypeOK
  PROVE  /\ start \in Nat /\ len \in Nat /\ done \in Nat /\ size \in Nat /\ pos \in Nat
         /\ stored \in Nat /\ calls \in Nat /\ start + done \in Nat /\ At \in Nat
         /\ At = (start + done) + pos
  BY DEF TypeOK, At

\* Within a chunk the keyhole shows the window of every byte that may still move, and shows
\* it at its own address.
LEMMA ShownWhereMeant ==
  ASSUME SdioInv, InChunk, NEW i \in Nat, pos + i < size
  PROVE  /\ reg[fn] = KeyholeFor(At) /\ Shown(At, i) = At + i
         /\ At + i \in Address /\ done + pos + i + 1 \in 1..len
         /\ (At % Window) + (size - pos) <= Window
<1> DEFINE a == start + done
<1>1. a \in Nat /\ pos \in Nat /\ size \in Nat /\ len \in Nat /\ done \in Nat /\ start \in Nat /\ At = a + pos
  BY Typed DEF SdioInv
<1>2. a + size <= (WindowOf(a) + 1) * Window /\ done + size <= len /\ start + len <= Top
  BY DEF SdioInv, ChunkOK, TypeOK
<1>3. /\ WindowOf(a) \in Nat /\ WindowOf(a) * Window \in Nat
      /\ (WindowOf(a) + 1) * Window = WindowOf(a) * Window + Window
      /\ WindowOf(a) * Window <= a
  BY <1>1, Boundary
<1> HIDE DEF a
<1>4. a + pos < (WindowOf(a) + 1) * Window
  BY <1>1, <1>2, <1>3, Sizes
<1>5. WindowOf(At) = WindowOf(a) /\ At % Window = At - WindowOf(a) * Window
  BY <1>1, <1>4, SameWindow
<1>6. pos + i \in Nat /\ a + (pos + i) < (WindowOf(a) + 1) * Window
  BY <1>1, <1>2, <1>3, Sizes
<1>7. (At + i) % Window = (At + i) - WindowOf(a) * Window
  <2>1. (a + (pos + i)) % Window = (a + (pos + i)) - WindowOf(a) * Window
    BY <1>1, <1>6, SameWindow
  <2>2. a + (pos + i) = At + i
    BY <1>1
  <2>3. QED
    BY <2>1, <2>2
<1>8. reg[fn] = KeyholeFor(At)
  <2>1. KeyholeFor(At) = KeyholeFor(a)
    BY <1>5 DEF KeyholeFor
  <2>2. reg[fn].w0 = KeyholeFor(a).w0 /\ reg[fn].w1 = KeyholeFor(a).w1
        /\ reg[fn].config = KeyholeFor(a).config
    BY DEF SdioInv, RegistersOK, a
  <2>3. reg[fn] \in [w0 : Nat, w1 : Nat, config : {"none", "4BYTE"}]
    BY DEF SdioInv, TypeOK, fn
  <2>4. KeyholeFor(a) \in [w0 : Nat, w1 : Nat, config : {"none", "4BYTE"}]
    BY <1>1, Keyhole
  <2>5. QED
    BY <2>1, <2>2, <2>3, <2>4
<1>9. Base = WindowOf(a) * Window
  <2>1. KeyholeFor(At).w1 * Radix + KeyholeFor(At).w0 = WindowOf(At)
    BY <1>1, Keyhole
  <2>2. QED
    BY <1>5, <1>8, <2>1 DEF Base
<1>10. Shown(At, i) = At + i
  BY <1>1, <1>3, <1>7, <1>9 DEF Shown
<1>11. At + i \in Address
  BY <1>1, <1>2, Sizes DEF Address, a
<1>12. (At % Window) + (size - pos) <= Window
  <2> DEFINE k == WindowOf(a) * Window
  <2>1. k \in Nat /\ k <= a /\ a + size <= k + Window /\ At % Window = At - k
    BY <1>2, <1>3, <1>5
  <2> HIDE DEF k
  <2>2. QED
    BY <1>1, <2>1, Sizes
<1>13. QED
  BY <1>1, <1>2, <1>8, <1>10, <1>11, <1>12

\* Before a chunk's registers are set there is a byte to move, in the address space.
LEMMA ChunkStart ==
  ASSUME SdioInv, Running
  PROVE  /\ start + done \in Nat /\ len - done \in Nat
         /\ ~InChunk => len - done > 0
  BY Typed, Sizes DEF SdioInv, CallOK, InChunk, Running

-----------------------------------------------------------------------------
(* The invariant *)

\* No call has been made.
LEMMA SdioInvInit == Init => SdioInv
<1> SUFFICES ASSUME Init PROVE SdioInv
  OBVIOUS
<1>1. TypeOK
  <2>1. 0 \in Address /\ 0 + 0 <= Top
    <3>1. Top \in Nat \ {0}
      BY SizesAssumption DEF Top
    <3>2. QED
      BY <3>1 DEF Address
  <2>2. mem \in [Address -> Nat]
    BY Sizes DEF Init
  <2>3. <<>> \in Seq(Nat)
    OBVIOUS
  <2>4. QED
    BY <2>1, <2>2, <2>3 DEF Init, TypeOK
<1>2. CallOK /\ RegistersOK /\ ChunkOK /\ StoredOK /\ ReadOK
  BY DEF Init, CallOK, RegistersOK, ChunkOK, StoredOK, ReadOK, InChunk, Running
<1>3. QED
  BY <1>1, <1>2 DEF SdioInv

\* A call that begins has moved nothing.
LEMMA BeginKeeps ==
  ASSUME SdioInv, NEW o \in {"read", "write", "read_le32", "write_le32"}, NEW a \in Starts,
         NEW n \in Nat, NEW bytes \in Seq(Nat), Begin(o, a, n, bytes), updating' \in BOOLEAN,
         \/ /\ Runs /\ IF o \in {"write", "write_le32"} THEN Len(bytes) = n ELSE bytes = <<>>
            /\ IF o \in {"read", "write"} THEN n > 0 /\ ~updating' ELSE n = Word /\ Aligned(a)
         \/ pc' = pc /\ ret' = "invalid"
  PROVE  SdioInv'
<1>1. TypeOK'
  <2>1. /\ start' = a /\ len' = n /\ done' = 0 /\ stored' = 0 /\ calls' = calls + 1
        /\ op' = o /\ src' = bytes /\ failed' = FALSE /\ garbled' = FALSE
        /\ mem' = mem /\ reg' = reg /\ size' = size /\ pos' = pos /\ a + n <= Top
    BY DEF Begin, device
  <2>2. a \in Address /\ a \in Nat
    BY Sizes
  <2>3. calls + 1 \in Nat /\ size \in Nat /\ pos \in Nat
    BY Typed DEF SdioInv
  <2>4. pc' \in {"idle", "window0"} /\ ret' \in {"running", "invalid"}
    BY DEF Begin, Runs
  <2>5. /\ mem \in [Address -> Nat]
        /\ reg \in [{1, 2} -> [w0 : Nat, w1 : Nat, config : {"none", "4BYTE"}]]
    BY DEF SdioInv, TypeOK
  <2>6. {start', len', done', size', pos', stored', calls'} \subseteq Nat
    BY <2>1, <2>2, <2>3
  <2>7. QED
    BY <2>1, <2>2, <2>4, <2>5, <2>6 DEF TypeOK
<1>2. CallOK'
  BY Sizes DEF SdioInv, CallOK, Begin, Runs, Running, Writing, Multi, Aligned
<1>3. pc' \in {"idle", "window0"}
  BY DEF Begin, Runs
<1>4. RegistersOK' /\ ChunkOK'
  BY <1>3 DEF RegistersOK, ChunkOK, InChunk
<1>5. StoredOK' /\ ReadOK'
  BY <1>3 DEF Begin, StoredOK, ReadOK, InChunk
<1>6. QED
  BY <1>1, <1>2, <1>4, <1>5 DEF SdioInv

\* A word's or a buffer's worth of bytes to write.
LEMMA SourceTyped ==
  ASSUME SdioInv, NEW n \in Nat
  PROVE  SourceBytes(n) \in Seq(Nat) /\ Len(SourceBytes(n)) = n
<1>1. calls \in Nat
  BY Typed DEF SdioInv
<1>2. \A i \in 1..n : SourceByte(calls + 1, i) \in Nat
  BY <1>1 DEF SourceByte
<1>3. QED
  BY <1>2 DEF SourceBytes

\* Every call keeps the invariant.
LEMMA CallKeeps == SdioInv /\ Call => SdioInv'
<1> SUFFICES ASSUME SdioInv, Call PROVE SdioInv'
  OBVIOUS
<1>1. <<>> \in Seq(Nat)
  OBVIOUS
<1>2. ASSUME NEW a \in Starts, NEW n \in Lengths, NEW o \in {"read", "write"}, MultiByte(o, a, n)
      PROVE  SdioInv'
  <2>1. n \in Nat /\ n > 0
    BY <1>2, Sizes DEF MultiByte, BadLength
  <2>2. QED
    BY <1>1, <1>2, <2>1, BeginKeeps, SourceTyped DEF MultiByte
<1>3. ASSUME NEW a \in Starts, NEW n \in Lengths, NEW o \in {"read", "write"}, Invalid(o, a, n)
      PROVE  SdioInv'
  BY <1>1, <1>3, BeginKeeps, Sizes DEF Invalid, Refused
<1>4. ASSUME NEW a \in Starts, ReadLe32(a) \/ UpdateLe32(a) PROVE SdioInv'
  BY <1>1, <1>4, BeginKeeps, Sizes DEF ReadLe32, UpdateLe32, Refused
<1>5. ASSUME NEW a \in Starts, WriteLe32(a) PROVE SdioInv'
  BY <1>5, BeginKeeps, SourceTyped, Sizes DEF WriteLe32
<1>6. QED
  BY <1>2, <1>3, <1>4, <1>5 DEF Call

\* A call that returns with an error keeps it, whatever of the memory it reached.
LEMMA ErrorKeeps ==
  ASSUME SdioInv, Return("error"), TypeOK', UNCHANGED <<src, len>>
  PROVE  SdioInv'
<1>1. pc' = "idle" /\ ret' = "error"
  BY DEF Return
<1>2. CallOK' /\ RegistersOK' /\ ChunkOK' /\ StoredOK' /\ ReadOK'
  BY <1>1 DEF CallOK, RegistersOK, ChunkOK, StoredOK, ReadOK, InChunk, Running
<1>3. QED
  BY <1>2 DEF SdioInv

\* What each CMD52 writes.
LEMMA WrittenIs ==
  /\ Written("window0") = [reg EXCEPT ![fn].w0 = KeyholeFor(start + done).w0]
  /\ Written("window1") = [reg EXCEPT ![fn].w1 = KeyholeFor(start + done).w1]
  /\ Written("config") = [reg EXCEPT ![fn].config = "4BYTE"]
<1>1. "window0" # "window1" /\ "window0" # "config" /\ "window1" # "config"
  OBVIOUS
<1>2. QED
  BY <1>1, Zenon DEF Written

\* Registers stay registers.
LEMMA WrittenTyped ==
  ASSUME SdioInv, pc \in {"window0", "window1", "config"}
  PROVE  Written(pc) \in RegType
<1> DEFINE key == KeyholeFor(start + done)
<1>1. key.w0 \in Nat /\ key.w1 \in Nat
  BY Typed, Keyhole DEF SdioInv
<1>2. reg \in RegType /\ fn \in {1, 2}
  BY DEF SdioInv, TypeOK, RegType, fn
<1> HIDE DEF key
<1>3. /\ [reg EXCEPT ![fn].w0 = key.w0] \in RegType
      /\ [reg EXCEPT ![fn].w1 = key.w1] \in RegType
      /\ [reg EXCEPT ![fn].config = "4BYTE"] \in RegType
  BY <1>1, <1>2 DEF RegType
<1>4. QED
  BY <1>3, WrittenIs DEF key

\* A register write keeps the invariant; the last one begins the chunk.
LEMMA Cmd52Keeps == SdioInv /\ Cmd52 => SdioInv'
<1> SUFFICES ASSUME SdioInv, Cmd52 PROVE SdioInv'
  OBVIOUS
<1> DEFINE a == start + done
           left == len - done
<1>1. /\ mem' = mem /\ op' = op /\ updating' = updating /\ start' = start /\ len' = len
      /\ src' = src /\ buf' = buf /\ done' = done /\ ret' = ret /\ stored' = stored
      /\ failed' = failed /\ garbled' = garbled /\ calls' = calls
      /\ pc \in {"window0", "window1", "config"} /\ reg' = Written(pc)
  BY DEF Cmd52, args
<1>2. /\ pc = "window0" => pc' = "window1"
      /\ pc = "window1" => pc' = "config"
      /\ pc = "config" => pc' = "move"
  <2>1. pc' = CASE pc = "window0" -> "window1" [] pc = "window1" -> "config" [] OTHER -> "move"
    BY DEF Cmd52
  <2>2. CASE pc = "window0"
    BY <2>1, <2>2, Zenon
  <2>3. CASE pc = "window1"
    <3>1. pc # "window0"
      BY <2>3
    <3>2. QED
      BY <2>1, <2>3, <3>1, Zenon
  <2>4. CASE pc = "config"
    <3>1. pc # "window0" /\ pc # "window1"
      BY <2>4
    <3>2. QED
      BY <2>1, <2>4, <3>1, Zenon
  <2>5. QED
    BY <1>1, <2>2, <2>3, <2>4
<1>3. a \in Nat /\ left \in Nat \ {0} /\ len \in Nat /\ done \in Nat /\ start \in Nat
  BY <1>1, Typed, ChunkStart DEF SdioInv, InChunk, Running
<1>4. /\ pc = "config" => pos' = 0 /\ size' = IF Multi THEN ChunkSize(a, left) ELSE len
      /\ pc # "config" => pos' = pos /\ size' = size
  BY DEF Cmd52
<1>5. /\ ChunkSize(a, left) \in 1..left
      /\ a + ChunkSize(a, left) <= (WindowOf(a) + 1) * Window
  BY <1>3, ChunkFits
<1>6. size' \in Nat /\ pos' \in Nat
  BY <1>3, <1>4, <1>5, Typed DEF SdioInv
<1>7. TypeOK'
  <2>1. reg' \in RegType
    BY <1>1, WrittenTyped
  <2>2. pc' \in {"window1", "config", "move"}
    BY <1>1, <1>2
  <2>3. QED
    BY <1>1, <1>6, <2>1, <2>2 DEF SdioInv, TypeOK, RegType
<1>8. CallOK'
  BY <1>1, <1>2 DEF SdioInv, CallOK, Running, Writing, Multi
<1>9. RegistersOK'
  <2> DEFINE key == KeyholeFor(a)
  <2>1. key' = key /\ fn' = fn /\ key.config = "4BYTE" /\ fn \in {1, 2}
    BY <1>1 DEF KeyholeFor, WindowOf, fn
  <2>2. reg \in RegType
    BY DEF SdioInv, TypeOK, RegType
  <2>3. /\ pc \in {"window1", "config"} => reg[fn].w0 = key.w0
        /\ pc = "config" => reg[fn].w1 = key.w1
    BY DEF SdioInv, RegistersOK
  <2>4. KeyholeFor(start' + done') = KeyholeFor(start + done)
    BY <1>1
  <2> HIDE DEF key
  <2>5. CASE pc = "window0"
    <3>1. reg' = [reg EXCEPT ![fn].w0 = key.w0]
      BY <1>1, <2>5, WrittenIs DEF key
    <3>2. reg'[fn].w0 = key.w0
      BY <2>1, <2>2, <3>1 DEF RegType
    <3>3. QED
      BY <1>2, <2>1, <2>5, <3>2 DEF RegistersOK, InChunk, key
  <2>6. CASE pc = "window1"
    <3>1. reg' = [reg EXCEPT ![fn].w1 = key.w1]
      BY <1>1, <2>6, WrittenIs DEF key
    <3>2. reg'[fn].w0 = key.w0 /\ reg'[fn].w1 = key.w1
      BY <2>1, <2>2, <2>3, <2>6, <3>1 DEF RegType
    <3>3. QED
      BY <1>2, <2>1, <2>6, <3>2 DEF RegistersOK, InChunk, key
  <2>7. CASE pc = "config"
    <3>1. reg' = [reg EXCEPT ![fn].config = "4BYTE"]
      BY <1>1, <2>7, WrittenIs
    <3>2. reg'[fn].w0 = key.w0 /\ reg'[fn].w1 = key.w1 /\ reg'[fn].config = key.config
      BY <2>1, <2>2, <2>3, <2>7, <3>1 DEF RegType
    <3>3. QED
      BY <1>2, <2>1, <2>7, <3>2 DEF RegistersOK, InChunk, key
  <2>8. QED
    BY <1>1, <2>5, <2>6, <2>7
<1>10. ChunkOK'
  <2>1. CASE pc = "config"
    <3>1. pc' = "move" /\ pos' = 0 /\ WindowOf(start' + done') = WindowOf(a)
      BY <1>1, <1>2, <1>4, <2>1
    <3>2. CASE Multi
      <4>1. size' = ChunkSize(a, left) /\ Multi'
        BY <1>1, <1>4, <2>1, <3>2 DEF Multi
      <4>2. size' > 0 /\ done' + size' <= len' /\ start' + done' + size' <= (WindowOf(a) + 1) * Window
        BY <1>1, <1>3, <1>5, <4>1
      <4>3. QED
        BY <1>1, <1>6, <3>1, <4>1, <4>2 DEF ChunkOK
    <3>3. CASE ~Multi
      <4>1. size' = len /\ ~Multi' /\ done = 0 /\ len = Word /\ Aligned(start)
        BY <1>1, <1>4, <2>1, <3>3 DEF SdioInv, CallOK, Running, Multi
      <4>2. a = start
        BY <1>3, <4>1
      <4>3. size' > 0 /\ done' + size' <= len' /\ start' + done' + size' <= (WindowOf(a) + 1) * Window
        BY <1>1, <1>3, <4>1, <4>2, WordFits, Sizes
      <4>4. QED
        BY <1>1, <1>6, <3>1, <4>1, <4>3 DEF ChunkOK
    <3>4. QED
      BY <3>2, <3>3
  <2>2. CASE pc # "config"
    BY <1>1, <1>2, <2>2 DEF ChunkOK, InChunk
  <2>3. QED
    BY <2>1, <2>2
<1>11. StoredOK'
  BY <1>1, <1>2, <1>3, <1>4 DEF SdioInv, StoredOK, Running, Writing, InChunk
<1>12. ReadOK'
  <2>1. Running /\ ~Writing /\ ~failed /\ ~garbled => \A i \in 1..done : Right(i)
    BY DEF SdioInv, ReadOK
  <2>2. Running /\ Writing' = Writing /\ \A i : Right(i)' = Right(i)
    BY <1>1 DEF Running, Writing, Right
  <2>3. pc' \in {"window1", "config"} \/ (pc' = "move" /\ pos' = 0 /\ done + 0 = done)
    BY <1>1, <1>2, <1>3, <1>4
  <2>4. QED
    BY <1>1, <2>1, <2>2, <2>3 DEF ReadOK
<1>13. QED
  BY <1>7, <1>8, <1>9, <1>10, <1>11, <1>12 DEF SdioInv

\* A failed one ends the call.
LEMMA Cmd52FailsKeeps == SdioInv /\ Cmd52Fails => SdioInv'
<1> SUFFICES ASSUME SdioInv, Cmd52Fails PROVE SdioInv'
  OBVIOUS
<1>1. reg' \in RegType
  BY WrittenTyped DEF Cmd52Fails, SdioInv, TypeOK, RegType
<1>2. TypeOK'
  BY <1>1 DEF Cmd52Fails, SdioInv, TypeOK, RegType, Return, args
<1>3. QED
  BY <1>2, ErrorKeeps DEF Cmd52Fails, args

\* The registers stay right while the chunk is on its way.
LEMMA RegistersStay ==
  ASSUME SdioInv, InChunk, InChunk' \/ pc' \in {"idle", "window0"},
         UNCHANGED <<reg, start, done>>, InChunk' => op' = op
  PROVE  RegistersOK'
<1>1. CASE InChunk'
  <2>1. fn' = fn /\ KeyholeFor(start + done)' = KeyholeFor(start + done)
    BY <1>1 DEF fn, KeyholeFor, WindowOf
  <2>2. QED
    BY <1>1, <2>1 DEF SdioInv, RegistersOK
<1>2. CASE pc' \in {"idle", "window0"}
  BY <1>2 DEF RegistersOK, InChunk
<1>3. QED
  BY <1>1, <1>2

\* The bytes of a transfer arrive in order, each at its address, and no other changes.
LEMMA StoreIs ==
  ASSUME SdioInv, pc = "move", Writing, NEW k \in 0..Part, Store(k)
  PROVE  /\ mem' = [a \in Address |-> IF a - start \in stored..(stored' - 1)
                                      THEN src[a - start + 1] ELSE mem[a]]
         /\ stored' = stored + k /\ stored = done + pos /\ stored' <= done + size
         /\ mem' \in [Address -> Nat]
<1>1. /\ start \in Nat /\ len \in Nat /\ done \in Nat /\ size \in Nat /\ pos \in Nat
      /\ stored \in Nat /\ At \in Nat /\ At = (start + done) + pos
  BY Typed DEF SdioInv
<1>2. stored' = stored + k /\ stored = done + pos
  BY DEF SdioInv, StoredOK, Store, Running, InChunk
<1>3. pos < size /\ done + size <= len
  BY DEF SdioInv, ChunkOK, InChunk
<1>4. k \in Nat /\ k <= size - pos
  BY <1>1, <1>3, PartFits
<1>5. \A i \in 0..(k - 1) : Shown(Target, i) = At + i /\ done + pos + i + 1 \in 1..len
  BY <1>1, <1>3, <1>4, ShownWhereMeant DEF InChunk, Target
<1>6. src \in Seq(Nat) /\ Len(src) = len /\ mem \in [Address -> Nat]
  BY DEF SdioInv, TypeOK, CallOK, Running
<1>7. ASSUME NEW a \in Address
      PROVE  /\ mem'[a] = IF a - start \in stored..(stored' - 1) THEN src[a - start + 1] ELSE mem[a]
             /\ mem'[a] \in Nat
  <2> DEFINE P(i) == Shown(Target, i) = a
  <2>1. a \in Nat
    BY Sizes
  <2>2. mem'[a] = IF \E i \in 0..(k - 1) : P(i)
                  THEN src[done + pos + (CHOOSE i \in 0..(k - 1) : P(i)) + 1] ELSE mem[a]
    BY DEF Store
  <2>3. \A i \in 0..(k - 1) : P(i) <=> i = a - At
    BY <1>1, <1>4, <1>5, <2>1
  <2> HIDE DEF P
  <2>4. CASE a - At \in 0..(k - 1)
    <3>1. \E i \in 0..(k - 1) : P(i)
      BY <2>3, <2>4
    <3>2. (CHOOSE i \in 0..(k - 1) : P(i)) = a - At
      BY <2>3, <3>1
    <3>3. done + pos + (a - At) + 1 = a - start + 1 /\ a - start \in stored..(stored' - 1)
      BY <1>1, <1>2, <1>4, <2>1, <2>4
    <3>4. mem'[a] = src[done + pos + (a - At) + 1]
      BY <2>2, <3>1, <3>2
    <3>5. a - start + 1 \in 1..Len(src)
      BY <1>5, <1>6, <2>4, <3>3
    <3>6. QED
      BY <1>6, <3>3, <3>4, <3>5
  <2>5. CASE a - At \notin 0..(k - 1)
    <3>1. ~\E i \in 0..(k - 1) : P(i)
      BY <2>3, <2>5
    <3>2. a - start \notin stored..(stored' - 1)
      BY <1>1, <1>2, <1>4, <2>1, <2>5
    <3>3. QED
      BY <1>6, <2>2, <3>1, <3>2
  <2>6. QED
    BY <2>4, <2>5
<1>8. mem' = [a \in Address |-> mem'[a]]
  BY DEF Store
<1>9. QED
  BY <1>1, <1>2, <1>3, <1>4, <1>7, <1>8

\* A transfer that succeeds keeps the invariant.
LEMMA Cmd53WriteKeeps == SdioInv /\ Cmd53Write => SdioInv'
<1> SUFFICES ASSUME SdioInv, Cmd53Write PROVE SdioInv'
  OBVIOUS
<1>1. /\ reg' = reg /\ op' = op /\ updating' = updating /\ start' = start /\ len' = len
      /\ src' = src /\ buf' = buf /\ done' = done /\ size' = size /\ ret' = ret
      /\ failed' = failed /\ garbled' = garbled /\ calls' = calls
      /\ pc = "move" /\ Writing /\ Store(Part) /\ pos' = pos + Part
      /\ pc' = IF pos + Part < size THEN "move" ELSE "moved"
  BY DEF Cmd53Write, args, Moved, Writing
<1>2. size \in Nat /\ pos \in Nat /\ done \in Nat /\ stored \in Nat
  BY Typed DEF SdioInv
<1>3. pos < size
  BY <1>1 DEF SdioInv, ChunkOK, InChunk
<1>4. Part \in 1..(size - pos)
  BY <1>2, <1>3, PartFits
<1>5. pos' \in Nat /\ pos' <= size /\ (pc' = "move" => pos' < size) /\ (pc' = "moved" => pos' = size)
      /\ pc' \in {"move", "moved"} /\ Part \in 0..Part
  BY <1>1, <1>2, <1>4
<1>6. stored' = stored + Part /\ stored = done + pos /\ mem' \in [Address -> Nat]
  BY <1>1, <1>5, StoreIs
<1>7. TypeOK'
  BY <1>1, <1>2, <1>4, <1>5, <1>6 DEF SdioInv, TypeOK
<1>8. CallOK'
  BY <1>1, <1>5 DEF SdioInv, CallOK, Running, Writing, Multi
<1>9. RegistersOK'
  BY <1>1, <1>5, RegistersStay DEF InChunk
<1>10. ChunkOK'
  BY <1>1, <1>5 DEF SdioInv, ChunkOK, InChunk, WindowOf, Multi
<1>11. StoredOK'
  BY <1>1, <1>2, <1>4, <1>5, <1>6 DEF StoredOK, Running, Writing, InChunk
<1>12. ReadOK'
  BY <1>1 DEF ReadOK, Writing
<1>13. QED
  BY <1>7, <1>8, <1>9, <1>10, <1>11, <1>12 DEF SdioInv

\* One that fails ends the call.
LEMMA Cmd53WriteFailsKeeps == SdioInv /\ Cmd53WriteFails => SdioInv'
<1> SUFFICES ASSUME SdioInv, Cmd53WriteFails PROVE SdioInv'
  OBVIOUS
<1>1. PICK k \in 0..Part : Store(k)
  BY DEF Cmd53WriteFails
<1>2. stored' = stored + k /\ stored \in Nat /\ mem' \in [Address -> Nat]
  BY <1>1, StoreIs, Typed DEF Cmd53WriteFails, Writing, SdioInv
<1>3. k \in Nat
  <2>1. size \in Nat /\ pos \in Nat /\ pos < size
    BY Typed DEF Cmd53WriteFails, SdioInv, ChunkOK, InChunk
  <2>2. Part \in Nat
    BY <2>1, PartFits
  <2>3. QED
    BY <2>2
<1>4. TypeOK'
  BY <1>2, <1>3 DEF Cmd53WriteFails, SdioInv, TypeOK, Return, args
<1>5. QED
  BY <1>4, ErrorKeeps DEF Cmd53WriteFails, args

\* What the caller's buffer holds after a transfer.
LEMMA FetchIs ==
  ASSUME SdioInv, pc \in {"move", "reread"}, NEW k \in Nat, pos + k <= size,
         NEW repeat \in BOOLEAN, repeat => 2 * Word <= size - pos, Fetch(k, repeat)
  PROVE  /\ \A i \in 1..len : i - (done + pos) \notin 1..k => buf'[i] = buf[i]
         /\ \A i \in 1..len : i - (done + pos) \in 1..k =>
              IF repeat /\ i - (done + pos) \in (Word + 1)..(2 * Word)
              THEN buf'[i] = mem[start + i - 1 - Word] ELSE buf'[i] = mem[start + i - 1]
<1>1. /\ start \in Nat /\ len \in Nat /\ done \in Nat /\ size \in Nat /\ pos \in Nat
      /\ At \in Nat /\ At = (start + done) + pos
  BY Typed DEF SdioInv
<1> DEFINE byte(j) == IF repeat /\ j \in Word..(2 * Word - 1) THEN j - Word ELSE j
<1>2. buf' = [i \in 1..len |-> IF i - done - pos \in 1..k
                               THEN mem[Shown(At, byte(i - done - pos - 1))] ELSE buf[i]]
  BY DEF Fetch
<1>3. \A j \in Nat : j < k => Shown(At, j) = At + j
  <2> TAKE j \in Nat
  <2> HAVE j < k
  <2>1. pos + j < size
    BY <1>1
  <2>2. QED
    BY <2>1, ShownWhereMeant DEF InChunk
<1>4. Word \in Nat /\ Word > 0
  BY Sizes
<1>5. ASSUME NEW i \in 1..len, i - (done + pos) \in 1..k
      PROVE  IF repeat /\ i - (done + pos) \in (Word + 1)..(2 * Word)
             THEN buf'[i] = mem[start + i - 1 - Word] ELSE buf'[i] = mem[start + i - 1]
  <2> DEFINE j == i - done - pos - 1
  <2>1. j \in 0..(k - 1) /\ j = i - (done + pos) - 1 /\ i - done - pos \in 1..k
    BY <1>1, <1>5
  <2>2. buf'[i] = mem[Shown(At, byte(j))]
    BY <1>2, <2>1
  <2>3. CASE repeat /\ i - (done + pos) \in (Word + 1)..(2 * Word)
    <3>1. j \in Word..(2 * Word - 1)
      BY <1>1, <1>4, <2>1, <2>3
    <3>2. byte(j) = j - Word /\ j - Word \in Nat /\ j - Word < k
      BY <1>1, <1>4, <2>1, <2>3, <3>1
    <3>3. Shown(At, byte(j)) = At + (j - Word)
      BY <1>3, <3>2
    <3>4. At + (j - Word) = start + i - 1 - Word
      BY <1>1, <1>4, <2>1
    <3>5. QED
      BY <2>2, <2>3, <3>3, <3>4
  <2>4. CASE ~(repeat /\ i - (done + pos) \in (Word + 1)..(2 * Word))
    <3>1. ~(repeat /\ j \in Word..(2 * Word - 1))
      BY <1>1, <1>4, <2>1, <2>4
    <3>2. byte(j) = j /\ j \in Nat /\ j < k
      BY <2>1, <3>1
    <3>3. Shown(At, byte(j)) = At + j
      BY <1>3, <3>2
    <3>4. At + j = start + i - 1
      BY <1>1, <2>1
    <3>5. QED
      BY <2>2, <2>4, <3>3, <3>4
  <2>5. QED
    BY <2>3, <2>4
<1>6. ASSUME NEW i \in 1..len, i - (done + pos) \notin 1..k PROVE buf'[i] = buf[i]
  <2>1. i - done - pos \notin 1..k
    BY <1>1, <1>6
  <2>2. QED
    BY <1>2, <2>1
<1>7. QED
  BY <1>5, <1>6

\* A read adds right bytes, or a first word that comes twice and shows.
LEMMA Cmd53ReadKeeps == SdioInv /\ Cmd53Read => SdioInv'
<1> SUFFICES ASSUME SdioInv, Cmd53Read PROVE SdioInv'
  OBVIOUS
<1>1. /\ mem' = mem /\ reg' = reg /\ op' = op /\ updating' = updating /\ start' = start
      /\ len' = len /\ src' = src /\ done' = done /\ size' = size /\ ret' = ret
      /\ stored' = stored /\ failed' = failed /\ calls' = calls
      /\ pc = "move" /\ ~Writing /\ pos' = pos + Part
      /\ pc' = IF pos + Part < size THEN "move" ELSE "moved"
  BY DEF Cmd53Read, args, device, Moved, Writing
<1>2. PICK repeat \in BOOLEAN :
        (repeat => Part >= 2 * Word) /\ Fetch(Part, repeat) /\ garbled' = (garbled \/ (repeat /\ pos > 0))
  BY DEF Cmd53Read
<1>3. /\ size \in Nat /\ pos \in Nat /\ done \in Nat /\ len \in Nat /\ start \in Nat
      /\ Word \in Nat \ {0}
  BY Typed, Sizes DEF SdioInv
<1>4. pos < size /\ done + size <= len /\ (~Multi => size = Word)
  BY <1>1 DEF SdioInv, ChunkOK, InChunk
<1>5. Part \in 1..(size - pos)
  BY <1>3, <1>4, PartFits
<1>6. /\ pos' \in Nat /\ pos' <= size /\ (pc' = "move" => pos' < size)
      /\ (pc' = "moved" => pos' = size) /\ pc' \in {"move", "moved"}
  BY <1>1, <1>3, <1>5
<1>7. repeat \in BOOLEAN /\ (repeat => Part >= 2 * Word) /\ (~Multi => ~repeat)
  BY <1>2, <1>3, <1>4, <1>5
<1>8. garbled' \in BOOLEAN
  BY <1>2, <1>7 DEF SdioInv, TypeOK
<1>9. TypeOK'
  BY <1>1, <1>6, <1>8 DEF SdioInv, TypeOK
<1>10. CallOK'
  BY <1>1, <1>2, <1>6, <1>7 DEF SdioInv, CallOK, Running, Writing, Multi
<1>11. RegistersOK'
  BY <1>1, <1>6, RegistersStay DEF InChunk
<1>12. ChunkOK'
  BY <1>1, <1>6 DEF SdioInv, ChunkOK, InChunk, WindowOf, Multi
<1>13. StoredOK'
  BY <1>1 DEF SdioInv, StoredOK, Running, Writing
<1>14. ReadOK'
  <2> SUFFICES ASSUME ~failed, ~garbled' PROVE ReadOK'
    BY <1>1 DEF ReadOK
  <2>1. ~garbled /\ (repeat => pos = 0)
    <3>1. ~garbled /\ ~(repeat /\ pos > 0)
      BY <1>2, Zenon
    <3>2. QED
      BY <1>3, <3>1
  <2>2. /\ \A i \in 1..len : i - (done + pos) \notin 1..Part => buf'[i] = buf[i]
        /\ \A i \in 1..len : i - (done + pos) \in 1..Part =>
             IF repeat /\ i - (done + pos) \in (Word + 1)..(2 * Word)
             THEN buf'[i] = mem[start + i - 1 - Word] ELSE buf'[i] = mem[start + i - 1]
    BY <1>1, <1>2, <1>3, <1>5, <1>7, FetchIs
  <2>3. /\ \A i \in 1..(done + pos) : Right(i) \/ (op = "read" /\ Second(i))
        /\ \/ \A i \in 1..(done + pos) : Right(i)
           \/ op = "read" /\ pos >= 2 * Word /\ Repeated
        /\ \A i \in 1..done : Right(i)
    BY <1>1, <2>1 DEF SdioInv, ReadOK, Running
  <2>4. /\ \A i : Right(i)' <=> buf'[i] = mem[start + i - 1]
        /\ \A i : Second(i)' <=> Second(i)
    BY <1>1 DEF Right, Second
  <2>5. \A i \in 1..(done + pos) : buf'[i] = buf[i]
    <3> TAKE i \in 1..(done + pos)
    <3>1. i \in 1..len /\ i - (done + pos) \notin 1..Part
      BY <1>3, <1>4
    <3>2. QED
      BY <2>2, <3>1
  <2>6. \A i \in 1..(done + pos) : Right(i) => Right(i)'
    BY <2>4, <2>5 DEF Right
  <2>7. done + pos' <= len /\ pos' = pos + Part /\ done + pos <= len
    BY <1>1, <1>3, <1>4, <1>6
  <2>8. \A i \in 1..done : i \in 1..(done + pos)
    BY <1>3
  <2>9. ASSUME NEW i \in 1..(done + pos'), i \notin 1..(done + pos)
        PROVE  /\ i \in 1..len /\ i - (done + pos) \in 1..Part
               /\ ~Right(i)' => repeat /\ Second(i)
    <3>1. i \in 1..len /\ i - (done + pos) \in 1..Part
      BY <1>3, <1>5, <2>7, <2>9
    <3>2. ASSUME ~Right(i)' PROVE repeat /\ i - (done + pos) \in (Word + 1)..(2 * Word)
      BY <2>2, <2>4, <3>1, <3>2
    <3>3. ASSUME ~Right(i)' PROVE Second(i)
      <4>1. pos = 0 /\ Part >= 2 * Word /\ i - (done + pos) \in (Word + 1)..(2 * Word)
        BY <1>7, <2>1, <3>2, <3>3
      <4>2. size >= 2 * Word /\ i \in (done + Word + 1)..(done + 2 * Word)
        BY <1>3, <1>5, <4>1
      <4>3. QED
        BY <4>2 DEF Second
    <3>4. QED
      BY <3>1, <3>2, <3>3
  <2>10. \A i \in 1..(done + pos') : Right(i)' \/ (op' = "read" /\ Second(i)')
    BY <1>1, <1>7, <2>3, <2>4, <2>6, <2>9 DEF Multi, Writing
  <2>11. CASE repeat
    <3>1. pos = 0 /\ Part >= 2 * Word /\ size >= 2 * Word /\ pos' >= 2 * Word
      BY <1>3, <1>5, <1>7, <2>1, <2>7, <2>11
    <3>2. ASSUME NEW i \in 1..Word PROVE buf'[done + i] = buf'[done + Word + i]
      <4>1. /\ done + i \in 1..len /\ (done + i) - (done + pos) \in 1..Part
            /\ (done + i) - (done + pos) \notin (Word + 1)..(2 * Word)
        BY <1>3, <1>4, <1>5, <3>1
      <4>2. /\ done + Word + i \in 1..len /\ (done + Word + i) - (done + pos) \in 1..Part
            /\ (done + Word + i) - (done + pos) \in (Word + 1)..(2 * Word)
        BY <1>3, <1>4, <1>5, <3>1
      <4>3. buf'[done + i] = mem[start + (done + i) - 1]
        BY <2>2, <4>1
      <4>4. buf'[done + Word + i] = mem[start + (done + Word + i) - 1 - Word]
        BY <2>2, <2>11, <4>2
      <4>5. start + (done + i) - 1 = start + (done + Word + i) - 1 - Word
        BY <1>3
      <4>6. QED
        BY <4>3, <4>4, <4>5
    <3>3. Repeated'
      BY <1>1, <3>1, <3>2 DEF Repeated
    <3>4. op' = "read"
      BY <1>1, <1>7, <2>11 DEF Multi, Writing
    <3>5. QED
      BY <1>6, <2>3, <2>6, <2>8, <2>10, <3>1, <3>3, <3>4, <1>1 DEF ReadOK
  <2>12. CASE ~repeat
    <3>1. CASE \A i \in 1..(done + pos) : Right(i)
      <4>1. \A i \in 1..(done + pos') : Right(i)'
        BY <2>6, <2>9, <2>12, <3>1
      <4>2. QED
        BY <1>1, <1>6, <2>3, <2>6, <2>8, <2>10, <4>1 DEF ReadOK
    <3>2. CASE op = "read" /\ pos >= 2 * Word /\ Repeated
      <4>1. \A i \in 1..Word : done + i \in 1..(done + pos) /\ done + Word + i \in 1..(done + pos)
        BY <1>3, <3>2
      <4>2. Repeated'
        BY <1>1, <2>5, <3>2, <4>1 DEF Repeated
      <4>3. pos' >= 2 * Word /\ op' = "read"
        BY <1>1, <1>3, <1>5, <2>7, <3>2
      <4>4. QED
        BY <1>1, <1>6, <2>3, <2>6, <2>8, <2>10, <4>2, <4>3 DEF ReadOK
    <3>3. QED
      BY <2>3, <3>1, <3>2
  <2>13. QED
    BY <1>7, <2>11, <2>12
<1>15. QED
  BY <1>9, <1>10, <1>11, <1>12, <1>13, <1>14 DEF SdioInv

\* One that fails ends the call, or leaves its mark.
LEMMA Cmd53ReadFailsKeeps == SdioInv /\ Cmd53ReadFails => SdioInv'
<1> SUFFICES ASSUME SdioInv, Cmd53ReadFails PROVE SdioInv'
  OBVIOUS
<1>1. /\ mem' = mem /\ reg' = reg /\ op' = op /\ updating' = updating /\ start' = start
      /\ len' = len /\ src' = src /\ done' = done /\ size' = size /\ pos' = pos
      /\ stored' = stored /\ failed' = TRUE /\ garbled' = garbled /\ calls' = calls
      /\ pc = "move" /\ ~Writing
      /\ IF op = "read" THEN pc' = "moved" /\ ret' = ret ELSE Return("error")
  BY DEF Cmd53ReadFails, args, device, Writing
<1>2. TypeOK'
  BY <1>1 DEF SdioInv, TypeOK, Return
<1>3. CASE op = "read"
  <2>1. pc' = "moved" /\ ret' = ret
    BY <1>1, <1>3
  <2>2. CallOK'
    BY <1>1, <1>3, <2>1 DEF SdioInv, CallOK, Running, Writing, Multi
  <2>3. RegistersOK'
    BY <1>1, <2>1, RegistersStay DEF InChunk
  <2>4. ChunkOK'
    BY <1>1, <1>3, <2>1 DEF SdioInv, ChunkOK, InChunk, WindowOf, Multi
  <2>5. StoredOK' /\ ReadOK'
    BY <1>1, <2>1 DEF SdioInv, StoredOK, ReadOK, Running, Writing
  <2>6. QED
    BY <1>2, <2>2, <2>3, <2>4, <2>5 DEF SdioInv
<1>4. CASE op # "read"
  BY <1>1, <1>2, <1>4, ErrorKeeps
<1>5. QED
  BY <1>3, <1>4

\* Where a chunk was read without failure, only a second word can be wrong, and it shows.
LEMMA Moved_ReadOK ==
  ASSUME SdioInv, pc = "moved", ~Writing, ~failed, ~garbled
  PROVE  /\ pos = size
         /\ \A i \in 1..(done + size) : Right(i) \/ (op = "read" /\ Second(i))
         /\ (op = "read" /\ Repeated) \/ \A i \in 1..(done + size) : Right(i)
<1>1. pos = size
  BY DEF SdioInv, ChunkOK, InChunk
<1>2. QED
  BY <1>1 DEF SdioInv, ReadOK, Running

\* Two equal words are read again.
LEMMA ReReadKeeps == SdioInv /\ ReRead => SdioInv'
<1> SUFFICES ASSUME SdioInv, ReRead PROVE SdioInv'
  OBVIOUS
<1>1. /\ mem' = mem /\ reg' = reg /\ op' = op /\ updating' = updating /\ start' = start
      /\ len' = len /\ src' = src /\ buf' = buf /\ done' = done /\ size' = size /\ ret' = ret
      /\ stored' = stored /\ failed' = failed /\ garbled' = garbled /\ calls' = calls
      /\ pc = "moved" /\ op = "read" /\ Repeated /\ pos' = 0 /\ pc' = "reread"
  BY DEF ReRead, args, device
<1>2. TypeOK'
  BY <1>1 DEF SdioInv, TypeOK
<1>3. CallOK'
  BY <1>1 DEF SdioInv, CallOK, Running, Writing, Multi
<1>4. RegistersOK'
  BY <1>1, RegistersStay DEF InChunk
<1>5. ChunkOK'
  BY <1>1, Typed DEF SdioInv, ChunkOK, InChunk, WindowOf, Multi, Repeated
<1>6. StoredOK'
  BY <1>1 DEF SdioInv, StoredOK, Running, Writing
<1>7. ReadOK'
  <2> SUFFICES ASSUME ~failed, ~garbled PROVE ReadOK'
    BY <1>1 DEF ReadOK
  <2>1. /\ \A i \in 1..(done + size) : Right(i) \/ (op = "read" /\ Second(i))
        /\ \A i \in 1..done : Right(i)
    BY <1>1, Moved_ReadOK DEF SdioInv, ReadOK, Running, Writing
  <2>2. \A i : (Right(i)' <=> Right(i)) /\ (Second(i)' <=> Second(i))
    BY <1>1 DEF Right, Second
  <2>3. QED
    BY <1>1, <2>1, <2>2 DEF ReadOK
<1>8. QED
  BY <1>2, <1>3, <1>4, <1>5, <1>6, <1>7 DEF SdioInv

\* The second reading is right, repeats once more, or fails.
LEMMA ReReadDoneKeeps == SdioInv /\ ReReadDone => SdioInv'
<1> SUFFICES ASSUME SdioInv, ReReadDone PROVE SdioInv'
  OBVIOUS
<1>1. /\ mem' = mem /\ reg' = reg /\ op' = op /\ updating' = updating /\ start' = start
      /\ len' = len /\ src' = src /\ done' = done /\ size' = size /\ pos' = pos /\ ret' = ret
      /\ stored' = stored /\ calls' = calls /\ pc = "reread" /\ pc' = "chunk"
  BY DEF ReReadDone, args, device
<1>2. \/ \E repeat \in BOOLEAN :
           Fetch(2 * Word, repeat) /\ garbled' = (garbled \/ repeat) /\ failed' = failed
      \/ failed' = TRUE /\ garbled' = garbled
  BY DEF ReReadDone
<1>3. op = "read" /\ pos = 0 /\ 2 * Word <= size /\ done + size <= len
  BY <1>1 DEF SdioInv, CallOK, ChunkOK, InChunk
<1>4. TypeOK'
  BY <1>1, <1>2 DEF SdioInv, TypeOK
<1>5. CallOK'
  BY <1>1, <1>3 DEF SdioInv, CallOK, Running, Writing, Multi
<1>6. RegistersOK'
  BY <1>1, RegistersStay DEF InChunk
<1>7. ChunkOK'
  BY <1>1 DEF SdioInv, ChunkOK, InChunk, WindowOf, Multi
<1>8. StoredOK'
  BY <1>1 DEF SdioInv, StoredOK, Running, Writing, InChunk
<1>9. ReadOK'
  <2> SUFFICES ASSUME ~failed', ~garbled' PROVE ReadOK'
    BY DEF ReadOK
  <2>1. Fetch(2 * Word, FALSE) /\ ~failed /\ ~garbled
    <3>1. PICK repeat \in BOOLEAN :
            Fetch(2 * Word, repeat) /\ garbled' = (garbled \/ repeat) /\ failed' = failed
      BY <1>2
    <3>2. ~garbled /\ repeat = FALSE
      BY <3>1, Zenon
    <3>3. QED
      BY <3>1, <3>2
  <2>2. Word \in Nat \ {0} /\ done \in Nat /\ size \in Nat /\ len \in Nat
    BY Sizes, Typed DEF SdioInv
  <2>3. /\ \A i \in 1..len : i - (done + pos) \notin 1..(2 * Word) => buf'[i] = buf[i]
        /\ \A i \in 1..len : i - (done + pos) \in 1..(2 * Word) => buf'[i] = mem[start + i - 1]
    <3> DEFINE k == 2 * Word
    <3>1. k \in Nat /\ pos + k <= size
      BY <1>3, <2>2
    <3> HIDE DEF k
    <3>2. /\ \A i \in 1..len : i - (done + pos) \notin 1..k => buf'[i] = buf[i]
          /\ \A i \in 1..len : i - (done + pos) \in 1..k =>
               IF FALSE /\ i - (done + pos) \in (Word + 1)..(2 * Word)
               THEN buf'[i] = mem[start + i - 1 - Word] ELSE buf'[i] = mem[start + i - 1]
      <4>1. Fetch(k, FALSE)
        BY <2>1 DEF k
      <4>2. QED
        BY <1>1, <3>1, <4>1, FetchIs
    <3>3. QED
      BY <3>2 DEF k
  <2>4. \A i \in 1..(done + size) : Right(i) \/ Second(i)
    BY <1>1, <1>3, <2>1 DEF SdioInv, ReadOK, Running, Writing
  <2>5. ASSUME NEW i \in 1..(done + size) PROVE Right(i)'
    <3>1. i \in 1..len
      BY <1>3, <2>2
    <3>2. CASE i - (done + pos) \in 1..(2 * Word)
      BY <1>1, <2>3, <3>1, <3>2 DEF Right
    <3>3. CASE i - (done + pos) \notin 1..(2 * Word)
      <4>1. ~Second(i)
        BY <1>3, <2>2, <3>3 DEF Second
      <4>2. QED
        BY <1>1, <2>3, <2>4, <3>1, <3>3, <4>1 DEF Right
    <3>4. QED
      BY <3>2, <3>3
  <2>6. \A i \in 1..done : i \in 1..(done + size)
    BY <2>2
  <2>7. QED
    BY <1>1, <2>5, <2>6 DEF ReadOK
<1>10. QED
  BY <1>4, <1>5, <1>6, <1>7, <1>8, <1>9 DEF SdioInv

\* A finished chunk is right, and all of it.
LEMMA ChunkIsDone ==
  ASSUME SdioInv, ChunkDone
  PROVE  /\ Running /\ Multi /\ InChunk /\ (Writing => pos = size)
         /\ ~Writing /\ ~failed /\ ~garbled => \A i \in 1..(done + size) : Right(i)
<1>1. Running /\ InChunk /\ Multi
  BY DEF SdioInv, CallOK, ChunkDone, Running, InChunk, Multi
<1>2. Writing => pos = size
  BY DEF SdioInv, CallOK, ChunkOK, ChunkDone, InChunk, Writing
<1>3. ASSUME ~Writing, ~failed, ~garbled PROVE \A i \in 1..(done + size) : Right(i)
  <2>1. CASE pc = "chunk"
    BY <1>1, <1>3, <2>1 DEF SdioInv, ReadOK
  <2>2. CASE pc = "moved" /\ ~Repeated
    BY <1>3, <2>2, Moved_ReadOK
  <2>3. QED
    BY <1>3, <2>1, <2>2 DEF ChunkDone, Writing
<1>4. QED
  BY <1>1, <1>2, <1>3

\* The next chunk begins where this one ended.
LEMMA NextChunkKeeps == SdioInv /\ NextChunk => SdioInv'
<1> SUFFICES ASSUME SdioInv, NextChunk PROVE SdioInv'
  OBVIOUS
<1>1. /\ mem' = mem /\ reg' = reg /\ op' = op /\ updating' = updating /\ start' = start
      /\ len' = len /\ src' = src /\ buf' = buf /\ size' = size
      /\ stored' = stored /\ failed' = failed /\ garbled' = garbled /\ calls' = calls
      /\ done' = done + size /\ pos' = 0
      /\ IF done' < len THEN pc' = "window0" /\ ret' = ret ELSE pc' = "idle" /\ ret' = "ok"
  BY DEF NextChunk, args, device, Return
<1>2. /\ Running /\ Multi /\ InChunk /\ (Writing => pos = size)
      /\ ~Writing /\ ~failed /\ ~garbled => \A i \in 1..(done + size) : Right(i)
  BY ChunkIsDone DEF NextChunk
<1>3. pc' \in {"idle", "window0"} /\ done' \in Nat /\ pos' \in Nat
  BY <1>1, Typed DEF SdioInv
<1>4. TypeOK'
  BY <1>1, <1>3 DEF SdioInv, TypeOK
<1>5. CallOK'
  BY <1>1, <1>2, <1>3 DEF SdioInv, CallOK, Running, Writing, Multi
<1>6. RegistersOK' /\ ChunkOK'
  BY <1>3 DEF RegistersOK, ChunkOK, InChunk
<1>7. StoredOK'
  BY <1>1, <1>2, <1>3 DEF SdioInv, StoredOK, Running, Writing, InChunk
<1>8. ReadOK'
  <2>1. \A i : Right(i)' <=> Right(i)
    BY <1>1 DEF Right
  <2>2. QED
    BY <1>1, <1>2, <1>3, <2>1 DEF ReadOK, Writing
<1>9. QED
  BY <1>4, <1>5, <1>6, <1>7, <1>8 DEF SdioInv

\* A call that returns 0 leaves nothing under way.
LEMMA Le32DoneKeeps == SdioInv /\ Le32Done => SdioInv'
<1> SUFFICES ASSUME SdioInv, Le32Done PROVE SdioInv'
  OBVIOUS
<1>1. pc' = "idle" /\ ret' = "ok"
  BY DEF Le32Done, Return
<1>2. TypeOK'
  BY <1>1 DEF Le32Done, SdioInv, TypeOK, args, device
<1>3. CallOK' /\ RegistersOK' /\ ChunkOK' /\ StoredOK' /\ ReadOK'
  BY <1>1 DEF CallOK, RegistersOK, ChunkOK, StoredOK, ReadOK, InChunk, Running
<1>4. QED
  BY <1>2, <1>3 DEF SdioInv

\* The word that was read is the one in memory.
LEMMA WordRead ==
  ASSUME SdioInv, pc = "moved", op = "read_le32"
  PROVE  /\ done = 0 /\ len = Word /\ size = Word /\ stored = 0
         /\ \A i \in 1..Word : buf[i] = mem[start + i - 1] /\ buf[i] \in Nat
<1>1. Running /\ ~Multi /\ ~Writing
  BY DEF Running, Multi, Writing
<1>2. done = 0 /\ len = Word /\ ~failed /\ ~garbled
  BY <1>1 DEF SdioInv, CallOK
<1>3. size = Word /\ stored = 0
  BY <1>1 DEF SdioInv, ChunkOK, StoredOK, InChunk
<1>4. Word \in Nat /\ start \in Nat /\ start + Word <= Top
  BY <1>2, Sizes, Typed DEF SdioInv, TypeOK
<1>5. ASSUME NEW i \in 1..Word PROVE buf[i] = mem[start + i - 1] /\ buf[i] \in Nat
  <2>1. Right(i)
    BY <1>1, <1>2, <1>3, <1>4, Moved_ReadOK
  <2>2. start + i - 1 \in Address
    BY <1>4, Sizes DEF Address
  <2>3. QED
    BY <2>1, <2>2 DEF Right, SdioInv, TypeOK
<1>6. QED
  BY <1>2, <1>3, <1>5

\* The second half of an update begins like a write.
LEMMA UpdateWriteKeeps == SdioInv /\ UpdateWrite => SdioInv'
<1> SUFFICES ASSUME SdioInv, UpdateWrite PROVE SdioInv'
  OBVIOUS
<1>1. /\ mem' = mem /\ reg' = reg /\ updating' = updating /\ start' = start
      /\ len' = len /\ buf' = buf /\ done' = done /\ size' = size /\ ret' = ret
      /\ stored' = stored /\ failed' = failed /\ garbled' = garbled /\ calls' = calls
      /\ pc = "moved" /\ op = "read_le32" /\ op' = "write_le32" /\ pos' = 0 /\ pc' = "window0"
      /\ src' = [i \in 1..Word |-> Modified(buf[i])]
  BY DEF UpdateWrite, device
<1>2. done = 0 /\ len = Word /\ stored = 0 /\ \A i \in 1..Word : buf[i] \in Nat
  BY <1>1, WordRead
<1>3. src' \in Seq(Nat) /\ Len(src') = Word
  <2>1. \A i \in 1..Word : Modified(buf[i]) \in Nat
    BY <1>2, Sizes DEF Modified
  <2>2. QED
    BY <1>1, <2>1, Sizes
<1>4. TypeOK'
  BY <1>1, <1>3 DEF SdioInv, TypeOK
<1>5. CallOK'
  BY <1>1, <1>2, <1>3 DEF SdioInv, CallOK, Running, Writing, Multi, Aligned
<1>6. RegistersOK' /\ ChunkOK'
  BY <1>1 DEF RegistersOK, ChunkOK, InChunk
<1>7. StoredOK' /\ ReadOK'
  BY <1>1, <1>2 DEF StoredOK, ReadOK, Writing, InChunk
<1>8. QED
  BY <1>4, <1>5, <1>6, <1>7 DEF SdioInv

\* A step that changes nothing keeps what holds.
LEMMA StutterKeeps == SdioInv /\ UNCHANGED vars => SdioInv'
  BY DEF SdioInv, TypeOK, CallOK, RegistersOK, ChunkOK, StoredOK, ReadOK, Right, Second, Repeated,
         Writing, Running, InChunk, Multi, Aligned, KeyholeFor, WindowOf, fn, vars, device, args

\* The invariant is inductive.
THEOREM SdioInductive == Spec => []SdioInv
<1>1. SdioInv /\ [Next]_vars => SdioInv'
  BY CallKeeps, Cmd52Keeps, Cmd52FailsKeeps, Cmd53WriteKeeps, Cmd53WriteFailsKeeps,
     Cmd53ReadKeeps, Cmd53ReadFailsKeeps, ReReadKeeps, ReReadDoneKeeps, NextChunkKeeps,
     Le32DoneKeeps, UpdateWriteKeeps, StutterKeeps DEF Next, Step
<1>2. QED
  BY SdioInvInit, <1>1, PTL DEF Spec

-----------------------------------------------------------------------------
(* Transfers *)

\* What moves next.
LEMMA MovingIs ==
  /\ pc = "move" => Moving = Part
  /\ pc = "reread" => Moving = 2 * Word
  /\ pc \notin {"move", "reread"} => Moving = 0
<1>1. CASE pc = "move"
  BY <1>1, Zenon DEF Moving
<1>2. CASE pc = "reread"
  <2>1. pc # "move"
    BY <1>2
  <2>2. QED
    BY <1>2, <2>1, Zenon DEF Moving
<1>3. CASE pc \notin {"move", "reread"}
  <2>1. pc # "move" /\ pc # "reread"
    BY <1>3
  <2>2. QED
    BY <2>1, Zenon DEF Moving
<1>4. QED
  BY <1>1, <1>2, <1>3

\* What moves next is part of what is left of the chunk.
LEMMA MovingFits ==
  ASSUME SdioInv, Moving > 0
  PROVE  InChunk /\ Moving \in Nat /\ pos < size /\ pos + Moving <= size
<1>1. size \in Nat /\ pos \in Nat /\ Word \in Nat
  BY Typed, Sizes DEF SdioInv
<1>2. CASE pc = "move"
  <2>1. pos < size
    BY <1>2 DEF SdioInv, ChunkOK, InChunk
  <2>2. Moving \in 1..(size - pos)
    BY <1>1, <1>2, <2>1, MovingIs, PartFits
  <2>3. QED
    BY <1>1, <1>2, <2>1, <2>2 DEF InChunk
<1>3. CASE pc = "reread"
  <2>1. pos = 0 /\ 2 * Word <= size /\ size > 0
    BY <1>3 DEF SdioInv, ChunkOK, InChunk
  <2>2. Moving = 2 * Word
    BY <1>3, MovingIs
  <2>3. QED
    BY <1>1, <1>3, <2>1, <2>2 DEF InChunk
<1>4. CASE pc \notin {"move", "reread"}
  BY <1>4, MovingIs
<1>5. QED
  BY <1>2, <1>3, <1>4

\* A transfer stays in the window it starts in, in the caller's range and in its buffer
\* (sdio_spi_read_multi_byte and sdio_spi_write_multi_byte cut chunks at 64K boundaries, and
\* a word of the le32 calls is aligned).
THEOREM TransfersStayInWindow == Spec => []NoCrossing
<1>1. SdioInv => NoCrossing
  <2> SUFFICES ASSUME SdioInv, Moving > 0
               PROVE  (At % Window) + Moving <= Window /\ done + pos + Moving <= len
    BY DEF NoCrossing
  <2>1. InChunk /\ Moving \in Nat /\ pos < size /\ pos + Moving <= size
    BY MovingFits
  <2>2. /\ size \in Nat /\ pos \in Nat /\ done \in Nat /\ len \in Nat /\ At \in Nat
        /\ Window \in Nat \ {0}
    BY Typed, Sizes DEF SdioInv
  <2>3. done + size <= len
    BY <2>1 DEF SdioInv, ChunkOK
  <2>4. (At % Window) + (size - pos) <= Window
    <3>1. pos + 0 < size
      BY <2>1, <2>2
    <3>2. QED
      BY <2>1, <3>1, ShownWhereMeant
  <2>5. At % Window \in Nat
    BY <2>2
  <2>6. QED
    BY <2>1, <2>2, <2>3, <2>4, <2>5
<1>2. QED
  BY SdioInductive, <1>1, PTL

\* Whenever data moves the keyhole shows the window addressed, whatever calls that failed
\* between two of its registers left there (morse_address_base_set before every chunk).
THEOREM KeyholeFollows == Spec => []KeyholeSet
<1>1. SdioInv => KeyholeSet
  <2> SUFFICES ASSUME SdioInv, Moving > 0 PROVE reg[fn] = KeyholeFor(At)
    BY DEF KeyholeSet
  <2>1. InChunk /\ pos + 0 < size
    BY MovingFits, Typed DEF SdioInv
  <2>2. QED
    BY <2>1, ShownWhereMeant
<1>2. QED
  BY SdioInductive, <1>1, PTL

-----------------------------------------------------------------------------
(* Results *)

\* Only the end of the last chunk or of a word returns 0, and then the whole range was read.
LEMMA ReturnsWithAll ==
  ASSUME SdioInv, Next, ret' = "ok", ret # "ok", ~Writing', ~failed', ~garbled'
  PROVE  \A i \in 1..len' : Right(i)'
<1>1. ~Call /\ ~Cmd52Fails /\ ~Cmd53WriteFails /\ ~UpdateWrite
  <2>1. ~Call
    BY DEF Call, MultiByte, Invalid, ReadLe32, WriteLe32, UpdateLe32, Runs, Refused
  <2>2. QED
    BY <2>1 DEF Cmd52Fails, Cmd53WriteFails, UpdateWrite, Return
<1>2. ~Cmd52 /\ ~Cmd53Write /\ ~Cmd53Read /\ ~Cmd53ReadFails /\ ~ReRead /\ ~ReReadDone
  BY DEF Cmd52, Cmd53Write, Cmd53Read, Cmd53ReadFails, ReRead, ReReadDone, Return
<1>3. CASE NextChunk
  <2>1. /\ mem' = mem /\ op' = op /\ start' = start /\ len' = len /\ buf' = buf
        /\ failed' = failed /\ garbled' = garbled /\ done' = done + size
    BY <1>3 DEF NextChunk, args, device
  <2>2. ~(done' < len)
    BY <1>3 DEF NextChunk
  <2>3. /\ Running /\ InChunk
        /\ \A i \in 1..(done + size) : Right(i)
    BY <1>3, <2>1, ChunkIsDone DEF NextChunk, Writing
  <2>4. done + size <= len
    BY <2>3 DEF SdioInv, ChunkOK
  <2>5. len = done + size
    BY <2>1, <2>2, <2>4, Typed DEF SdioInv
  <2>6. QED
    BY <2>1, <2>3, <2>5 DEF Right
<1>4. CASE Le32Done
  <2>1. /\ mem' = mem /\ op' = op /\ start' = start /\ len' = len /\ buf' = buf
        /\ pc = "moved" /\ ~Multi
    BY <1>4 DEF Le32Done, args, device
  <2>2. op = "read_le32"
    BY <2>1 DEF SdioInv, TypeOK, Multi, Writing
  <2>3. len = Word /\ \A i \in 1..Word : buf[i] = mem[start + i - 1]
    BY <2>1, <2>2, WordRead
  <2>4. QED
    BY <2>1, <2>3 DEF Right
<1>5. QED
  BY <1>1, <1>2, <1>3, <1>4 DEF Next, Step

\* What a read that returned 0 has delivered stays until the next call.
LEMMA DeliveredStays ==
  ASSUME SdioInv, Next, ret' = "ok", ret = "ok"
  PROVE  FALSE
<1>1. ~Running
  BY DEF SdioInv, CallOK
<1>2. Call
  BY <1>1 DEF Next, Step, Running, Cmd52, Cmd52Fails, Cmd53Write, Cmd53WriteFails, Cmd53Read,
              Cmd53ReadFails, ReRead, ReReadDone, NextChunk, ChunkDone, Le32Done, UpdateWrite
<1>3. ret' # "ok"
  BY <1>2 DEF Call, MultiByte, Invalid, ReadLe32, WriteLe32, UpdateLe32, Runs, Refused
<1>4. QED
  BY <1>3

\* A read that returns 0 delivers what the memory holds: a first word that came twice is seen
\* and read again (sdio_spi_read_multi_byte), unless a transfer failed unseen or a repetition
\* was not at the start of a chunk, or came again.
THEOREM ReadsDeliver == Spec => []ReadDelivers
<1>1. Init => ReadDelivers
  BY DEF Init, ReadDelivers
<1>2. SdioInv /\ SdioInv' /\ ReadDelivers /\ [Next]_vars => ReadDelivers'
  <2> SUFFICES ASSUME SdioInv, SdioInv', ReadDelivers, [Next]_vars,
                      ret' = "ok", op' \in {"read", "read_le32"}, ~failed', ~garbled'
               PROVE  \A i \in 1..len' : Right(i)'
    BY DEF ReadDelivers, Right
  <2>1. CASE Next
    <3>1. ~Writing'
      BY DEF Writing
    <3>2. QED
      BY <2>1, <3>1, ReturnsWithAll, DeliveredStays
  <2>2. CASE UNCHANGED vars
    BY <2>2 DEF ReadDelivers, Right, vars, device, args
  <2>3. QED
    BY <2>1, <2>2
<1>3. QED
  BY SdioInductive, <1>1, <1>2, PTL DEF Spec

-----------------------------------------------------------------------------
(* The promise *)

\* What the call is to store.
Meant == IF updating /\ op = "read_le32"
         THEN [i \in 1..Word |-> Modified(mem[start + i - 1])] ELSE src

\* It has a length, and not more than that was stored.
LEMMA MeantIs ==
  ASSUME SdioInv, Running
  PROVE  /\ Len(Meant) \in Nat /\ stored \in 0..Len(Meant)
         /\ Writing => Meant = src /\ Len(Meant) = len
         /\ ~Writing /\ ~updating => Meant = <<>> /\ Len(Meant) = 0
<1>1. /\ stored \in Nat /\ done \in Nat /\ pos \in Nat /\ size \in Nat /\ len \in Nat
      /\ Word \in Nat
  BY Typed, Sizes DEF SdioInv
<1>2. CASE Writing
  <2>1. Meant = src /\ Len(src) = len
    BY <1>2 DEF Meant, Writing, SdioInv, CallOK
  <2>2. InChunk => pos <= size /\ done + size <= len
    BY DEF SdioInv, ChunkOK
  <2>3. done <= len
    BY <1>1 DEF SdioInv, CallOK
  <2>4. stored = IF InChunk THEN done + pos ELSE done
    BY <1>2 DEF SdioInv, StoredOK
  <2>5. QED
    BY <1>1, <1>2, <2>1, <2>2, <2>3, <2>4
<1>3. CASE ~Writing
  <2>1. stored = 0 /\ src = <<>>
    BY <1>3 DEF SdioInv, StoredOK, CallOK
  <2>2. CASE updating /\ op = "read_le32"
    <3>1. Len(Meant) = Word
      BY <1>1, <2>2 DEF Meant
    <3>2. QED
      BY <1>1, <1>3, <2>1, <2>2, <3>1
  <2>3. CASE ~(updating /\ op = "read_le32")
    <3>1. Meant = <<>> /\ Len(<<>>) = 0
      BY <2>1, <2>3 DEF Meant
    <3>2. QED
      BY <1>3, <2>1, <3>1
  <2>4. QED
    BY <2>2, <2>3
<1>4. QED
  BY <1>2, <1>3

\* A step that stores nothing and goes on is none of the promise's.
LEMMA Stutters ==
  ASSUME UNCHANGED <<mem, start, stored, ret>>, Meant' = Meant
  PROVE  UNCHANGED Promise!avars
  BY DEF Promise!avars, Meant

\* An error that stores nothing.
LEMMA FailsKeepingPromise ==
  ASSUME SdioInv, Running, ret' = "error", UNCHANGED <<mem, args, stored>>
  PROVE  Promise!Store
<1>1. ret = "running" /\ stored \in stored..Len(Meant) /\ stored \in Nat
  BY MeantIs DEF SdioInv, CallOK
<1>2. Meant' = Meant /\ start' = start /\ stored' = stored /\ mem' = mem
  BY DEF Meant, args
<1>3. mem \in [Address -> Nat] /\ Promise!Address = Address /\ start \in Nat
  BY Typed DEF SdioInv, TypeOK, Address, Promise!Address
<1>4. \A a \in Address : a - start \notin stored..(stored - 1)
  BY <1>1, <1>3, Sizes
<1>5. mem' = [a \in Address |-> IF a - start \in stored..(stored' - 1)
                                THEN Meant[a - start + 1] ELSE mem[a]]
  BY <1>2, <1>3, <1>4
<1>6. QED
  BY <1>1, <1>2, <1>3, <1>5 DEF Promise!Store, Meant

\* Bytes that arrive.
LEMMA StoresAsPromised ==
  ASSUME SdioInv, pc = "move", Writing, NEW k \in 0..Part, Store(k), ret' \in {ret, "error"},
         UNCHANGED args
  PROVE  Promise!Store
<1>1. /\ mem' = [a \in Address |-> IF a - start \in stored..(stored' - 1)
                                   THEN src[a - start + 1] ELSE mem[a]]
      /\ stored' = stored + k /\ stored' <= done + size
  BY StoreIs
<1>2. Running /\ ret = "running" /\ done + size <= len /\ pos < size
  BY DEF SdioInv, CallOK, ChunkOK, Running, InChunk
<1>3. Meant = src /\ Meant' = Meant /\ Len(Meant) = len
  BY <1>2, MeantIs DEF Meant, Writing, args
<1>4. /\ stored \in Nat /\ len \in Nat /\ done \in Nat /\ size \in Nat /\ pos \in Nat
  BY Typed DEF SdioInv
<1>5. Part \in Nat
  BY <1>2, <1>4, PartFits
<1>6. stored' \in stored..Len(Meant)
  BY <1>1, <1>2, <1>3, <1>4, <1>5
<1>7. start' = start /\ Promise!Address = Address
  BY DEF args, Address, Promise!Address
<1>8. QED
  BY <1>1, <1>2, <1>3, <1>6, <1>7 DEF Promise!Store, Meant

\* A call that returns 0 has stored everything.
LEMMA FinishesAsPromised ==
  ASSUME SdioInv, Running, stored = Len(Meant), ret' = "ok", UNCHANGED <<mem, args, stored>>
  PROVE  Promise!Finish
<1>1. ret = "running" /\ Meant' = Meant /\ start' = start
  BY DEF SdioInv, CallOK, Meant, args
<1>2. QED
  BY <1>1 DEF Promise!Finish, Meant

\* A call begins as the promise says.
LEMMA BeginsAsPromised ==
  ASSUME SdioInv, NEW o \in {"read", "write", "read_le32", "write_le32"}, NEW a \in Starts,
         NEW n \in Nat, NEW bytes \in Seq(Nat), Begin(o, a, n, bytes),
         \/ bytes = <<>> /\ ret' \in {"running", "invalid"}
         \/ Len(bytes) = n /\ ret' = "running",
         ~updating'
  PROVE  Promise!Begin
<1>1. ret # "running" /\ mem' = mem /\ start' = a /\ stored' = 0 /\ src' = bytes /\ a + n <= Top
  BY DEF Begin, SdioInv, CallOK, Running, device
<1>2. Meant' = bytes
  BY <1>1 DEF Meant
<1>3. a \in Promise!Address
  BY Sizes DEF Address, Promise!Address
<1>4. QED
  BY <1>1, <1>2, <1>3 DEF Promise!Begin, Promise!Byte, Meant

\* Every call begins so.
LEMMA CallAsPromised == SdioInv /\ Call => Promise!Begin \/ Promise!BeginUpdate
<1> SUFFICES ASSUME SdioInv, Call PROVE Promise!Begin \/ Promise!BeginUpdate
  OBVIOUS
<1>1. <<>> \in Seq(Nat) /\ Word \in Nat
  BY Sizes
<1>2. ASSUME NEW a \in Starts, NEW n \in Lengths, NEW o \in {"read", "write"}, MultiByte(o, a, n)
      PROVE  Promise!Begin
  <2>1. n \in Nat /\ ret' = "running" /\ ~updating'
    BY <1>2, Sizes DEF MultiByte, Runs
  <2>2. CASE o = "write"
    <3>1. Begin(o, a, n, SourceBytes(n))
      BY <1>2, <2>2 DEF MultiByte
    <3>2. QED
      BY <2>1, <3>1, BeginsAsPromised, SourceTyped
  <2>3. CASE o # "write"
    <3>1. Begin(o, a, n, <<>>)
      BY <1>2, <2>3 DEF MultiByte
    <3>2. QED
      BY <1>1, <2>1, <3>1, BeginsAsPromised
  <2>4. QED
    BY <2>2, <2>3
<1>3. ASSUME NEW a \in Starts, NEW n \in Lengths, NEW o \in {"read", "write"}, Invalid(o, a, n)
      PROVE  Promise!Begin
  BY <1>1, <1>3, BeginsAsPromised, Sizes DEF Invalid, Refused
<1>4. ASSUME NEW a \in Starts, ReadLe32(a) PROVE Promise!Begin
  BY <1>1, <1>4, BeginsAsPromised DEF ReadLe32, Runs, Refused
<1>5. ASSUME NEW a \in Starts, WriteLe32(a) PROVE Promise!Begin
  BY <1>1, <1>5, BeginsAsPromised, SourceTyped DEF WriteLe32, Runs
<1>6. ASSUME NEW a \in Starts, UpdateLe32(a) PROVE Promise!BeginUpdate
  <2>1. /\ ret # "running" /\ mem' = mem /\ start' = a /\ stored' = 0 /\ a + Word <= Top
        /\ op' = "read_le32" /\ updating' = TRUE /\ ret' = "running"
    BY <1>6 DEF UpdateLe32, Runs, Begin, SdioInv, CallOK, Running, device
  <2>2. Meant' = [i \in 1..Word |-> Modified(mem[start' + i - 1])]
    BY <2>1 DEF Meant, Modified
  <2>3. a \in Promise!Address
    BY Sizes DEF Address, Promise!Address
  <2>4. QED
    BY <2>1, <2>2, <2>3 DEF Promise!BeginUpdate, Promise!Modified, Meant, Modified
<1>7. QED
  BY <1>2, <1>3, <1>4, <1>5, <1>6 DEF Call

\* Steps between two transfers promise nothing.
LEMMA SilentSteps ==
  ASSUME SdioInv, Cmd52 \/ Cmd53Read \/ ReRead \/ ReReadDone \/ UNCHANGED vars
  PROVE  UNCHANGED Promise!avars
<1>1. UNCHANGED <<mem, args, stored, ret>>
  BY DEF Cmd52, Cmd53Read, ReRead, ReReadDone, vars, device, args
<1>2. QED
  BY <1>1, Stutters DEF Meant, args

\* The end of a chunk is the end of the call when nothing is left.
LEMMA NextChunkAsPromised == SdioInv /\ NextChunk => Promise!Finish \/ UNCHANGED Promise!avars
<1> SUFFICES ASSUME SdioInv, NextChunk PROVE Promise!Finish \/ UNCHANGED Promise!avars
  OBVIOUS
<1>1. UNCHANGED <<mem, args, stored>> /\ done' = done + size /\ len' = len
  BY DEF NextChunk, device, args
<1>2. Running /\ Multi /\ InChunk /\ (Writing => pos = size)
  BY ChunkIsDone DEF NextChunk
<1>3. CASE done' < len
  <2>1. ret' = ret
    BY <1>3 DEF NextChunk
  <2>2. QED
    BY <1>1, <2>1, Stutters DEF Meant, args
<1>4. CASE ~(done' < len)
  <2>1. ret' = "ok"
    BY <1>4 DEF NextChunk, Return
  <2>2. done + size <= len
    BY <1>2 DEF SdioInv, ChunkOK
  <2>3. done + size = len
    BY <1>1, <1>4, <2>2, Typed DEF SdioInv
  <2>4. stored = Len(Meant)
    <3>1. CASE Writing
      <4>1. stored = done + pos /\ Len(Meant) = len
        BY <1>2, <3>1, MeantIs DEF SdioInv, StoredOK
      <4>2. QED
        BY <1>2, <2>3, <3>1, <4>1
    <3>2. CASE ~Writing
      <4>1. ~updating
        BY <1>2 DEF SdioInv, CallOK
      <4>2. stored \in 0..0 /\ Len(Meant) = 0
        BY <1>2, <3>2, <4>1, MeantIs
      <4>3. QED
        BY <4>2
    <3>3. QED
      BY <3>1, <3>2
  <2>5. QED
    BY <1>1, <1>2, <2>1, <2>4, FinishesAsPromised
<1>5. QED
  BY <1>3, <1>4

\* A word that is written is stored.
LEMMA Le32DoneAsPromised == SdioInv /\ Le32Done => Promise!Finish
<1> SUFFICES ASSUME SdioInv, Le32Done PROVE Promise!Finish
  OBVIOUS
<1>1. UNCHANGED <<mem, args, stored>> /\ ret' = "ok" /\ Running /\ InChunk /\ ~Multi
      /\ ~(updating /\ op = "read_le32")
  BY DEF Le32Done, Return, device, args, Running, InChunk
<1>2. pos = size /\ size = Word /\ done = 0 /\ len = Word
  BY <1>1 DEF SdioInv, ChunkOK, CallOK, Le32Done, Multi
<1>3. stored = Len(Meant)
  <2>1. CASE Writing
    <3>1. stored = done + pos /\ Len(Meant) = len
      BY <1>1, <2>1, MeantIs DEF SdioInv, StoredOK
    <3>2. QED
      BY <1>2, <3>1, Sizes
  <2>2. CASE ~Writing
    <3>1. ~updating
      BY <1>1, <2>2 DEF SdioInv, TypeOK, Writing, Multi
    <3>2. stored \in 0..0 /\ Len(Meant) = 0
      BY <1>1, <2>2, <3>1, MeantIs
    <3>3. QED
      BY <3>2
  <2>3. QED
    BY <2>1, <2>2
<1>4. QED
  BY <1>1, <1>3, FinishesAsPromised

\* Writing what was read is no step of an update's promise: it was what the memory held.
LEMMA UpdateWriteAsPromised == SdioInv /\ UpdateWrite => UNCHANGED Promise!avars
<1> SUFFICES ASSUME SdioInv, UpdateWrite PROVE UNCHANGED Promise!avars
  OBVIOUS
<1>1. \A i \in 1..Word : buf[i] = mem[start + i - 1]
  BY WordRead DEF UpdateWrite
<1>2. Meant = [i \in 1..Word |-> Modified(mem[start + i - 1])]
  BY DEF UpdateWrite, Meant
<1>3. Meant' = [i \in 1..Word |-> Modified(buf[i])]
  BY DEF UpdateWrite, Meant
<1>4. UNCHANGED <<mem, start, stored, ret>>
  BY DEF UpdateWrite, device
<1>5. QED
  BY <1>1, <1>2, <1>3, <1>4, Stutters

\* Writes and updates do what SdioMemory promises, whatever fails: the bytes arrive in order
\* and nowhere else, 0 is returned only when all of them did, and an update writes what the
\* word held when it was called (sdio_spi_write_multi_byte, sdio_spi_write_le32 and
\* sdio_spi_update_le32).
THEOREM KeepsPromise == Spec => WritesAsPromised
<1>1. Init => Promise!AInit
  <2> SUFFICES ASSUME Init PROVE Promise!AInit
    OBVIOUS
  <2>1. Promise!Address = Address /\ Promise!Byte = Nat
    BY DEF Promise!Address, Address, Promise!Byte
  <2>2. mem \in [Address -> Nat]
    BY Sizes DEF Init
  <2>3. QED
    BY <2>1, <2>2 DEF Init, Promise!AInit
<1>2. SdioInv /\ [Next]_vars => [Promise!ANext]_(Promise!avars)
  <2> SUFFICES ASSUME SdioInv, [Next]_vars PROVE Promise!ANext \/ UNCHANGED Promise!avars
    OBVIOUS
  <2>1. CASE Call
    BY <2>1, CallAsPromised DEF Promise!ANext
  <2>2. CASE Cmd52 \/ Cmd53Read \/ ReRead \/ ReReadDone \/ UNCHANGED vars
    BY <2>2, SilentSteps
  <2>3. CASE Cmd52Fails
    BY <2>3, FailsKeepingPromise DEF Cmd52Fails, Return, Running, Promise!ANext
  <2>4. CASE Cmd53Write
    <3>1. pc = "move" /\ Writing /\ Store(Part) /\ ret' = ret /\ UNCHANGED args
      BY <2>4 DEF Cmd53Write, Writing
    <3>2. Part \in 0..Part
      <4>1. size \in Nat /\ pos \in Nat /\ pos < size
        BY <3>1, Typed DEF SdioInv, ChunkOK, InChunk
      <4>2. Part \in Nat
        BY <4>1, PartFits
      <4>3. QED
        BY <4>2
    <3>3. QED
      BY <3>1, <3>2, StoresAsPromised DEF Promise!ANext
  <2>5. CASE Cmd53WriteFails
    <3>1. pc = "move" /\ Writing /\ ret' = "error" /\ UNCHANGED args
      BY <2>5 DEF Cmd53WriteFails, Writing, Return
    <3>2. PICK k \in 0..Part : Store(k)
      BY <2>5 DEF Cmd53WriteFails
    <3>3. QED
      BY <3>1, <3>2, StoresAsPromised DEF Promise!ANext
  <2>6. CASE Cmd53ReadFails
    <3>1. UNCHANGED <<mem, args, stored>> /\ Running
      BY <2>6 DEF Cmd53ReadFails, device, Running
    <3>2. CASE op = "read"
      BY <2>6, <3>1, <3>2, Stutters DEF Cmd53ReadFails, Meant, args
    <3>3. CASE op # "read"
      BY <2>6, <3>1, <3>3, FailsKeepingPromise DEF Cmd53ReadFails, Return, Promise!ANext
    <3>4. QED
      BY <3>2, <3>3
  <2>7. CASE NextChunk
    BY <2>7, NextChunkAsPromised DEF Promise!ANext
  <2>8. CASE Le32Done
    BY <2>8, Le32DoneAsPromised DEF Promise!ANext
  <2>9. CASE UpdateWrite
    BY <2>9, UpdateWriteAsPromised
  <2>10. QED
    BY <2>1, <2>2, <2>3, <2>4, <2>5, <2>6, <2>7, <2>8, <2>9 DEF Next, Step
<1>3. QED
  BY SdioInductive, <1>1, <1>2, PTL DEF Spec, WritesAsPromised, Promise!ASpec
=============================================================================
