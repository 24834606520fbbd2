----------------------------- MODULE SdioMemory -----------------------------
(***************************************************************************)
(* What sdio_spi.h promises of a call on the transceiver's memory.  A      *)
(* write puts the bytes of the caller's buffer at consecutive addresses,   *)
(* first to last, and changes nothing else; it returns 0 only when all of  *)
(* them are there, and with an error some first part of them may be.       *)
(* sdio_spi_update_le32 writes what the word held when it was called, with *)
(* the masked bits changed.  A read changes nothing.                       *)
(***************************************************************************)
EXTENDS Naturals, Sequences

CONSTANTS Top,    \* the addresses are 0..Top-1
          Word,   \* bytes of a le32
          Mask    \* stands for the bits an update changes

Address == 0..(Top - 1)
Byte == Nat
Modified(b) == b + Mask

VARIABLES mem,     \* address -> byte
          start,   \* address given to the call
          src,     \* the bytes it has to write
          stored,  \* how many of them are written
          ret      \* "running", or what the call returned

avars == <<mem, start, src, stored, ret>>

AInit ==
  /\ mem \in [Address -> Byte]
  /\ start = 0 /\ src = <<>> /\ stored = 0 /\ ret = "ok"

Begin ==
  /\ ret # "running"
  /\ start' \in Address /\ stored' = 0
  /\ \/ src' = <<>> /\ ret' \in {"running", "invalid"}
     \/ src' \in Seq(Byte) /\ start' + Len(src') <= Top /\ ret' = "running"
  /\ UNCHANGED mem

BeginUpdate ==
  /\ ret # "running"
  /\ start' \in Address /\ start' + Word <= Top
  /\ src' = [i \in 1..Word |-> Modified(mem[start' + i - 1])]
  /\ stored' = 0 /\ ret' = "running"
  /\ UNCHANGED mem

\* The next bytes arrive, possibly none, and possibly the last before the call fails.
Store ==
  /\ ret = "running" /\ ret' \in {"running", "error"}
  /\ stored' \in stored..Len(src)
  /\ mem' = [a \in Address |-> IF a - start \in stored..(stored' - 1)
                               THEN src[a - start + 1] ELSE mem[a]]
  /\ UNCHANGED <<start, src>>

Finish ==
  /\ ret = "running" /\ stored = Len(src)
  /\ ret' = "ok"
  /\ UNCHANGED <<mem, start, src, stored>>

ANext == Begin \/ BeginUpdate \/ Store \/ Finish

ASpec == AInit /\ [][ANext]_avars
=============================================================================
