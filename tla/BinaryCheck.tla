---------------------------- MODULE BinaryCheck ----------------------------
(***************************************************************************)
(* execute_fw_bcf_test: the walk of the porting assistant over the fields   *)
(* (type, length, value) of the firmware and of the BCF, read through       *)
(* mmhal_wlan_read_fw_file and mmhal_wlan_read_bcf_file.                    *)
(*                                                                         *)
(* A file is a sequence of 16-bit cells: a field's type is a cell, its      *)
(* length another, counted in cells too, and the magic number takes two.    *)
(*                                                                         *)
(* Bounds: Files; MAX_TLVS, which is 50 in the code.                        *)
(***************************************************************************)
EXTENDS Naturals, Sequences

CONSTANTS Files, MAX_TLVS,
          FIELD_TYPE_MAGIC, FIELD_TYPE_EOF,
          MagicNumber     \* of each kind of file, as two cells

Header == 2
Magic == 2
Kinds == {"firmware", "BCF"}

ASSUME BinaryAssumption ==
  /\ \A f \in Files : f \in Seq(Nat)
  /\ FIELD_TYPE_MAGIC # FIELD_TYPE_EOF /\ MAX_TLVS \in Nat \ {0}
  /\ DOMAIN MagicNumber = Kinds

VARIABLES kind, file,
          offset, numTlvs, remaining,
          walk     \* "idle", "header", "value", "passed" or "failed"

binary == <<kind, file, offset, numTlvs, remaining, walk>>

InitBinary ==
  kind = "firmware" /\ file = <<>> /\ offset = 0 /\ numTlvs = 0 /\ remaining = 0
  /\ walk = "idle"

\* The length of what is read at o: past the end of the firmware the length stays what the
\* caller put there, which is 0, as in the BCF's case.
ReadLength(o, requested) ==
  LET left == Len(file) - o
  IN  IF o > Len(file) THEN 0 ELSE IF left < requested THEN left ELSE requested

BeginWalk(k, f) ==
  /\ walk = "idle" /\ walk' = "header"
  /\ kind' = k /\ file' = f /\ offset' = 0 /\ numTlvs' = 0 /\ remaining' = 0

\* The loop's next iteration, if it has one.
NextField(n) == walk' = IF n < MAX_TLVS THEN "header" ELSE "failed"

ReadHeader ==
  LET type == file[offset + 1]
      len == file[offset + 2]
      bad == ReadLength(offset, Header) < Header \/ (numTlvs = 0 /\ type # FIELD_TYPE_MAGIC)
      stop == IF bad THEN "failed" ELSE IF type = FIELD_TYPE_EOF THEN "passed" ELSE "none"
  IN  /\ walk = "header"
      /\ IF stop # "none"
         THEN walk' = stop /\ UNCHANGED <<offset, numTlvs, remaining>>
         ELSE /\ offset' = offset + Header /\ remaining' = len
              /\ IF len > 0 THEN walk' = "value" /\ UNCHANGED numTlvs
                 ELSE numTlvs' = numTlvs + 1 /\ NextField(numTlvs')
      /\ UNCHANGED <<kind, file>>

ReadValue_NoMagic ==
  LET n == ReadLength(offset, remaining)
  IN  /\ walk = "value"
      /\ IF n = 0
         THEN walk' = "failed" /\ UNCHANGED <<offset, numTlvs, remaining>>
         ELSE /\ offset' = offset + n /\ remaining' = remaining - n
              /\ IF remaining' > 0 THEN UNCHANGED <<walk, numTlvs>>
                 ELSE numTlvs' = numTlvs + 1 /\ NextField(numTlvs')
      /\ UNCHANGED <<kind, file>>

\* Every piece of the first field's value is compared with the magic number.
ReadValue ==
  LET n == ReadLength(offset, remaining)
      wrong == numTlvs = 0 /\ (n < Magic
                               \/ SubSeq(file, offset + 1, offset + Magic) # MagicNumber[kind])
  IN  /\ walk = "value"
      /\ IF n = 0 \/ wrong
         THEN walk' = "failed" /\ UNCHANGED <<offset, numTlvs, remaining>>
         ELSE /\ offset' = offset + n /\ remaining' = remaining - n
              /\ IF remaining' > 0 THEN UNCHANGED <<walk, numTlvs>>
                 ELSE numTlvs' = numTlvs + 1 /\ NextField(numTlvs')
      /\ UNCHANGED <<kind, file>>

WalkStep == ReadHeader \/ ReadValue
WalkEnds == walk' = "idle" /\ UNCHANGED <<kind, file, offset, numTlvs, remaining>>

\* On its own: a file of either kind.
BInit == InitBinary
BNext == (\E k \in Kinds, f \in Files : BeginWalk(k, f)) \/ WalkStep
BSpec == BInit /\ [][BNext]_binary

-----------------------------------------------------------------------------
(* What the walk decides, said without it *)

FieldEnd(f, o) == o + Header + f[o + 2]

\* n fields one after the other, of which the last is the first EOF.
Chain(f, n, at) ==
  /\ at[1] = 0
  /\ \A i \in 1..n : at[i] + Header <= Len(f)
  /\ \A i \in 1..(n - 1) : at[i + 1] = FieldEnd(f, at[i]) /\ f[at[i] + 1] # FIELD_TYPE_EOF
  /\ f[at[n] + 1] = FIELD_TYPE_EOF

\* A field of magic type that holds the magic number, or nothing, comes first, and EOF is
\* among the first MAX_TLVS fields.
WellFormed(f, k) ==
  /\ \E n \in 2..MAX_TLVS : \E at \in [1..n -> 0..Len(f)] : Chain(f, n, at)
  /\ f[1] = FIELD_TYPE_MAGIC
  /\ f[2] = 0 \/ (f[2] >= Magic /\ SubSeq(f, Header + 1, Header + Magic) = MagicNumber[k])

\* The verdict on a file is right, however its fields lie: short, cut off, without EOF, with
\* EOF only after MAX_TLVS, or with a value that looks like a header.
VerdictRight ==
  walk \in {"passed", "failed"} => (walk = "passed") = WellFormed(file, kind)
=============================================================================
