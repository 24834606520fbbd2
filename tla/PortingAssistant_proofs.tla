----------------------- MODULE PortingAssistant_proofs -----------------------
(***************************************************************************)
(* What PortingAssistant promises, for every number of faults, every set of *)
(* files and every length of the benchmark.                                 *)
(*                                                                         *)
(* SafeInv says, step by step of the runner, what is established by then:   *)
(* a step's own property needs what the steps before it left.  From it come *)
(* PassesAreEarned, StepsLeaveNothing and ChipUsedWhenReady.                *)
(*                                                                         *)
(* GoodInv says where a platform on which nothing fails is at each point,   *)
(* above all what BUSY's interrupt has counted; it needs SafeInv and gives  *)
(* GoodPlatformsPass.                                                       *)
(*                                                                         *)
(* VerdictRight, which the firmware test rests on, compares BinaryCheck's   *)
(* walk with a definition that speaks of chains of fields.  WalkInv says    *)
(* how far a walk under way has come in every chain there may be (Ahead: it *)
(* follows them all, so that a file it gives up on has none), and that the  *)
(* fields behind it are the beginning of one (Behind: so that a file it     *)
(* accepts has one).                                                        *)
(***************************************************************************)
EXTENDS PortingAssistant, TLAPS

-----------------------------------------------------------------------------
(* BinaryCheck: the verdict on a file *)

\* The fields behind the walk, and the one it is at.
Behind(pos) ==
  /\ pos \in [1..(numTlvs + 1) -> 0..Len(file)] /\ pos[1] = 0
  /\ \A i \in 1..numTlvs : /\ pos[i] + Header <= Len(file)
                           /\ pos[i + 1] = FieldEnd(file, pos[i])
                           /\ file[pos[i] + 1] # FIELD_TYPE_EOF
  /\ walk = "header" => pos[numTlvs + 1] = offset
  /\ walk = "value" => /\ pos[numTlvs + 1] + Header <= Len(file)
                       /\ FieldEnd(file, pos[numTlvs + 1]) = offset + remaining
                       /\ file[pos[numTlvs + 1] + 1] # FIELD_TYPE_EOF

\* Where the walk is in a chain of n fields.
Ahead(n, pos) ==
  /\ walk = "header" => numTlvs + 1 <= n /\ pos[numTlvs + 1] = offset
  /\ walk = "value" => numTlvs + 2 <= n /\ pos[numTlvs + 2] = offset + remaining

MagicOK == file[2] = 0 \/ (file[2] >= Magic /\ SubSeq(file, Header + 1, Header + Magic) = MagicNumber[kind])

\* The first field, once its header and once its value has been read.
FirstOK ==
  /\ walk = "value" \/ numTlvs > 0 => file[1] = FIELD_TYPE_MAGIC
  /\ numTlvs > 0 => MagicOK
  /\ walk = "header" /\ numTlvs = 0 => offset = 0
  /\ walk = "value" /\ numTlvs = 0 =>
       file[2] > 0 /\ (offset = Len(file) \/ (offset = Header /\ remaining = file[2]))

IsChain(n, pos) == n \in 2..MAX_TLVS /\ pos \in [1..n -> 0..Len(file)] /\ Chain(file, n, pos)

TypeOK ==
  /\ kind \in Kinds /\ file \in Seq(Nat)
  /\ offset \in Nat /\ numTlvs \in Nat /\ remaining \in Nat
  /\ walk \in {"idle", "header", "value", "passed", "failed"}

WalkInv ==
  /\ TypeOK
  /\ walk \in {"header", "value"} =>
       /\ offset <= Len(file) /\ numTlvs < MAX_TLVS /\ (walk = "value" => remaining > 0)
       /\ FirstOK
       /\ \E pos : Behind(pos)
       /\ \A n, pos : IsChain(n, pos) => Ahead(n, pos)
  /\ walk = "failed" => ~WellFormed(file, kind)
  /\ walk = "passed" => WellFormed(file, kind)

-----------------------------------------------------------------------------
\* The constants, as the proofs use them.
LEMMA BinaryConstants ==
  /\ \A f \in Files : f \in Seq(Nat)
  /\ FIELD_TYPE_MAGIC # FIELD_TYPE_EOF /\ MAX_TLVS \in Nat \ {0}
  /\ Header = 2 /\ Magic = 2
  BY BinaryAssumption DEF Header, Magic

\* A well-formed file has a chain.
LEMMA ChainOfWellFormed ==
  ASSUME WellFormed(file, kind)
  PROVE  (\E n, pos : IsChain(n, pos)) /\ file[1] = FIELD_TYPE_MAGIC /\ MagicOK
  BY DEF WellFormed, IsChain, MagicOK

\* What a read delivers.
LEMMA Delivered ==
  ASSUME NEW o \in Nat, NEW r \in Nat, file \in Seq(Nat), o <= Len(file)
  PROVE  /\ ReadLength(o, r) \in 0..r /\ o + ReadLength(o, r) <= Len(file)
         /\ ReadLength(o, r) < r => o + ReadLength(o, r) = Len(file)
  BY DEF ReadLength

\* A walk begins at the first field of every chain.
LEMMA BeginKeeps ==
  ASSUME WalkInv, NEW k \in Kinds, NEW f \in Files, BeginWalk(k, f)
  PROVE  WalkInv'
<1>1. /\ walk' = "header" /\ kind' = k /\ file' = f /\ offset' = 0 /\ numTlvs' = 0 /\ remaining' = 0
      /\ f \in Seq(Nat) /\ Len(f) \in Nat
  BY BinaryConstants DEF BeginWalk
<1>2. TypeOK' /\ FirstOK'
  BY <1>1 DEF TypeOK, FirstOK
<1>3. \E pos : Behind(pos)'
  <2> DEFINE pos == [i \in 1..1 |-> 0]
  <2>1. pos \in [1..(numTlvs' + 1) -> 0..Len(file')] /\ pos[1] = 0
    BY <1>1
  <2>2. Behind(pos)'
    BY <1>1, <2>1 DEF Behind
  <2>3. QED
    BY <2>2
<1>4. ASSUME NEW n, NEW pos, IsChain(n, pos)' PROVE Ahead(n, pos)'
  BY <1>1, <1>4, BinaryConstants DEF IsChain, Chain, Ahead
<1>5. 0 < MAX_TLVS
  BY BinaryConstants
<1>6. QED
  BY <1>1, <1>2, <1>3, <1>4, <1>5 DEF WalkInv

\* The fields of a chain.
LEMMA InChain ==
  ASSUME NEW n, NEW pos, IsChain(n, pos), NEW i \in 1..n
  PROVE  /\ n \in 2..MAX_TLVS /\ pos[i] \in 0..Len(file) /\ pos[i] + Header <= Len(file)
         /\ i < n => pos[i + 1] = FieldEnd(file, pos[i]) /\ file[pos[i] + 1] # FIELD_TYPE_EOF
         /\ i = n => file[pos[i] + 1] = FIELD_TYPE_EOF
<1>1. n \in 2..MAX_TLVS /\ pos \in [1..n -> 0..Len(file)] /\ Chain(file, n, pos)
  BY DEF IsChain
<1>2. n \in Nat /\ (i < n => i \in 1..(n - 1))
  BY <1>1, BinaryConstants
<1>3. QED
  BY <1>1, <1>2 DEF Chain

\* A field before EOF is not the last.
LEMMA NotLast ==
  ASSUME WalkInv, walk = "header", file[offset + 1] # FIELD_TYPE_EOF, NEW n, NEW pos, IsChain(n, pos)
  PROVE  numTlvs + 2 <= n /\ pos[numTlvs + 2] = FieldEnd(file, offset)
<1>1. numTlvs + 1 <= n /\ pos[numTlvs + 1] = offset /\ numTlvs \in Nat /\ n \in Nat
  BY BinaryConstants DEF WalkInv, Ahead, TypeOK, IsChain
<1>2. numTlvs + 1 \in 1..n /\ (numTlvs + 1) + 1 = numTlvs + 2
  BY <1>1
<1>3. /\ numTlvs + 1 < n => pos[(numTlvs + 1) + 1] = FieldEnd(file, pos[numTlvs + 1])
      /\ numTlvs + 1 = n => file[pos[numTlvs + 1] + 1] = FIELD_TYPE_EOF
  BY <1>2, InChain
<1>4. QED
  BY <1>1, <1>2, <1>3

\* A walk that gives up on a file that is not well formed.
LEMMA GivesUp ==
  ASSUME WalkInv, walk' = "failed", UNCHANGED <<kind, file>>, ~WellFormed(file, kind),
         offset' \in Nat, numTlvs' \in Nat, remaining' \in Nat
  PROVE  WalkInv'
<1>1. TypeOK' /\ walk' = "failed"
  BY DEF WalkInv, TypeOK
<1>2. ~WellFormed(file', kind')
  OBVIOUS
<1>3. QED
  BY <1>1, <1>2 DEF WalkInv

\* The walk is past a field that is not the last.
LEMMA FieldDone ==
  ASSUME WalkInv, walk \in {"header", "value"}, UNCHANGED <<kind, file>>,
         offset' \in Nat, offset' <= Len(file), remaining' \in Nat, numTlvs' = numTlvs + 1,
         NextField(numTlvs'), file[1] = FIELD_TYPE_MAGIC, MagicOK,
         NEW pos, pos \in [1..(numTlvs + 1) -> 0..Len(file)], pos[1] = 0,
         \A i \in 1..numTlvs : /\ pos[i] + Header <= Len(file)
                               /\ pos[i + 1] = FieldEnd(file, pos[i])
                               /\ file[pos[i] + 1] # FIELD_TYPE_EOF,
         pos[numTlvs + 1] + Header <= Len(file), FieldEnd(file, pos[numTlvs + 1]) = offset',
         file[pos[numTlvs + 1] + 1] # FIELD_TYPE_EOF,
         \A n, c : IsChain(n, c) => numTlvs + 2 <= n /\ c[numTlvs + 2] = offset'
  PROVE  WalkInv'
<1>1. numTlvs \in Nat /\ file \in Seq(Nat) /\ Len(file) \in Nat /\ numTlvs < MAX_TLVS
  BY DEF WalkInv, TypeOK
<1>2. numTlvs' \in Nat /\ numTlvs' + 1 = numTlvs + 2 /\ numTlvs' > 0
  BY <1>1
<1>3. CASE numTlvs' < MAX_TLVS
  <2>1. walk' = "header"
    BY <1>3 DEF NextField
  <2>2. TypeOK' /\ FirstOK'
    <3>1. MagicOK'
      BY DEF MagicOK
    <3>2. TypeOK'
      BY <1>2, <2>1 DEF WalkInv, TypeOK
    <3>3. FirstOK'
      BY <1>2, <2>1, <3>1 DEF FirstOK
    <3>4. QED
      BY <3>2, <3>3
  <2>3. \E b : Behind(b)'
    <3>0. PICK b : b = [i \in 1..(numTlvs + 2) |-> IF i <= numTlvs + 1 THEN pos[i] ELSE offset']
      OBVIOUS
    <3>1. b \in [1..(numTlvs' + 1) -> 0..Len(file')] /\ b[1] = 0 /\ b[numTlvs' + 1] = offset'
      BY <1>1, <1>2, <3>0
    <3>2. ASSUME NEW i \in 1..numTlvs'
          PROVE  /\ b[i] + Header <= Len(file) /\ b[i + 1] = FieldEnd(file, b[i])
                 /\ file[b[i] + 1] # FIELD_TYPE_EOF
      <4>1. b[i] = pos[i]
        BY <1>1, <3>0
      <4>2. CASE i <= numTlvs
        <5>1. b[i + 1] = pos[i + 1] /\ i \in 1..numTlvs
          BY <1>1, <3>0, <4>2
        <5>2. QED
          BY <4>1, <5>1
      <4>3. CASE i = numTlvs + 1
        <5>1. b[i + 1] = offset'
          BY <1>1, <3>0, <4>3
        <5>2. QED
          BY <4>1, <4>3, <5>1
      <4>4. QED
        BY <1>1, <4>2, <4>3
    <3>3. Behind(b)'
      BY <2>1, <3>1, <3>2 DEF Behind, FieldEnd
    <3>4. QED
      BY <3>3
  <2>4. ASSUME NEW n, NEW c, IsChain(n, c)' PROVE Ahead(n, c)'
    <3>1. IsChain(n, c)
      BY <2>4 DEF IsChain
    <3>2. numTlvs + 2 <= n /\ c[numTlvs + 2] = offset'
      BY <3>1
    <3>3. QED
      BY <1>2, <2>1, <3>2 DEF Ahead
  <2>5. QED
    BY <1>3, <2>1, <2>2, <2>3, <2>4 DEF WalkInv
<1>4. CASE ~(numTlvs' < MAX_TLVS)
  <2>1. walk' = "failed"
    BY <1>4 DEF NextField
  <2>2. ~WellFormed(file, kind)
    <3> SUFFICES ASSUME WellFormed(file, kind) PROVE FALSE
      OBVIOUS
    <3>1. PICK n, c : IsChain(n, c)
      BY ChainOfWellFormed
    <3>2. numTlvs + 2 <= n /\ n \in 2..MAX_TLVS
      BY <3>1 DEF IsChain
    <3>3. QED
      BY <1>1, <1>4, <3>2, BinaryConstants
  <2>3. QED
    BY <1>2, <2>1, <2>2, GivesUp
<1>5. QED
  BY <1>3, <1>4

\* Reading a header keeps the invariant.
LEMMA HeaderKeeps == WalkInv /\ ReadHeader => WalkInv'
<1> SUFFICES ASSUME WalkInv, ReadHeader PROVE WalkInv'
  OBVIOUS
<1> DEFINE type == file[offset + 1]
           len == file[offset + 2]
           bad == ReadLength(offset, Header) < Header \/ (numTlvs = 0 /\ type # FIELD_TYPE_MAGIC)
<1>1. /\ walk = "header" /\ kind' = kind /\ file' = file
      /\ bad => walk' = "failed" /\ UNCHANGED <<offset, numTlvs, remaining>>
      /\ ~bad /\ type = FIELD_TYPE_EOF => walk' = "passed" /\ UNCHANGED <<offset, numTlvs, remaining>>
      /\ ~bad /\ type # FIELD_TYPE_EOF =>
           /\ offset' = offset + Header /\ remaining' = len
           /\ IF len > 0 THEN walk' = "value" /\ numTlvs' = numTlvs
              ELSE numTlvs' = numTlvs + 1 /\ NextField(numTlvs')
  BY DEF ReadHeader
<1>2. /\ kind \in Kinds /\ file \in Seq(Nat) /\ offset \in Nat /\ numTlvs \in Nat
      /\ remaining \in Nat /\ Len(file) \in Nat /\ Header = 2
      /\ offset <= Len(file) /\ numTlvs < MAX_TLVS /\ FirstOK
      /\ \A n, pos : IsChain(n, pos) => Ahead(n, pos)
  BY <1>1, BinaryConstants DEF WalkInv, TypeOK
<1>3. PICK pos : Behind(pos)
  BY <1>1 DEF WalkInv
<1>4. /\ pos \in [1..(numTlvs + 1) -> 0..Len(file)] /\ pos[1] = 0 /\ pos[numTlvs + 1] = offset
      /\ \A i \in 1..numTlvs : /\ pos[i] + Header <= Len(file)
                               /\ pos[i + 1] = FieldEnd(file, pos[i])
                               /\ file[pos[i] + 1] # FIELD_TYPE_EOF
  BY <1>1, <1>3 DEF Behind
<1>5. ReadLength(offset, Header) < Header <=> offset + Header > Len(file)
  BY <1>2 DEF ReadLength
<1> HIDE DEF bad
<1>6. CASE bad
  <2>1. ~WellFormed(file, kind)
    <3> SUFFICES ASSUME WellFormed(file, kind) PROVE FALSE
      OBVIOUS
    <3>1. PICK n, c : IsChain(n, c)
      BY ChainOfWellFormed
    <3>2. numTlvs + 1 <= n /\ c[numTlvs + 1] = offset /\ n \in Nat
      BY <1>1, <1>2, <3>1, BinaryConstants DEF Ahead, IsChain
    <3>3. numTlvs + 1 \in 1..n
      BY <1>2, <3>2
    <3>4. offset + Header <= Len(file)
      BY <3>1, <3>2, <3>3, InChain
    <3>5. numTlvs = 0 => type = FIELD_TYPE_MAGIC
      BY <1>1, <1>2, ChainOfWellFormed DEF FirstOK
    <3>6. QED
      BY <1>2, <1>5, <1>6, <3>4, <3>5 DEF bad
  <2>2. QED
    BY <1>1, <1>2, <1>6, <2>1, GivesUp
<1>7. CASE ~bad
  <2>1. offset + Header <= Len(file) /\ (numTlvs = 0 => type = FIELD_TYPE_MAGIC)
    BY <1>2, <1>5, <1>7 DEF bad
  <2>2. numTlvs = 0 => offset = 0 /\ file[1] = type /\ file[2] = len
    BY <1>1, <1>2 DEF FirstOK
  <2>3. file[1] = FIELD_TYPE_MAGIC /\ (numTlvs > 0 => MagicOK)
    BY <1>1, <1>2, <2>1, <2>2 DEF FirstOK
  <2>4. len \in Nat /\ type \in Nat
    BY <1>2, <2>1
  <2>5. CASE type = FIELD_TYPE_EOF
    <3>1. walk' = "passed" /\ UNCHANGED <<offset, numTlvs, remaining>>
      BY <1>1, <1>7, <2>5
    <3>2. numTlvs > 0
      BY <1>2, <2>1, <2>5, BinaryConstants
    <3>3. WellFormed(file, kind)
      <4> DEFINE n == numTlvs + 1
      <4>1. n \in 2..MAX_TLVS
        BY <1>2, <3>2, BinaryConstants
      <4>2. \A i \in 1..n : i \in 1..numTlvs \/ i = n
        BY <1>2
      <4>3. \A i \in 1..n : pos[i] + Header <= Len(file)
        BY <1>4, <2>1, <4>2
      <4>4. \A i \in 1..(n - 1) : pos[i + 1] = FieldEnd(file, pos[i]) /\ file[pos[i] + 1] # FIELD_TYPE_EOF
        BY <1>2, <1>4
      <4>5. file[pos[n] + 1] = FIELD_TYPE_EOF
        BY <1>4, <2>5
      <4>6. Chain(file, n, pos) /\ pos \in [1..n -> 0..Len(file)]
        BY <1>4, <4>3, <4>4, <4>5 DEF Chain
      <4>7. MagicOK
        BY <2>3, <3>2
      <4> HIDE DEF n
      <4>8. QED
        BY <2>3, <4>1, <4>6, <4>7 DEF WellFormed, MagicOK
    <3>4. TypeOK'
      BY <1>1, <1>2, <3>1 DEF TypeOK
    <3>5. QED
      BY <1>1, <3>1, <3>3, <3>4 DEF WalkInv
  <2>6. CASE type # FIELD_TYPE_EOF /\ len > 0
    <3>1. walk' = "value" /\ numTlvs' = numTlvs /\ offset' = offset + Header /\ remaining' = len
      BY <1>1, <1>7, <2>6
    <3>2. FieldEnd(file, offset) = offset' + remaining'
      BY <1>2, <2>4, <3>1 DEF FieldEnd
    <3>3. Behind(pos)'
      BY <1>1, <1>4, <2>1, <2>6, <3>1, <3>2 DEF Behind, FieldEnd
    <3>4. ASSUME NEW n, NEW c, IsChain(n, c)' PROVE Ahead(n, c)'
      <4>1. IsChain(n, c)
        BY <1>1, <3>4 DEF IsChain
      <4>2. QED
        BY <1>1, <2>6, <3>1, <3>2, <4>1, NotLast DEF Ahead
    <3>5. TypeOK' /\ offset' <= Len(file')
      BY <1>1, <1>2, <2>1, <2>4, <3>1 DEF TypeOK
    <3>6. FirstOK'
      BY <1>1, <1>2, <2>2, <2>3, <2>6, <3>1 DEF FirstOK, MagicOK
    <3>7. QED
      BY <1>1, <1>2, <2>6, <3>1, <3>3, <3>4, <3>5, <3>6 DEF WalkInv
  <2>7. CASE type # FIELD_TYPE_EOF /\ ~(len > 0)
    <3>1. /\ offset' = offset + Header /\ remaining' = len /\ numTlvs' = numTlvs + 1
          /\ NextField(numTlvs')
      BY <1>1, <1>7, <2>7
    <3>2. len = 0 /\ FieldEnd(file, offset) = offset'
      BY <1>2, <2>4, <2>7, <3>1 DEF FieldEnd
    <3>3. MagicOK
      BY <1>2, <2>2, <2>3, <3>2 DEF MagicOK
    <3>4. \A n, c : IsChain(n, c) => numTlvs + 2 <= n /\ c[numTlvs + 2] = offset'
      BY <1>1, <2>7, <3>2, NotLast
    <3>5. offset' \in Nat /\ offset' <= Len(file) /\ remaining' \in Nat
      BY <1>2, <2>1, <2>4, <3>1
    <3>6. QED
      BY <1>1, <1>4, <2>1, <2>3, <2>7, <3>1, <3>2, <3>3, <3>4, <3>5, FieldDone
  <2>8. QED
    BY <2>5, <2>6, <2>7
<1>8. QED
  BY <1>6, <1>7

\* Reading a piece of a value keeps the invariant.
LEMMA ValueKeeps == WalkInv /\ ReadValue => WalkInv'
<1> SUFFICES ASSUME WalkInv, ReadValue PROVE WalkInv'
  OBVIOUS
<1> DEFINE n == ReadLength(offset, remaining)
           same == SubSeq(file, offset + 1, offset + Magic) = MagicNumber[kind]
           wrong == numTlvs = 0 /\ (n < Magic \/ ~same)
<1>1. /\ walk = "value" /\ kind' = kind /\ file' = file
      /\ n = 0 \/ wrong => walk' = "failed" /\ UNCHANGED <<offset, numTlvs, remaining>>
      /\ ~(n = 0 \/ wrong) =>
           /\ offset' = offset + n /\ remaining' = remaining - n
           /\ IF remaining' > 0 THEN walk' = walk /\ numTlvs' = numTlvs
              ELSE numTlvs' = numTlvs + 1 /\ NextField(numTlvs')
  BY DEF ReadValue
<1>2. /\ kind \in Kinds /\ file \in Seq(Nat) /\ offset \in Nat /\ numTlvs \in Nat
      /\ remaining \in Nat /\ remaining > 0 /\ Len(file) \in Nat
      /\ offset <= Len(file) /\ numTlvs < MAX_TLVS /\ FirstOK
      /\ \A c, pos : IsChain(c, pos) => Ahead(c, pos)
  BY <1>1 DEF WalkInv, TypeOK
<1>3. PICK pos : Behind(pos)
  BY <1>1 DEF WalkInv
<1>4. /\ pos \in [1..(numTlvs + 1) -> 0..Len(file)] /\ pos[1] = 0
      /\ \A i \in 1..numTlvs : /\ pos[i] + Header <= Len(file)
                               /\ pos[i + 1] = FieldEnd(file, pos[i])
                               /\ file[pos[i] + 1] # FIELD_TYPE_EOF
      /\ pos[numTlvs + 1] + Header <= Len(file)
      /\ FieldEnd(file, pos[numTlvs + 1]) = offset + remaining
      /\ file[pos[numTlvs + 1] + 1] # FIELD_TYPE_EOF
  BY <1>1, <1>3 DEF Behind
<1>5. /\ n \in 0..remaining /\ offset + n <= Len(file)
      /\ n < remaining => offset + n = Len(file)
  BY <1>2, Delivered
<1>6. /\ file[1] = FIELD_TYPE_MAGIC /\ (numTlvs > 0 => MagicOK)
      /\ numTlvs = 0 => file[2] > 0 /\ (offset = Len(file) \/ (offset = Header /\ remaining = file[2]))
  BY <1>1, <1>2 DEF FirstOK
<1>7. Magic = 2 /\ Header = 2
  BY BinaryConstants
\* What MagicOK says of the cells a read at Header delivers.
<1>8. offset = Header => (MagicOK <=> file[2] = 0 \/ (file[2] >= Magic /\ same))
  BY DEF MagicOK
<1> HIDE DEF n, same
<1>9. CASE n = 0 \/ wrong
  <2>1. ~WellFormed(file, kind)
    <3> SUFFICES ASSUME WellFormed(file, kind) PROVE FALSE
      OBVIOUS
    <3>1. PICK c, b : IsChain(c, b)
      BY ChainOfWellFormed
    <3>2. numTlvs + 2 <= c /\ b[numTlvs + 2] = offset + remaining /\ c \in Nat
      <4>1. Ahead(c, b) /\ c \in 2..MAX_TLVS
        BY <1>2, <3>1 DEF IsChain
      <4>2. QED
        BY <1>1, <4>1, BinaryConstants DEF Ahead
    <3>3. numTlvs + 2 \in 1..c
      BY <1>2, <3>2
    <3>4. offset + remaining <= Len(file)
      <4>1. b[numTlvs + 2] \in 0..Len(file)
        BY <3>1, <3>3, InChain
      <4>2. QED
        BY <1>2, <3>2, <4>1
    <3>5. n = remaining
      BY <1>2, <1>5, <3>4
    <3>6. wrong
      BY <1>2, <1>9, <3>5
    <3>7. numTlvs = 0 /\ offset = Header /\ remaining = file[2]
      BY <1>2, <1>6, <3>4, <3>6
    <3>8. MagicOK
      BY ChainOfWellFormed
    <3>9. n >= Magic /\ same
      BY <1>2, <1>8, <3>5, <3>7, <3>8
    <3>10. QED
      BY <1>2, <1>5, <1>7, <3>6, <3>9
  <2>2. QED
    BY <1>1, <1>2, <1>9, <2>1, GivesUp
<1>10. CASE ~(n = 0 \/ wrong)
  <2>1. /\ offset' = offset + n /\ remaining' = remaining - n
        /\ IF remaining' > 0 THEN walk' = walk /\ numTlvs' = numTlvs
           ELSE numTlvs' = numTlvs + 1 /\ NextField(numTlvs')
    BY <1>1, <1>10
  <2>2. /\ offset' \in Nat /\ remaining' \in Nat /\ offset' <= Len(file)
        /\ offset' + remaining' = offset + remaining
    BY <1>2, <1>5, <2>1
  <2>3. CASE remaining' > 0
    <3>1. walk' = "value" /\ numTlvs' = numTlvs /\ offset' = Len(file)
      BY <1>1, <1>2, <1>5, <2>1, <2>3
    <3>2. TypeOK'
      BY <1>1, <1>2, <2>2, <3>1 DEF TypeOK
    <3>3. FirstOK'
      BY <1>1, <1>2, <1>6, <3>1 DEF FirstOK, MagicOK
    <3>4. Behind(pos)'
      BY <1>1, <1>4, <2>2, <3>1 DEF Behind, FieldEnd
    <3>5. ASSUME NEW c, NEW b, IsChain(c, b)' PROVE Ahead(c, b)'
      <4>1. IsChain(c, b)
        BY <1>1, <3>5 DEF IsChain
      <4>2. Ahead(c, b)
        BY <1>2, <4>1
      <4>3. QED
        BY <1>1, <2>2, <3>1, <4>2 DEF Ahead
    <3>6. QED
      BY <1>1, <1>2, <2>2, <2>3, <3>1, <3>2, <3>3, <3>4, <3>5 DEF WalkInv
  <2>4. CASE ~(remaining' > 0)
    <3>1. /\ numTlvs' = numTlvs + 1 /\ NextField(numTlvs')
          /\ remaining' = 0 /\ n = remaining /\ offset' = offset + remaining
      BY <1>2, <1>5, <2>1, <2>2, <2>4
    <3>2. MagicOK
      <4>1. CASE numTlvs = 0
        <5>1. n >= Magic /\ same
          BY <1>5, <1>7, <1>10, <4>1
        <5>2. offset = Header /\ remaining = file[2]
          BY <1>2, <1>5, <1>6, <3>1, <4>1
        <5>3. QED
          BY <1>8, <3>1, <5>1, <5>2
      <4>2. CASE numTlvs # 0
        BY <1>2, <1>6, <4>2
      <4>3. QED
        BY <4>1, <4>2
    <3>3. ASSUME NEW c, NEW b, IsChain(c, b) PROVE numTlvs + 2 <= c /\ b[numTlvs + 2] = offset'
      BY <1>1, <1>2, <3>1, <3>3 DEF Ahead
    <3>4. QED
      BY <1>1, <1>4, <1>6, <2>2, <3>1, <3>2, <3>3, FieldDone
  <2>5. QED
    BY <2>3, <2>4
<1>11. QED
  BY <1>9, <1>10

\* No file has been looked at.
LEMMA WalkInvInit == InitBinary => WalkInv
<1> SUFFICES ASSUME InitBinary PROVE WalkInv
  OBVIOUS
<1>1. <<>> \in Seq(Nat)
  OBVIOUS
<1>2. QED
  BY <1>1 DEF InitBinary, WalkInv, TypeOK, Kinds

\* Where nothing of the walk changes, it holds on; and a walk that has ended is forgotten.
LEMMA WalkStays == WalkInv /\ UNCHANGED binary => WalkInv'
<1> SUFFICES ASSUME WalkInv, UNCHANGED binary PROVE WalkInv'
  OBVIOUS
<1>1. /\ kind' = kind /\ file' = file /\ offset' = offset /\ numTlvs' = numTlvs
      /\ remaining' = remaining /\ walk' = walk
  BY DEF binary
<1>2. TypeOK' = TypeOK /\ FirstOK' = FirstOK /\ WellFormed(file, kind)' = WellFormed(file, kind)
  BY <1>1 DEF TypeOK, FirstOK, MagicOK
<1>3. /\ \A pos : Behind(pos) => Behind(pos)'
      /\ \A n, pos : IsChain(n, pos)' => IsChain(n, pos)
      /\ \A n, pos : Ahead(n, pos) => Ahead(n, pos)'
  BY <1>1 DEF Behind, IsChain, Ahead, FieldEnd
<1>4. QED
  BY <1>1, <1>2, <1>3 DEF WalkInv

LEMMA WalkEndsKeeps == WalkInv /\ WalkEnds => WalkInv'
  BY DEF WalkInv, TypeOK, WalkEnds

\* The verdict on a file is right: the walk over types and lengths, piece by piece, passes
\* exactly the files with a right magic number and an EOF among the first MAX_TLVS fields
\* (execute_fw_bcf_test).
THEOREM VerdictIsRight == BSpec => []VerdictRight
<1>1. BInit => WalkInv
  BY WalkInvInit DEF BInit
<1>2. WalkInv /\ [BNext]_binary => WalkInv'
  BY BeginKeeps, HeaderKeeps, ValueKeeps, WalkStays DEF BNext, WalkStep
<1>3. WalkInv => VerdictRight
  <2> SUFFICES ASSUME WalkInv, walk \in {"passed", "failed"}
               PROVE  (walk = "passed") = WellFormed(file, kind)
    BY DEF VerdictRight
  <2>1. walk = "passed" <=> WellFormed(file, kind)
    BY DEF WalkInv
  <2>2. WellFormed(file, kind) \in BOOLEAN
    BY DEF WellFormed
  <2>3. QED
    BY <2>1, <2>2
<1>4. QED
  BY <1>1, <1>2, <1>3, PTL DEF BSpec

-----------------------------------------------------------------------------
(* The runner *)

Types ==
  /\ step \in 1..13 /\ cores \in {1, 2} /\ chipKind \in {"mm6108", "mm8108", "other"}
  /\ psMode \in BOOLEAN /\ wired \in BOOLEAN
  /\ cfg \in 1..2 /\ intr \in {"DISABLE", "POSEDGE"}
  /\ {faults, tries, toggles, count, now, txOffset} \subseteq Nat

\* The chip boots, takes commands, and is identified, in this order; a chip that was clocked
\* too early was given too little time.
ChipOK ==
  /\ step >= 8 => chip = "ready"
  /\ step = 7 /\ at = "returned" /\ result # "FAILED" => chip = "ready"
  /\ step >= 7 \/ (step = 6 /\ at = "returned") => (chip = "booting" => faults > 0)
  /\ chip = "lost" => faults > 0
  /\ step > 8 \/ (step = 8 /\ at = "returned" /\ result # "FAILED") => probed = chipKind

\* The buffers of a transfer live while it runs.
HeapOK ==
  /\ heap \subseteq {"buf", "buf1", "tx_data", "rx_data"}
  /\ heap \cap {"buf", "buf1"} # {} => faults > 0
  /\ heap \cap {"tx_data", "rx_data"} # {} => at \in {"loop", "write", "read", "validate", "free"}

\* The handler and the interrupt type of the BUSY test are set while it runs.
IrqOK ==
  /\ handler = "test" =>
       step = 9 /\ at \in {"enable", "clear", "raise", "raised", "fall", "fallen", "count",
                           "disable", "recount", "off", "unregister"}
  /\ intr = "POSEDGE" =>
       step = 9 /\ at \in {"clear", "raise", "raised", "fall", "fallen", "count",
                           "disable", "recount", "off"}
  /\ handler # "test" => count = 0

\* BUSY was seen before the test goes on.
SeenOK ==
  step = 9 =>
    /\ at \in {"fall", "fallen", "count", "disable", "recount"} => wired
    /\ at \in {"raise", "raised"} /\ toggles > 0 => wired
    /\ at \in {"off", "unregister", "returned"} /\ result = "PASSED" => wired

\* What the write test reads back it has written, or rx_data still shows that it did not.
BulkOK ==
  /\ step <= 10 => txOffset = 0
  /\ step = 10 =>
       /\ at \in {"write", "read"} => rx = {Junk}
       /\ at = "validate" => rx = mem \/ Junk \in rx
       /\ at \in {"free", "returned"} /\ result = "PASSED" => mem = {0}

\* The verdict that is returned is the walk's.
FileOK ==
  /\ WalkInv
  /\ walk # "idle" => step \in {12, 13} /\ at = "walk"
  /\ step \in {12, 13} /\ at = "returned" =>
       /\ result = "PASSED" => WellFormed(file, kind)
       /\ result \in {"FAILED", "FAILED_NON_CRITICAL"} => ~WellFormed(file, kind)

SafeInv == Types /\ ChipOK /\ HeapOK /\ IrqOK /\ SeenOK /\ BulkOK /\ FileOK

-----------------------------------------------------------------------------
\* Where a platform on which nothing fails is.
GoodOs ==
  /\ step = 4 => /\ at = "created" => newTask \in {"NOT_STARTED", "STARTED"}
                 /\ at = "check" => newTask = "STARTED"
                 /\ at = "sleep" => newTask \in {"STARTED", "TERMINATING"}
  /\ step > 5 \/ (step = 5 /\ at = "returned") => spi

GoodChip ==
  /\ step = 6 /\ at = "settle" => chip \in {"booting", "idle"}
  /\ step = 6 /\ at = "returned" => chip = "idle"
  /\ step = 7 /\ at = "begin" => chip = "idle"
  /\ step < 8 => cfg = 1
  /\ step = 8 /\ cfg = 2 => chipKind # "mm6108"

\* How many edges BUSY's interrupt has had to count.
Edges == IF toggles < 2 THEN toggles ELSE 2

GoodBusy ==
  /\ step < 9 \/ (step = 9 /\ at = "begin") => handler = "none" /\ out = 0 /\ ~pending
  /\ step = 9 /\ at \notin {"begin", "returned", "end"} =>
       /\ oe /\ wired
       /\ at \in {"output", "register"} => out = 0 /\ handler = "none" /\ ~pending
       /\ at = "enable" => out = 0 /\ handler = "test" /\ ~pending
       /\ at = "clear" => out = 0 /\ handler = "test" /\ intr = "POSEDGE"
       /\ at \in {"raise", "raised", "fall", "fallen", "count", "disable", "recount"} =>
            /\ handler = "test" /\ toggles <= 4
            /\ at # "disable" => (intr = "POSEDGE" <=> (toggles < 2 \/ at = "count"))
            /\ at \in {"raised", "fall"} <=> out = 1
            /\ at # "raised" => ~pending
            /\ at = "raised" /\ pending => toggles < 2 /\ count = toggles
            /\ at = "raised" /\ ~pending => count = IF toggles < 2 THEN toggles + 1 ELSE 2
            /\ at \in {"fall", "fallen"} => toggles < 4 /\ count = IF toggles < 2 THEN toggles + 1 ELSE 2
            /\ at = "raise" => count = Edges /\ toggles < 4
            /\ at = "raised" => toggles < 4
            /\ at \in {"count", "disable"} => toggles = 2 /\ count = 2
            /\ at = "recount" => count = 2
       /\ at \in {"off", "unregister"} => result = "PASSED"

GoodBulk ==
  /\ step < 11 \/ (step = 11 /\ at = "begin") => now = 0
  /\ step = 10 => /\ at = "read" => mem = {Pattern}
                  /\ at = "validate" => rx = {Pattern}
                  /\ at = "free" => result = "PASSED"
  /\ step = 11 => /\ at = "loop" => now = 0 \/ rx = {Pattern}
                  /\ at = "read" => mem = {Pattern}
                  /\ at = "validate" => rx = {Pattern}
                  /\ at = "free" => result = "PASSED"

\* No step has failed: a bad file's excepted.
NoneFailed ==
  at = "returned" /\ step < 12 => result \notin {"FAILED", "FAILED_NON_CRITICAL"}

Good == faults = 0 /\ cores = 1 /\ chipKind # "other" /\ (psMode => wired)

GoodInv == Good => GoodOs /\ GoodChip /\ GoodBusy /\ GoodBulk /\ NoneFailed

-----------------------------------------------------------------------------
(* Steps by number *)

\* Each test step has its place in the list.
LEMMA StepNames ==
  ASSUME step \in 1..13
  PROVE  /\ test_steps[step] = "os_malloc" <=> step = 1
         /\ test_steps[step] = "os_realloc" <=> step = 2
         /\ test_steps[step] = "os_time" <=> step = 3
         /\ test_steps[step] = "os_task_creation" <=> step = 4
         /\ test_steps[step] = "wlan_init" <=> step = 5
         /\ test_steps[step] = "hard_reset" <=> step = 6
         /\ test_steps[step] = "sdio_startup" <=> step = 7
         /\ test_steps[step] = "read_chip_id" <=> step = 8
         /\ test_steps[step] = "verify_busy_pin" <=> step = 9
         /\ test_steps[step] = "bulk_write_read" <=> step = 10
         /\ test_steps[step] = "raw_tput" <=> step = 11
         /\ test_steps[step] = "validate_fw" <=> step = 12
         /\ test_steps[step] = "validate_bcf" <=> step = 13
         /\ Len(test_steps) = 13
<1>1. \/ step = 1 \/ step = 2 \/ step = 3 \/ step = 4 \/ step = 5 \/ step = 6 \/ step = 7
      \/ step = 8 \/ step = 9 \/ step = 10 \/ step = 11 \/ step = 12 \/ step = 13
  OBVIOUS
<1>2. QED
  BY <1>1 DEF test_steps

-----------------------------------------------------------------------------
(* The actions, by what they belong to *)

OsStep   == OsMalloc \/ OsRealloc \/ OsTime \/ CreateTask \/ CreateReturns \/ CheckStarted
            \/ CheckTerminating
ChipStep == StepWlanInit \/ HardResetLow \/ HardResetHigh \/ HardResetSettled \/ SdioStartup
            \/ ReadChipId \/ ReadChipIdFails
BusyStep == BusySkipped \/ BusyOutput \/ BusyLow \/ BusyHandler \/ BusyEnable \/ BusyClear
            \/ BusyRaise \/ BusyFall \/ BusyRaised \/ BusyFallen \/ BusyCount \/ BusyDisable
            \/ BusyRecount \/ BusyOff \/ BusyUnregister
BulkStep == Alloc \/ Loop \/ Write \/ Read \/ Validate \/ Free
FileStep == ValidateBegins \/ ValidateWalks \/ ValidateEnds
OtherTask == NewTaskStarts \/ NewTaskWakes

\* The walk, where no file is read.
LEMMA NoFile == SafeInv /\ UNCHANGED binary => WalkInv'
  BY WalkStays DEF SafeInv, FileOK

\* A platform's faults are counted, the platform stays the same.
LEMMA SamePlatform ==
  ASSUME SafeInv, Fine \/ Fault
  PROVE  /\ faults' \in Nat /\ faults' >= faults /\ (faults > 0 => faults' > 0)
         /\ psMode' = psMode /\ cores' = cores /\ chipKind' = chipKind
         /\ Fault => faults' > 0
  BY DEF SafeInv, Types, Fine, Fault, platform

\* What the steps of test_os.c leave alone.
LEMMA OsLeaves ==
  ASSUME SafeInv, OsStep
  PROVE  /\ step \in 1..4 /\ step' = step /\ UNCHANGED <<io, hal, binary>>
         /\ Fine \/ Fault
         /\ \/ heap' = heap
            \/ Fault /\ heap' \in {heap, heap \cup {"buf"}, heap \cup {"buf1"}}
         /\ at \in {"begin", "created", "check", "sleep"}
         /\ at' \in {"returned", "created", "check", "sleep"}
  BY StepNames DEF SafeInv, Types, OsStep, OsMalloc, OsRealloc, OsTime, CreateTask, CreateReturns,
     CheckStarted, CheckTerminating, In, Returns, Goes, Fine, Fault, platform, osal

\* An action whose step changes neither the device nor the files keeps their parts.
LEMMA OsKeeps == SafeInv /\ OsStep => SafeInv'
<1> SUFFICES ASSUME SafeInv, OsStep PROVE SafeInv'
  OBVIOUS
<1>1. /\ step \in 1..4 /\ step' = step
      /\ at \in {"begin", "created", "check", "sleep"}
      /\ at' \in {"returned", "created", "check", "sleep"}
      /\ UNCHANGED <<cfg, tries, probed, count, toggles, mem, rx, txOffset, now, ret, ok,
                     resetN, cs, spi, chip, wired, oe, out, handler, intr, pending>>
      /\ UNCHANGED binary /\ UNCHANGED <<kind, file, walk>>
  BY OsLeaves DEF io, chipId, irq, bulk, hal, power, busy, binary
<1>2. /\ faults' \in Nat /\ (faults > 0 => faults' > 0) /\ UNCHANGED <<psMode, cores, chipKind>>
      /\ \/ heap' = heap
         \/ faults' > 0 /\ heap' \in {heap, heap \cup {"buf"}, heap \cup {"buf1"}}
  BY OsLeaves, SamePlatform
<1>3. Types'
  BY <1>1, <1>2 DEF SafeInv, Types
<1>4. ChipOK'
  BY <1>1, <1>2 DEF SafeInv, ChipOK
<1>5. HeapOK'
  BY <1>1, <1>2 DEF SafeInv, HeapOK
<1>6. IrqOK' /\ SeenOK' /\ BulkOK'
  BY <1>1 DEF SafeInv, IrqOK, SeenOK, BulkOK
<1>7. FileOK'
  BY <1>1, NoFile DEF SafeInv, FileOK
<1>8. QED
  BY <1>3, <1>4, <1>5, <1>6, <1>7 DEF SafeInv

\* The created task is of no concern to them.
LEMMA OtherTaskKeeps == SafeInv /\ OtherTask => SafeInv'
<1> SUFFICES ASSUME SafeInv, OtherTask PROVE SafeInv'
  OBVIOUS
<1>1. UNCHANGED <<runner, heap, io, hal, binary>> /\ (Fine \/ Fault)
  BY DEF OtherTask, NewTaskStarts, NewTaskWakes, Fine
<1>2. /\ UNCHANGED <<step, at, result, heap, cfg, tries, probed, count, toggles, mem, rx,
                     txOffset, now, chip, wired, handler, intr>>
      /\ UNCHANGED binary /\ UNCHANGED <<kind, file, walk>>
  BY <1>1 DEF runner, io, chipId, irq, bulk, hal, power, busy, binary
<1>3. faults' \in Nat /\ (faults > 0 => faults' > 0) /\ UNCHANGED <<psMode, cores, chipKind>>
  BY <1>1, SamePlatform
<1>4. Types' /\ ChipOK' /\ HeapOK' /\ IrqOK' /\ SeenOK' /\ BulkOK'
  BY <1>2, <1>3 DEF SafeInv, Types, ChipOK, HeapOK, IrqOK, SeenOK, BulkOK
<1>5. FileOK'
  BY <1>2, NoFile DEF SafeInv, FileOK
<1>6. QED
  BY <1>4, <1>5 DEF SafeInv

\* What the steps from power-up to the chip id leave alone.
LEMMA ChipLeaves ==
  ASSUME SafeInv, ChipStep
  PROVE  /\ step \in 5..8 /\ step' = step /\ UNCHANGED <<osal, irq, bulk, binary>>
         /\ UNCHANGED <<wired, oe, out, handler, pending>> /\ intr' \in {"DISABLE", intr}
         /\ Fine \/ Fault
         /\ at \in {"begin", "low", "settle"} /\ at' \in {"begin", "returned", "low", "settle"}
  BY StepNames DEF SafeInv, Types, ChipStep, StepWlanInit, HardResetLow, HardResetHigh,
     HardResetSettled, SdioStartup, ReadChipId, ReadChipIdFails, In, Returns, Goes, Fine, Fault,
     platform, io, WlanInit, ResetLow, ResetHigh, Clock, hal, busy, power

\* They keep the order in which the chip becomes usable.
LEMMA ChipStepOK ==
  ASSUME SafeInv, ChipStep
  PROVE  ChipOK' /\ cfg' \in 1..2 /\ tries' \in Nat
<1>1. /\ step \in 5..8 /\ step' = step /\ faults \in Nat /\ tries \in Nat /\ cfg \in 1..2
      /\ faults' \in Nat /\ (faults > 0 => faults' > 0) /\ chipKind' = chipKind /\ (Fault => faults' > 0)
  BY ChipLeaves, SamePlatform DEF SafeInv, Types
<1>2. CASE StepWlanInit
  BY <1>1, <1>2, StepNames DEF StepWlanInit, WlanInit, In, Returns, SafeInv, Types, ChipOK, io, chipId
<1>3. CASE HardResetLow \/ HardResetHigh \/ HardResetSettled
  BY <1>1, <1>3, StepNames DEF HardResetLow, HardResetHigh, HardResetSettled, ResetLow, ResetHigh, In,
     Returns, Goes, SafeInv, Types, ChipOK, io, chipId, hal, power
<1>4. CASE SdioStartup
  BY <1>1, <1>4, StepNames DEF SdioStartup, Clock, In, Returns, SafeInv, Types, ChipOK, io, chipId
<1>5. CASE ReadChipId
  <2>1. Len(chip_cfgs) = 2
    BY DEF chip_cfgs
  <2>2. QED
    BY <1>1, <1>5, <2>1, StepNames DEF ReadChipId, In, Returns, Goes, SafeInv, Types, ChipOK, hal, power
<1>6. CASE ReadChipIdFails
  BY <1>1, <1>6, StepNames DEF ReadChipIdFails, In, Returns, Goes, SafeInv, Types, ChipOK, hal, power
<1>7. QED
  BY <1>2, <1>3, <1>4, <1>5, <1>6 DEF ChipStep

\* The steps up to the chip's id establish ChipOK.
LEMMA ChipKeeps == SafeInv /\ ChipStep => SafeInv'
<1> SUFFICES ASSUME SafeInv, ChipStep PROVE SafeInv'
  OBVIOUS
<1>1. /\ step \in 5..8 /\ step' = step /\ intr' \in {"DISABLE", intr}
      /\ at \in {"begin", "low", "settle"} /\ at' \in {"begin", "returned", "low", "settle"}
      /\ UNCHANGED <<heap, count, toggles, mem, rx, txOffset, now, wired, handler>>
      /\ UNCHANGED binary /\ UNCHANGED <<kind, file, walk>>
  BY ChipLeaves DEF osal, irq, bulk, binary
<1>2. faults' \in Nat /\ (faults > 0 => faults' > 0) /\ UNCHANGED <<psMode, cores, chipKind>>
  BY ChipLeaves, SamePlatform
<1>3. Types' /\ ChipOK'
  BY <1>1, <1>2, ChipStepOK DEF SafeInv, Types
<1>4. HeapOK' /\ IrqOK' /\ SeenOK' /\ BulkOK'
  BY <1>1, <1>2 DEF SafeInv, HeapOK, IrqOK, SeenOK, BulkOK
<1>5. FileOK'
  BY <1>1, NoFile DEF SafeInv, FileOK
<1>6. QED
  BY <1>3, <1>4, <1>5 DEF SafeInv

\* The chip boots on its own.
LEMMA BootsKeeps == SafeInv /\ ChipBoots => SafeInv'
<1> SUFFICES ASSUME SafeInv, ChipBoots PROVE SafeInv'
  OBVIOUS
<1>1. UNCHANGED <<runner, platform, osal, io, binary, busy>> /\ chip = "booting" /\ chip' = "idle"
  BY DEF ChipBoots, Boots
<1>2. /\ UNCHANGED <<step, at, result, heap, cfg, tries, probed, count, toggles, mem, rx,
                     txOffset, now, wired, handler, intr, psMode, cores, chipKind, faults>>
      /\ UNCHANGED binary /\ UNCHANGED <<kind, file, walk>>
  BY <1>1 DEF runner, platform, osal, io, chipId, irq, bulk, busy, binary
<1>3. Types' /\ ChipOK' /\ HeapOK' /\ IrqOK' /\ SeenOK' /\ BulkOK'
  BY <1>1, <1>2 DEF SafeInv, Types, ChipOK, HeapOK, IrqOK, SeenOK, BulkOK
<1>4. FileOK'
  BY <1>2, NoFile DEF SafeInv, FileOK
<1>5. QED
  BY <1>3, <1>4 DEF SafeInv

\* Where the BUSY test goes on after an edge it saw fall.
LEMMA AfterFall ==
  ASSUME BusyFallen
  PROVE  IF Watched /\ BusyAsserted THEN Bad /\ toggles' = toggles
         ELSE /\ toggles' = toggles + 1
              /\ toggles' = 2 => at' = "count"
              /\ toggles' = 4 => at' = "recount"
              /\ toggles' \notin {2, 4} => at' = "raise"
              /\ UNCHANGED <<step, result, ctrs>>
<1>1. CASE Watched /\ BusyAsserted
  BY <1>1 DEF BusyFallen
<1>2. CASE ~(Watched /\ BusyAsserted)
  <2>1. /\ toggles' = toggles + 1 /\ UNCHANGED <<step, result, ctrs>>
        /\ at' = CASE toggles' = 2 -> "count" [] toggles' = 4 -> "recount" [] OTHER -> "raise"
    BY <1>2 DEF BusyFallen, Goes
  <2>2. CASE toggles' = 2
    <3>1. toggles' # 4
      BY <2>2
    <3>2. at' = "count"
      BY <2>1, <2>2, <3>1, Zenon
    <3>3. QED
      BY <1>2, <2>1, <2>2, <3>2
  <2>3. CASE toggles' = 4
    <3>1. toggles' # 2
      BY <2>3
    <3>2. at' = "recount"
      BY <2>1, <2>3, <3>1, Zenon
    <3>3. QED
      BY <1>2, <2>1, <2>3, <3>2
  <2>4. CASE toggles' \notin {2, 4}
    <3>1. toggles' # 2 /\ toggles' # 4
      BY <2>4
    <3>2. at' = "raise"
      BY <2>1, <3>1, Zenon
    <3>3. QED
      BY <1>2, <2>1, <2>4, <3>2
  <2>5. QED
    BY <2>2, <2>3, <2>4
<1>3. QED
  BY <1>1, <1>2

\* What the BUSY test leaves alone.
LEMMA BusyLeaves ==
  ASSUME SafeInv, BusyStep
  PROVE  /\ step = 9 /\ step' = step /\ UNCHANGED <<osal, chipId, bulk, binary, power, wired>>
         /\ Fine \/ Fault
<1>1. step = 9
  BY StepNames DEF SafeInv, Types, BusyStep, BusySkipped, BusyOutput, BusyLow, BusyHandler,
     BusyEnable, BusyClear, BusyRaise, BusyFall, BusyRaised, BusyFallen, BusyCount, BusyDisable,
     BusyRecount, BusyOff, BusyUnregister, Busy, In
<1>2. step' = step
  BY DEF BusyStep, BusySkipped, BusyOutput, BusyLow, BusyHandler,
     BusyEnable, BusyClear, BusyRaise, BusyFall, BusyRaised, BusyFallen, BusyCount, BusyDisable,
     BusyRecount, BusyOff, BusyUnregister, Goes, Returns, Bad
<1>3. UNCHANGED <<osal, chipId, bulk, binary, power, wired>>
  BY DEF BusyStep, BusySkipped, BusyOutput, BusyLow, BusyHandler,
     BusyEnable, BusyClear, BusyRaise, BusyFall, BusyRaised, BusyFallen, BusyCount, BusyDisable,
     BusyRecount, BusyOff, BusyUnregister, Gpio, Drive, RegisterBusyHandler, SetBusyIrq, Else, hal, busy
<1>4. Fine \/ Fault
  BY DEF BusyStep, BusySkipped, BusyOutput, BusyLow, BusyHandler,
     BusyEnable, BusyClear, BusyRaise, BusyFall, BusyRaised, BusyFallen, BusyCount, BusyDisable,
     BusyRecount, BusyOff, BusyUnregister, Gpio, Fine
<1>5. QED
  BY <1>1, <1>2, <1>3, <1>4

\* The handler is there from BusyHandler on, the interrupt type from BusyEnable on.
LEMMA BusyStepIrq ==
  ASSUME SafeInv, BusyStep
  PROVE  /\ IrqOK' /\ SeenOK' /\ {count', toggles'} \subseteq Nat /\ intr' \in {"DISABLE", "POSEDGE"}
         /\ at' \notin {"loop", "write", "read", "validate", "free", "walk"}
         /\ at \notin {"loop", "write", "read", "validate", "free", "walk"}
<1>1. /\ step = 9 /\ step' = 9 /\ wired' = wired /\ IrqOK /\ SeenOK
      /\ count \in Nat /\ toggles \in Nat /\ intr \in {"DISABLE", "POSEDGE"}
  BY BusyLeaves DEF SafeInv, Types
<1>2. CASE BusySkipped
  BY <1>1, <1>2 DEF BusySkipped, Busy, In, Returns, IrqOK, SeenOK, irq, hal, busy
<1>3. CASE BusyOutput \/ BusyLow \/ BusyRaise \/ BusyFall
  <2>1. UNCHANGED <<handler, intr, count, toggles, result>>
    BY <1>3 DEF BusyOutput, BusyLow, BusyRaise, BusyFall, Gpio, Drive, irq, hal, busy, Goes
  <2>2. \/ at = "begin" /\ at' = "output"
        \/ at = "output" /\ at' = "register"
        \/ at = "raise" /\ at' = "raised"
        \/ at = "fall" /\ at' = "fallen"
    BY <1>3 DEF BusyOutput, BusyLow, BusyRaise, BusyFall, Busy, In, Goes
  <2>3. QED
    BY <1>1, <2>1, <2>2 DEF IrqOK, SeenOK
<1>4. CASE BusyHandler \/ BusyEnable
  BY <1>1, <1>4 DEF BusyHandler, BusyEnable, RegisterBusyHandler, SetBusyIrq, Busy, In, Goes, IrqOK, SeenOK, irq
<1>5. CASE BusyClear
  BY <1>1, <1>5 DEF BusyClear, Busy, In, Goes, IrqOK, SeenOK, hal, busy
<1>6. CASE BusyRaised
  <2>1. UNCHANGED <<handler, intr, count, toggles>> /\ at = "raised"
    BY <1>6 DEF BusyRaised, irq, hal, busy, Busy, In
  <2>2. \/ at' = "off" /\ result' = "FAILED"
        \/ at' = "fall" /\ (toggles > 0 \/ BusyAsserted)
    BY <1>1, <1>6 DEF BusyRaised, Watched, Bad, Goes
  <2>3. BusyAsserted => wired
    BY DEF BusyAsserted, Level
  <2>4. QED
    BY <1>1, <2>1, <2>2, <2>3 DEF IrqOK, SeenOK
<1>7. CASE BusyFallen
  <2>1. UNCHANGED <<handler, intr, count>> /\ at = "fallen"
    BY <1>7 DEF BusyFallen, hal, busy, Busy, In
  <2>2. \/ at' = "off" /\ result' = "FAILED" /\ toggles' = toggles
        \/ at' \in {"count", "recount", "raise"} /\ toggles' = toggles + 1
    BY <1>7, AfterFall DEF Bad
  <2>3. QED
    BY <1>1, <2>1, <2>2 DEF IrqOK, SeenOK
<1>8. CASE BusyCount \/ BusyDisable
  <2>1. wired
    BY <1>1, <1>8 DEF BusyCount, BusyDisable, Busy, In, SeenOK
  <2>2. QED
    BY <1>1, <1>8, <2>1 DEF BusyCount, BusyDisable, SetBusyIrq, Busy, In, Goes, Bad, IrqOK, SeenOK, irq, hal, busy
<1>9. CASE BusyRecount \/ BusyOff
  BY <1>1, <1>9 DEF BusyRecount, BusyOff, SetBusyIrq, Busy, In, Goes, IrqOK, SeenOK, irq, hal, busy
<1>10. CASE BusyUnregister
  BY <1>1, <1>10 DEF BusyUnregister, RegisterBusyHandler, Busy, In, Goes, IrqOK, SeenOK
<1>11. QED
  BY <1>2, <1>3, <1>4, <1>5, <1>6, <1>7, <1>8, <1>9, <1>10 DEF BusyStep

\* The BUSY test touches no other step's part.
LEMMA BusyKeeps == SafeInv /\ BusyStep => SafeInv'
<1> SUFFICES ASSUME SafeInv, BusyStep PROVE SafeInv'
  OBVIOUS
<1>1. /\ step = 9 /\ step' = 9
      /\ UNCHANGED <<heap, cfg, tries, probed, mem, rx, txOffset, now, chip, wired>>
      /\ UNCHANGED binary /\ UNCHANGED <<kind, file, walk>>
  BY BusyLeaves DEF osal, chipId, bulk, binary, power
<1>2. faults' \in Nat /\ (faults > 0 => faults' > 0) /\ UNCHANGED <<psMode, cores, chipKind>>
  BY BusyLeaves, SamePlatform
<1>3. /\ IrqOK' /\ SeenOK' /\ {count', toggles'} \subseteq Nat /\ intr' \in {"DISABLE", "POSEDGE"}
      /\ at' \notin {"loop", "write", "read", "validate", "free", "walk"}
      /\ at \notin {"loop", "write", "read", "validate", "free", "walk"}
  BY BusyStepIrq
<1>4. Types'
  BY <1>1, <1>2, <1>3 DEF SafeInv, Types
<1>5. ChipOK' /\ HeapOK' /\ BulkOK'
  BY <1>1, <1>2, <1>3 DEF SafeInv, ChipOK, HeapOK, BulkOK
<1>6. FileOK'
  BY <1>1, <1>3, NoFile DEF SafeInv, FileOK
<1>7. QED
  BY <1>3, <1>4, <1>5, <1>6 DEF SafeInv

\* An interrupt counts only while the test's handler is there.
LEMMA InterruptKeeps == SafeInv /\ Interrupt => SafeInv'
<1> SUFFICES ASSUME SafeInv, Interrupt PROVE SafeInv'
  OBVIOUS
<1>1. /\ UNCHANGED <<step, at, result, heap, cfg, tries, probed, toggles, mem, rx,
                     txOffset, now, chip, wired, handler, intr, psMode, cores, chipKind, faults>>
      /\ UNCHANGED binary /\ UNCHANGED <<kind, file, walk>>
  BY DEF Interrupt, Isr, runner, platform, Else, osal, chipId, bulk, power, binary
<1>2. count' = IF handler = "test" THEN (count + 1) % 256 ELSE count
  BY DEF Interrupt
<1>3. count' \in Nat
  BY <1>2 DEF SafeInv, Types
<1>4. Types' /\ ChipOK' /\ HeapOK' /\ SeenOK' /\ BulkOK'
  BY <1>1, <1>3 DEF SafeInv, Types, ChipOK, HeapOK, SeenOK, BulkOK
<1>5. IrqOK'
  BY <1>1, <1>2 DEF SafeInv, IrqOK
<1>6. FileOK'
  BY <1>1, NoFile DEF SafeInv, FileOK
<1>7. QED
  BY <1>4, <1>5, <1>6 DEF SafeInv

\* What the two transfer tests leave alone.
LEMMA BulkLeaves ==
  ASSUME SafeInv, BulkStep
  PROVE  /\ step \in {10, 11} /\ step' = step /\ UNCHANGED <<newTask, handle, chipId, irq, hal, binary>>
         /\ Fine \/ Fault
         /\ Benchmark <=> step = 11
<1>1. step \in {10, 11} /\ (Benchmark <=> step = 11)
  BY StepNames DEF SafeInv, Types, BulkStep, Alloc, Loop, Write, Read, Validate, Free, Transfers, Benchmark
<1>2. step' = step
  BY DEF BulkStep, Alloc, Loop, Write, Read, Validate, Free, AfterTransfer, Goes, Returns
<1>3. UNCHANGED <<newTask, handle, chipId, irq, hal, binary>>
  <2>1. CASE Alloc \/ Loop
    BY <2>1 DEF Alloc, Loop, osal, irq, Goes
  <2>2. CASE Write \/ Read
    BY <2>2 DEF Write, Read, osal
  <2>3. CASE Validate \/ Free
    BY <2>3 DEF Validate, Free, osal, io
  <2>4. QED
    BY <2>1, <2>2, <2>3 DEF BulkStep
<1>4. Fine \/ Fault
  BY DEF BulkStep, Alloc, Loop, Write, Read, Validate, Free, Fine
<1>5. QED
  BY <1>1, <1>2, <1>3, <1>4

\* A transfer that fails is taken for one that succeeds.
LEMMA GoesOn ==
  ASSUME NEW p, AfterTransfer(p)
  PROVE  at' = p /\ UNCHANGED <<step, result, ctrs>>
<1>1. TEST_FAILED # 0
  BY DEF TEST_FAILED
<1>2. (TEST_FAILED # 0) = TRUE
  BY <1>1
<1>3. Processed(ret') = TRUE
  BY <1>2, Zenon DEF Processed
<1>4. ok'
  BY <1>3, Zenon DEF AfterTransfer
<1>5. QED
  BY <1>4 DEF AfterTransfer, Goes

\* They keep the buffers' part and the contents'.
LEMMA BulkStepOK ==
  ASSUME SafeInv, BulkStep
  PROVE  /\ HeapOK' /\ BulkOK' /\ {txOffset', now'} \subseteq Nat
         /\ at \notin {"walk", "returned"} /\ at' # "walk"
<1>1. /\ step \in {10, 11} /\ step' = step /\ (Benchmark <=> step = 11)
      /\ HeapOK /\ BulkOK /\ txOffset \in Nat /\ now \in Nat
      /\ (faults > 0 => faults' > 0)
  BY BulkLeaves, SamePlatform DEF SafeInv, Types
<1>2. step = 10 => txOffset = 0 /\ Pattern = 0
  <2>1. 0 % 16 = 0
    OBVIOUS
  <2>2. QED
    BY <1>1, <2>1 DEF BulkOK, Pattern
<1>3. CASE Alloc
  <2>1. /\ at = "begin" /\ txOffset' = txOffset /\ now' = now
        /\ \/ /\ heap' = heap \cup {"tx_data", "rx_data"}
              /\ step = 10 => rx' = {Junk} /\ at' = "write"
              /\ step = 11 => at' = "loop"
           \/ at' = "returned" /\ result' = "FAILED" /\ heap' = heap
    BY <1>1, <1>3 DEF Alloc, Goes, Returns
  <2>2. BulkOK'
    BY <1>1, <2>1 DEF BulkOK
  <2>3. HeapOK'
    BY <1>1, <2>1 DEF HeapOK
  <2>4. QED
    BY <1>1, <2>1, <2>2, <2>3
<1>4. CASE Loop
  BY <1>1, <1>4 DEF Loop, Goes, HeapOK, BulkOK, osal
<1>5. CASE Write
  <2>1. /\ at = "write" /\ at' = "read" /\ rx' = rx /\ heap' = heap /\ txOffset' = txOffset
        /\ now' = now /\ result' = result
    BY <1>5, GoesOn DEF Write, osal
  <2>2. QED
    BY <1>1, <2>1 DEF HeapOK, BulkOK
<1>6. CASE Read
  <2>1. /\ at = "read" /\ heap' = heap /\ txOffset' = txOffset /\ mem' = mem
        /\ rx' \in {rx, rx \cup mem, mem} /\ now' \in {now, now + 1, now + 2}
    BY <1>6 DEF Read, osal
  <2>2. at' = (IF Benchmark THEN "loop" ELSE "validate") /\ result' = result
    BY <1>6, GoesOn DEF Read
  <2>3. QED
    BY <1>1, <2>1, <2>2 DEF HeapOK, BulkOK
<1>7. CASE Validate
  <2>1. /\ at = "validate" /\ at' = "free" /\ result' = (IF rx = {Pattern} THEN "PASSED" ELSE "FAILED")
        /\ UNCHANGED <<heap, mem, rx, txOffset, now>>
    BY <1>7 DEF Validate, osal, io, bulk
  <2>2. step = 10 /\ result' = "PASSED" => mem = {0}
    <3>1. step = 10 /\ result' = "PASSED" => rx = {0}
      BY <1>2, <2>1
    <3>2. step = 10 => rx = mem \/ Junk \in rx
      BY <1>1, <2>1 DEF BulkOK
    <3>3. Junk # 0
      BY DEF Junk
    <3>4. QED
      BY <3>1, <3>2, <3>3
  <2>3. QED
    BY <1>1, <2>1, <2>2 DEF HeapOK, BulkOK
<1>8. CASE Free
  <2>1. /\ at = "free" /\ at' = "returned" /\ result' = result /\ mem' = mem
        /\ heap' = heap \ {"tx_data", "rx_data"} /\ txOffset' = 0 /\ now' = 0
    BY <1>8 DEF Free, Goes
  <2>2. HeapOK'
    BY <1>1, <2>1 DEF HeapOK
  <2>3. QED
    BY <1>1, <2>1, <2>2 DEF BulkOK
<1>9. QED
  BY <1>3, <1>4, <1>5, <1>6, <1>7, <1>8 DEF BulkStep

\* The transfer tests touch no other step's part.
LEMMA BulkKeeps == SafeInv /\ BulkStep => SafeInv'
<1> SUFFICES ASSUME SafeInv, BulkStep PROVE SafeInv'
  OBVIOUS
<1>1. /\ step \in {10, 11} /\ step' = step
      /\ UNCHANGED <<cfg, tries, probed, count, toggles, chip, wired, handler, intr>>
      /\ UNCHANGED binary /\ UNCHANGED <<kind, file, walk>>
  BY BulkLeaves DEF chipId, irq, hal, power, busy, binary
<1>2. faults' \in Nat /\ (faults > 0 => faults' > 0) /\ UNCHANGED <<psMode, cores, chipKind>>
  BY BulkLeaves, SamePlatform
<1>3. /\ HeapOK' /\ BulkOK' /\ {txOffset', now'} \subseteq Nat
      /\ at \notin {"walk", "returned"} /\ at' # "walk"
  BY BulkStepOK
<1>4. Types'
  BY <1>1, <1>2, <1>3 DEF SafeInv, Types
<1>5. ChipOK' /\ IrqOK' /\ SeenOK'
  BY <1>1, <1>2 DEF SafeInv, ChipOK, IrqOK, SeenOK
<1>6. FileOK'
  BY <1>1, <1>3, NoFile DEF SafeInv, FileOK
<1>7. QED
  BY <1>3, <1>4, <1>5, <1>6 DEF SafeInv

\* The last two steps return the walk's verdict.
LEMMA FileKeeps == SafeInv /\ FileStep => SafeInv'
<1> SUFFICES ASSUME SafeInv, FileStep PROVE SafeInv'
  OBVIOUS
<1>1. step \in {12, 13} /\ step' = step
  BY StepNames DEF SafeInv, Types, FileStep, ValidateBegins, ValidateWalks, ValidateEnds, Validates,
     Goes, Returns, runner
<1>2. UNCHANGED <<platform, osal, io, hal>>
  BY DEF FileStep, ValidateBegins, ValidateWalks, ValidateEnds
<1>3. UNCHANGED <<psMode, cores, chipKind, faults, heap, cfg, tries, probed, count, toggles, mem, rx,
                  txOffset, now, chip, wired, handler, intr>>
  BY <1>2 DEF platform, osal, io, chipId, irq, bulk, hal, power, busy
<1>4. /\ at \in {"begin", "walk"} /\ at' \in {"walk", "returned"} /\ FileOK'
  <2>1. CASE ValidateBegins
    <3>1. at = "begin" /\ at' = "walk" /\ \E k \in Kinds, f \in Files : BeginWalk(k, f)
      BY <2>1 DEF ValidateBegins, Goes, Kinds
    <3>2. WalkInv'
      BY <3>1, BeginKeeps DEF SafeInv, FileOK
    <3>3. QED
      BY <1>1, <3>1, <3>2 DEF FileOK
  <2>2. CASE ValidateWalks
    <3>1. at' = at /\ WalkStep /\ walk \in {"header", "value"} /\ walk' # "idle"
      BY <2>2 DEF ValidateWalks, runner, WalkStep, ReadHeader, ReadValue, NextField
    <3>2. at = "walk"
      BY <3>1 DEF SafeInv, FileOK
    <3>3. WalkInv'
      BY <3>1, HeaderKeeps, ValueKeeps DEF SafeInv, FileOK, WalkStep
    <3>4. QED
      BY <1>1, <3>1, <3>2, <3>3 DEF FileOK
  <2>3. CASE ValidateEnds
    <3>1. /\ at' = "returned" /\ WalkEnds /\ walk' = "idle" /\ walk \in {"passed", "failed"}
          /\ result' = (IF walk = "passed" THEN "PASSED" ELSE "FAILED_NON_CRITICAL")
          /\ kind' = kind /\ file' = file
      BY <2>3 DEF ValidateEnds, WalkEnds, Returns
    <3>2. at = "walk"
      BY <3>1 DEF SafeInv, FileOK
    <3>3. WalkInv'
      BY <3>1, WalkEndsKeeps DEF SafeInv, FileOK
    <3>4. /\ walk = "failed" => ~WellFormed(file, kind)
          /\ walk = "passed" => WellFormed(file, kind)
      BY DEF SafeInv, FileOK, WalkInv
    <3>5. QED
      BY <3>1, <3>2, <3>3, <3>4 DEF FileOK
  <2>4. QED
    BY <2>1, <2>2, <2>3 DEF FileStep
<1>5. Types' /\ ChipOK' /\ HeapOK' /\ IrqOK' /\ SeenOK' /\ BulkOK'
  BY <1>1, <1>3, <1>4 DEF SafeInv, Types, ChipOK, HeapOK, IrqOK, SeenOK, BulkOK
<1>6. QED
  BY <1>4, <1>5 DEF SafeInv

\* The runner goes on only after a step that did not fail critically.
LEMMA NextStepKeeps == SafeInv /\ NextStep => SafeInv'
<1> SUFFICES ASSUME SafeInv, NextStep PROVE SafeInv'
  OBVIOUS
<1>1. /\ UNCHANGED <<platform, osal, io, hal, binary>> /\ result' = result /\ at = "returned"
      /\ \/ at' = "end" /\ step' = step
         \/ at' = "begin" /\ step' = step + 1 /\ result # "FAILED" /\ step # 13
  BY StepNames DEF NextStep, SafeInv, Types
<1>2. /\ UNCHANGED <<psMode, cores, chipKind, faults, heap, cfg, tries, probed, count, toggles, mem, rx,
                     txOffset, now, chip, wired, handler, intr>>
      /\ UNCHANGED binary /\ UNCHANGED <<kind, file, walk>>
  BY <1>1 DEF platform, osal, io, chipId, irq, bulk, hal, power, busy, binary
<1>3. Types' /\ ChipOK' /\ HeapOK' /\ IrqOK' /\ SeenOK' /\ BulkOK'
  BY <1>1, <1>2 DEF SafeInv, Types, ChipOK, HeapOK, IrqOK, SeenOK, BulkOK
<1>4. FileOK'
  BY <1>1, <1>2, NoFile DEF SafeInv, FileOK
<1>5. QED
  BY <1>3, <1>4 DEF SafeInv

\* It holds before the first step.
LEMMA SafeInvInit == Init => SafeInv
<1> SUFFICES ASSUME Init PROVE SafeInv
  OBVIOUS
<1>1. Types /\ ChipOK /\ HeapOK /\ IrqOK /\ SeenOK /\ BulkOK
  BY DEF Init, InitHal, Types, ChipOK, HeapOK, IrqOK, SeenOK, BulkOK
<1>2. FileOK
  BY WalkInvInit DEF Init, InitBinary, FileOK
<1>3. QED
  BY <1>1, <1>2 DEF SafeInv

\* It survives stuttering.
LEMMA NothingKeeps == SafeInv /\ UNCHANGED vars => SafeInv'
<1> SUFFICES ASSUME SafeInv, UNCHANGED vars PROVE SafeInv'
  OBVIOUS
<1>1. UNCHANGED <<runner, platform, osal, io, hal, binary>>
  BY DEF vars
<1>2. /\ UNCHANGED <<step, at, result, psMode, cores, chipKind, faults, heap, cfg, tries, probed, count,
                     toggles, mem, rx, txOffset, now, chip, wired, handler, intr>>
      /\ UNCHANGED binary /\ UNCHANGED <<kind, file, walk>>
  BY <1>1 DEF runner, platform, osal, io, chipId, irq, bulk, hal, power, busy, binary
<1>3. Types' /\ ChipOK' /\ HeapOK' /\ IrqOK' /\ SeenOK' /\ BulkOK'
  BY <1>2 DEF SafeInv, Types, ChipOK, HeapOK, IrqOK, SeenOK, BulkOK
<1>4. FileOK'
  BY <1>2, NoFile DEF SafeInv, FileOK
<1>5. QED
  BY <1>3, <1>4 DEF SafeInv

\* Every step belongs to one of the groups.
LEMMA Steps ==
  Next => \/ NextStep \/ OsStep \/ OtherTask \/ ChipStep \/ ChipBoots \/ BusyStep \/ Interrupt
          \/ BulkStep \/ FileStep
  BY DEF Next, OsStep, OtherTask, ChipStep, BusyStep, BulkStep, FileStep

\* The invariant is inductive, with any number of faults and any files.
THEOREM SafeInductive == Spec => []SafeInv
<1>1. SafeInv /\ [Next]_vars => SafeInv'
  BY Steps, NextStepKeeps, OsKeeps, OtherTaskKeeps, ChipKeeps, BootsKeeps, BusyKeeps,
     InterruptKeeps, BulkKeeps, FileKeeps, NothingKeeps
<1>2. QED
  BY SafeInvInit, <1>1, PTL DEF Spec

-----------------------------------------------------------------------------
(* What the runner may rely on *)

\* What a step has to show, case by case.
LEMMA ShownWhen ==
  ASSUME NEW s,
         s = "read_chip_id" => probed = chipKind, s = "verify_busy_pin" => wired,
         s = "bulk_write_read" => mem = {0},
         s \in {"validate_fw", "validate_bcf"} => WellFormed(file, kind)
  PROVE  Shown(s)
<1>1. CASE s = "read_chip_id"
  BY <1>1, Zenon DEF Shown
<1>2. CASE s = "verify_busy_pin"
  <2>1. s # "read_chip_id" /\ s # "bulk_write_read" /\ s \notin {"validate_fw", "validate_bcf"}
    BY <1>2
  <2>2. QED
    BY <1>2, <2>1, Zenon DEF Shown
<1>3. CASE s = "bulk_write_read"
  <2>1. s # "read_chip_id" /\ s # "verify_busy_pin" /\ s \notin {"validate_fw", "validate_bcf"}
    BY <1>3
  <2>2. QED
    BY <1>3, <2>1, Zenon DEF Shown
<1>4. CASE s \in {"validate_fw", "validate_bcf"}
  <2>1. s # "read_chip_id" /\ s # "verify_busy_pin" /\ s # "bulk_write_read"
    BY <1>4
  <2>2. QED
    BY <1>4, <2>1, Zenon DEF Shown
<1>5. CASE s \notin {"read_chip_id", "verify_busy_pin", "bulk_write_read", "validate_fw", "validate_bcf"}
  <2>1. s # "read_chip_id" /\ s # "verify_busy_pin" /\ s # "bulk_write_read"
        /\ s \notin {"validate_fw", "validate_bcf"}
    BY <1>5
  <2>2. QED
    BY <2>1, Zenon DEF Shown
<1>6. QED
  BY <1>1, <1>2, <1>3, <1>4, <1>5

\* A step that passes has shown what it is about, whatever failed on the way
\* (test_step_read_chip_id, test_step_verify_busy_pin, test_step_bulk_write_read and
\* execute_fw_bcf_test).
THEOREM PassesAreEarned == Spec => []PassIsEarned
<1>1. SafeInv => PassIsEarned
  <2> SUFFICES ASSUME SafeInv, at = "returned", result = "PASSED" PROVE Shown(test_steps[step])
    BY DEF PassIsEarned
  <2> DEFINE s == test_steps[step]
  <2>1. /\ step = 8 => probed = chipKind
        /\ step = 9 => wired
        /\ step = 10 => mem = {0}
        /\ step \in {12, 13} => WellFormed(file, kind)
    BY DEF SafeInv, ChipOK, SeenOK, BulkOK, FileOK
  <2>2. /\ s = "read_chip_id" => step = 8
        /\ s = "verify_busy_pin" => step = 9
        /\ s = "bulk_write_read" => step = 10
        /\ s \in {"validate_fw", "validate_bcf"} => step \in {12, 13}
    BY StepNames DEF SafeInv, Types
  <2> HIDE DEF s
  <2>3. Shown(s)
    BY <2>1, <2>2, ShownWhen
  <2>4. QED
    BY <2>3 DEF s
<1>2. QED
  BY SafeInductive, <1>1, PTL

\* However a step ends, it has freed its buffers and taken back its handler and interrupt
\* (the clean-up of test_step_verify_busy_pin, the frees of the transfer tests).
THEOREM StepsLeaveNothing == Spec => []CleanBetweenSteps
<1>1. SafeInv => CleanBetweenSteps
  <2> SUFFICES ASSUME SafeInv, at \in {"returned", "end"}
               PROVE  /\ heap \subseteq {"buf", "buf1"} /\ (heap # {} => faults > 0)
                      /\ intr = "DISABLE" /\ handler # "test" /\ count = 0
    BY DEF CleanBetweenSteps
  <2>1. heap \subseteq {"buf", "buf1"} /\ (heap # {} => faults > 0)
    BY DEF SafeInv, HeapOK
  <2>2. intr = "DISABLE" /\ handler # "test" /\ count = 0
    BY DEF SafeInv, Types, IrqOK
  <2>3. QED
    BY <2>1, <2>2
<1>2. QED
  BY SafeInductive, <1>1, PTL

\* Steps that use the chip run only with its own configuration and when it takes commands;
\* only a chip slower than the settling time is clocked too early (run_test_steps stops at a
\* critical failure).
THEOREM ChipUsedWhenReady == Spec => []UsedWhenReady
<1>1. SafeInv => UsedWhenReady
  BY DEF SafeInv, Types, ChipOK, UsedWhenReady
<1>2. QED
  BY SafeInductive, <1>1, PTL

-----------------------------------------------------------------------------
(* A platform on which nothing fails *)

\* A good platform was good before, and what happens to it is no fault.
LEMMA WasGood ==
  ASSUME SafeInv, Good', Fine \/ Fault, UNCHANGED wired
  PROVE  Good /\ Fine /\ ~Fault /\ UNCHANGED <<psMode, cores, chipKind, faults>>
<1>1. /\ faults' \in Nat /\ faults' >= faults /\ faults \in Nat /\ (Fault => faults' > 0)
      /\ UNCHANGED <<psMode, cores, chipKind>>
  BY SamePlatform DEF SafeInv, Types
<1>2. faults' = 0 /\ faults = 0 /\ ~Fault
  BY <1>1 DEF Good
<1>3. Good
  BY <1>1, <1>2 DEF Good
<1>4. QED
  BY <1>1, <1>2, <1>3

\* The steps of test_os.c pass.
LEMMA OsKeepsGood ==
  ASSUME SafeInv, GoodInv, OsStep, Good'
  PROVE  GoodOs' /\ GoodChip' /\ GoodBusy' /\ GoodBulk' /\ NoneFailed'
<1>1. /\ step \in 1..4 /\ step' = step
      /\ UNCHANGED <<cfg, tries, probed, count, toggles, mem, rx, txOffset, now, ret, ok,
                     resetN, cs, spi, chip, wired, oe, out, handler, intr, pending>>
  BY OsLeaves DEF io, chipId, irq, bulk, hal, power, busy
<1>2. Good /\ ~Fault /\ cores = 1 /\ GoodOs /\ GoodChip /\ GoodBusy /\ GoodBulk /\ NoneFailed
  BY <1>1, OsLeaves, WasGood DEF GoodInv, Good
<1>3. GoodChip' /\ GoodBusy' /\ GoodBulk'
  BY <1>1, <1>2 DEF GoodChip, GoodBusy, GoodBulk
<1>4. GoodOs' /\ NoneFailed'
  <2>1. CASE OsMalloc \/ OsRealloc
    BY <1>1, <1>2, <2>1, StepNames DEF OsMalloc, OsRealloc, In, Returns, GoodOs, NoneFailed, SafeInv, Types
  <2>2. CASE OsTime
    <3>1. step = 3 /\ at' = "returned" /\ result' = "PASSED"
      BY <1>2, <2>2, StepNames DEF OsTime, In, Returns, SafeInv, Types
    <3>2. QED
      BY <1>1, <3>1 DEF GoodOs, NoneFailed
  <2>3. CASE CreateTask
    BY <1>1, <1>2, <2>3, StepNames DEF CreateTask, In, Goes, GoodOs, NoneFailed, SafeInv, Types
  <2>4. CASE CreateReturns
    BY <1>1, <1>2, <2>4, StepNames DEF CreateReturns, In, Goes, GoodOs, NoneFailed, SafeInv, Types
  <2>5. CASE CheckStarted
    BY <1>1, <1>2, <2>5, StepNames DEF CheckStarted, In, Goes, Returns, GoodOs, NoneFailed, SafeInv, Types, osal
  <2>6. CASE CheckTerminating
    BY <1>1, <1>2, <2>6, StepNames DEF CheckTerminating, In, Returns, GoodOs, NoneFailed, SafeInv, Types
  <2>7. QED
    BY <2>1, <2>2, <2>3, <2>4, <2>5, <2>6 DEF OsStep
<1>5. QED
  BY <1>3, <1>4

\* The created task starts while its creator waits for it, and ends after it was seen.
LEMMA OtherTaskKeepsGood ==
  ASSUME SafeInv, GoodInv, OtherTask, Good'
  PROVE  GoodOs' /\ GoodChip' /\ GoodBusy' /\ GoodBulk' /\ NoneFailed'
<1>1. UNCHANGED <<runner, io, hal>> /\ (Fine \/ Fault)
  BY DEF OtherTask, NewTaskStarts, NewTaskWakes, Fine
<1>2. UNCHANGED <<step, at, result, cfg, tries, count, toggles, mem, rx, txOffset, now,
                  spi, chip, wired, oe, out, handler, intr, pending>>
  BY <1>1 DEF runner, io, chipId, irq, bulk, hal, power, busy
<1>3. /\ Good /\ ~Fault /\ UNCHANGED <<chipKind, faults>>
      /\ GoodOs /\ GoodChip /\ GoodBusy /\ GoodBulk /\ NoneFailed
  BY <1>1, <1>2, WasGood DEF GoodInv
<1>4. GoodChip' /\ GoodBusy' /\ GoodBulk' /\ NoneFailed'
  BY <1>2, <1>3 DEF GoodChip, GoodBusy, GoodBulk, NoneFailed, Edges, Pattern
<1>5. GoodOs'
  <2>1. CASE NewTaskStarts
    BY <1>2, <1>3, <2>1 DEF NewTaskStarts, GoodOs
  <2>2. CASE NewTaskWakes
    BY <1>2, <1>3, <2>2, StepNames DEF NewTaskWakes, In, GoodOs, SafeInv, Types
  <2>3. QED
    BY <2>1, <2>2 DEF OtherTask
<1>6. QED
  BY <1>4, <1>5

\* The chip boots in time, starts, and is identified.
LEMMA ChipKeepsGood ==
  ASSUME SafeInv, GoodInv, ChipStep, Good'
  PROVE  GoodOs' /\ GoodChip' /\ GoodBusy' /\ GoodBulk' /\ NoneFailed'
<1>1. /\ step \in 5..8 /\ step' = step /\ intr' \in {"DISABLE", intr}
      /\ at \in {"begin", "low", "settle"} /\ at' \in {"begin", "returned", "low", "settle"}
      /\ UNCHANGED <<newTask, count, toggles, mem, rx, txOffset, now, wired, oe, out, handler, pending>>
  BY ChipLeaves DEF osal, irq, bulk
<1>2. /\ Good /\ ~Fault /\ UNCHANGED <<chipKind, faults>>
      /\ GoodOs /\ GoodChip /\ GoodBusy /\ GoodBulk /\ NoneFailed
  BY <1>1, ChipLeaves, WasGood DEF GoodInv
<1>3. GoodBusy' /\ GoodBulk'
  BY <1>1, <1>2 DEF GoodBusy, GoodBulk
<1>4. chipKind \in {"mm6108", "mm8108"} /\ cfg \in 1..2 /\ faults = 0
  BY <1>2 DEF Good, SafeInv, Types
<1>5. GoodOs' /\ GoodChip' /\ NoneFailed'
  <2>1. CASE StepWlanInit
    BY <1>1, <1>2, <2>1, StepNames DEF StepWlanInit, WlanInit, In, Returns, GoodOs, GoodChip, NoneFailed,
       SafeInv, Types, io, chipId
  <2>2. CASE HardResetLow \/ HardResetHigh \/ HardResetSettled
    BY <1>1, <1>2, <2>2, StepNames DEF HardResetLow, HardResetHigh, HardResetSettled, ResetLow, ResetHigh,
       In, Returns, Goes, GoodOs, GoodChip, NoneFailed, SafeInv, Types, io, chipId, hal, power
  <2>3. CASE SdioStartup
    <3>1. step = 7 /\ at = "begin" /\ spi /\ chip = "idle"
      BY <1>1, <1>2, <2>3, StepNames DEF SdioStartup, In, SafeInv, Types, GoodOs, GoodChip
    <3>2. at' = "returned" /\ result' = "PASSED" /\ spi' = spi /\ cfg' = cfg
      BY <1>2, <2>3, <3>1 DEF SdioStartup, Clock, Returns, io, chipId
    <3>3. QED
      BY <1>1, <1>2, <3>1, <3>2 DEF GoodOs, GoodChip, NoneFailed
  <2>4. CASE ReadChipId
    <3>1. chip_cfgs[1] = "mm6108" /\ chip_cfgs[2] = "mm8108" /\ Len(chip_cfgs) = 2
      BY DEF chip_cfgs
    <3>2. step = 8 /\ at = "begin" /\ spi' = spi
      BY <1>1, <2>4, StepNames DEF ReadChipId, In, SafeInv, Types, hal, power
    <3>3. \/ at' = "returned" /\ result' = "PASSED" /\ cfg' = cfg
          \/ at' = "begin" /\ cfg' = cfg + 1 /\ cfg = 1 /\ chipKind # "mm6108"
      BY <1>2, <1>4, <2>4, <3>1, <3>2 DEF ReadChipId, Returns, Goes, GoodChip
    <3>4. QED
      BY <1>1, <1>2, <3>2, <3>3 DEF GoodOs, GoodChip, NoneFailed
  <2>5. CASE ReadChipIdFails
    <3>1. step = 8 /\ at = "begin" /\ at' = "begin" /\ cfg' = cfg /\ spi' = spi
      BY <1>1, <1>2, <2>5, StepNames DEF ReadChipIdFails, In, Goes, SafeInv, Types, hal, power
    <3>2. QED
      BY <1>1, <1>2, <3>1 DEF GoodOs, GoodChip, NoneFailed
  <2>6. QED
    BY <2>1, <2>2, <2>3, <2>4, <2>5 DEF ChipStep
<1>6. QED
  BY <1>3, <1>5

\* A chip that boots is idle when it was waited for.
LEMMA BootsKeepsGood ==
  ASSUME SafeInv, GoodInv, ChipBoots, Good'
  PROVE  GoodOs' /\ GoodChip' /\ GoodBusy' /\ GoodBulk' /\ NoneFailed'
<1>1. UNCHANGED <<runner, platform, osal, io, busy, spi>> /\ chip = "booting" /\ chip' = "idle"
  BY DEF ChipBoots, Boots
<1>2. UNCHANGED <<step, at, result, cfg, newTask, count, toggles, mem, rx, txOffset, now,
                  spi, wired, oe, out, handler, intr, pending, chipKind, faults, cores, psMode>>
  BY <1>1 DEF runner, platform, osal, io, chipId, irq, bulk, busy
<1>3. GoodOs /\ GoodChip /\ GoodBusy /\ GoodBulk /\ NoneFailed
  BY <1>2 DEF GoodInv, Good
<1>4. GoodOs' /\ GoodChip' /\ GoodBusy' /\ GoodBulk' /\ NoneFailed'
  BY <1>1, <1>2, <1>3 DEF GoodOs, GoodChip, GoodBusy, GoodBulk, NoneFailed, Edges, Pattern
<1>5. QED
  BY <1>4

\* An edge is latched when BUSY rises, and only then.
LEMMA Latched ==
  ASSUME ~pending, NEW o, NEW v, Drive(o, v)
  PROVE  pending' <=> /\ ~BusyAsserted /\ Level(o, v) = 1
                      /\ intr = "POSEDGE" /\ handler # "none"
<1>1. pending' = (pending \/ (/\ ~BusyAsserted /\ Level(o, v) = 1
                              /\ intr = "POSEDGE" /\ handler # "none"))
  BY DEF Drive
<1>2. QED
  BY <1>1, Zenon

\* Disabling latches nothing.
LEMMA NotLatched == ~pending /\ SetBusyIrq(FALSE) => ~pending'
<1> SUFFICES ASSUME ~pending, SetBusyIrq(FALSE) PROVE ~pending'
  OBVIOUS
<1>1. pending' \in {pending, pending \/ (FALSE /\ handler # "none")}
  BY DEF SetBusyIrq
<1>2. QED
  BY <1>1, Zenon

\* BUSY follows the chip's output where it is routed.
LEMMA BusyFollows ==
  ASSUME wired, oe
  PROVE  (BusyAsserted <=> out = 1) /\ Level(oe, 1) = 1 /\ Level(oe, 0) = 0
  BY DEF BusyAsserted, Level

\* The BUSY test sees every level and counts every edge while the interrupt is enabled, and
\* none after.
LEMMA BusyStepGood ==
  ASSUME SafeInv, BusyStep, Good, ~Fault, GoodBusy, NoneFailed, Fine \/ Fault
  PROVE  GoodBusy' /\ NoneFailed'
<1>1. /\ step = 9 /\ step' = 9 /\ wired' = wired /\ toggles \in Nat /\ count \in Nat
      /\ intr \in {"DISABLE", "POSEDGE"} /\ (psMode => wired)
  BY BusyLeaves DEF SafeInv, Types, Good
<1>2. \A o, v : Gpio(o, v) => Drive(o, v)
  BY DEF Gpio
<1>3. CASE BusySkipped
  BY <1>1, <1>3 DEF BusySkipped, Busy, In, Returns, GoodBusy, NoneFailed
<1>4. CASE BusyOutput
  <2>1. /\ at = "begin" /\ at' = "output" /\ wired /\ Drive(TRUE, out) /\ ~pending /\ out = 0
        /\ handler = "none"
    BY <1>1, <1>2, <1>4 DEF BusyOutput, Busy, In, Goes, GoodBusy
  <2>2. ~pending'
    BY <2>1, Latched
  <2>3. oe' = TRUE /\ out' = 0 /\ handler' = "none"
    BY <2>1 DEF Drive
  <2>4. QED
    BY <1>1, <2>1, <2>2, <2>3 DEF GoodBusy, NoneFailed
<1>5. CASE BusyLow
  <2>1. /\ at = "output" /\ at' = "register" /\ oe /\ wired /\ Drive(oe, 0) /\ ~pending
        /\ handler = "none"
    BY <1>1, <1>2, <1>5 DEF BusyLow, Busy, In, Goes, GoodBusy
  <2>2. ~pending'
    BY <2>1, Latched
  <2>3. oe' = oe /\ out' = 0 /\ handler' = "none"
    BY <2>1 DEF Drive
  <2>4. QED
    BY <1>1, <2>1, <2>2, <2>3 DEF GoodBusy, NoneFailed
<1>6. CASE BusyHandler \/ BusyEnable
  BY <1>1, <1>6 DEF BusyHandler, BusyEnable, RegisterBusyHandler, SetBusyIrq, Busy, In, Goes, GoodBusy,
     NoneFailed
<1>7. CASE BusyClear
  <2>1. /\ at = "clear" /\ at' = "raise" /\ ~pending /\ count' = 0 /\ toggles' = 0
        /\ UNCHANGED <<oe, out, handler, intr, pending>>
    BY <1>7 DEF BusyClear, Busy, In, Goes, Slept, hal, busy
  <2>2. /\ oe /\ wired /\ out = 0 /\ handler = "test" /\ intr = "POSEDGE"
    BY <1>1, <2>1 DEF GoodBusy
  <2>3. QED
    BY <1>1, <2>1, <2>2 DEF GoodBusy, NoneFailed, Edges
<1>8. CASE BusyRaise
  <2>1. /\ at = "raise" /\ at' = "raised" /\ Drive(oe, 1) /\ UNCHANGED <<count, toggles>>
    BY <1>2, <1>8 DEF BusyRaise, Busy, In, Goes, irq
  <2>2. /\ oe /\ wired /\ out # 1 /\ ~pending /\ handler = "test" /\ toggles < 4
        /\ count = Edges /\ (intr = "POSEDGE" <=> toggles < 2)
    BY <1>1, <2>1 DEF GoodBusy
  <2>3. pending' <=> toggles < 2
    <3>1. ~BusyAsserted /\ Level(oe, 1) = 1
      BY <2>2, BusyFollows
    <3>2. pending' <=> /\ ~BusyAsserted /\ Level(oe, 1) = 1
                       /\ intr = "POSEDGE" /\ handler # "none"
      BY <2>1, <2>2, Latched
    <3>3. QED
      BY <2>2, <3>1, <3>2
  <2>4. oe' = oe /\ out' = 1 /\ handler' = handler /\ intr' = intr
    BY <2>1 DEF Drive
  <2>5. QED
    BY <1>1, <2>1, <2>2, <2>3, <2>4 DEF GoodBusy, NoneFailed, Edges
<1>9. CASE BusyRaised
  <2>1. /\ at = "raised" /\ ~pending /\ UNCHANGED <<count, toggles, oe, out, handler, intr, pending>>
    BY <1>9 DEF BusyRaised, Busy, In, Slept, irq, hal, busy
  <2>2. /\ oe /\ wired /\ out = 1 /\ handler = "test" /\ toggles < 4 /\ (intr = "POSEDGE" <=> toggles < 2)
        /\ count = IF toggles < 2 THEN toggles + 1 ELSE 2
    BY <1>1, <2>1 DEF GoodBusy
  <2>3. BusyAsserted
    BY <2>2, BusyFollows
  <2>4. at' = "fall"
    BY <1>9, <2>3 DEF BusyRaised, Goes
  <2>5. QED
    BY <1>1, <2>1, <2>2, <2>4 DEF GoodBusy, NoneFailed
<1>10. CASE BusyFall
  <2>1. /\ at = "fall" /\ at' = "fallen" /\ Drive(oe, 0) /\ UNCHANGED <<count, toggles>>
    BY <1>2, <1>10 DEF BusyFall, Busy, In, Goes, irq
  <2>2. /\ oe /\ wired /\ ~pending /\ handler = "test" /\ toggles < 4 /\ (intr = "POSEDGE" <=> toggles < 2)
        /\ count = IF toggles < 2 THEN toggles + 1 ELSE 2
    BY <1>1, <2>1 DEF GoodBusy
  <2>3. ~pending'
    <3>1. Level(oe, 0) = 0
      BY <2>2, BusyFollows
    <3>2. pending' <=> /\ ~BusyAsserted /\ Level(oe, 0) = 1
                       /\ intr = "POSEDGE" /\ handler # "none"
      BY <2>1, <2>2, Latched
    <3>3. QED
      BY <3>1, <3>2
  <2>4. oe' = oe /\ out' = 0 /\ handler' = handler /\ intr' = intr
    BY <2>1 DEF Drive
  <2>5. QED
    BY <1>1, <2>1, <2>2, <2>3, <2>4 DEF GoodBusy, NoneFailed
<1>11. CASE BusyFallen
  <2>1. /\ at = "fallen" /\ UNCHANGED <<count, oe, out, handler, intr, pending>>
    BY <1>11 DEF BusyFallen, Busy, In, hal, busy
  <2>2. /\ oe /\ wired /\ out # 1 /\ ~pending /\ handler = "test" /\ toggles < 4
        /\ (intr = "POSEDGE" <=> toggles < 2)
        /\ count = IF toggles < 2 THEN toggles + 1 ELSE 2
    BY <1>1, <2>1 DEF GoodBusy
  <2>3. ~BusyAsserted
    BY <2>2, BusyFollows
  <2>4. /\ toggles' = toggles + 1
        /\ toggles' = 2 => at' = "count"
        /\ toggles' = 4 => at' = "recount"
        /\ toggles' \notin {2, 4} => at' = "raise"
    BY <1>11, <2>3, AfterFall
  <2>5. \/ toggles = 0 /\ at' = "raise" /\ toggles' = 1 /\ count = 1
        \/ toggles = 1 /\ at' = "count" /\ toggles' = 2 /\ count = 2
        \/ toggles = 2 /\ at' = "raise" /\ toggles' = 3 /\ count = 2
        \/ toggles = 3 /\ at' = "recount" /\ toggles' = 4 /\ count = 2
    BY <1>1, <2>2, <2>4
  <2>6. QED
    BY <1>1, <2>1, <2>2, <2>5 DEF GoodBusy, NoneFailed, Edges
<1>12. CASE BusyCount
  <2>1. /\ at = "count" /\ UNCHANGED <<count, toggles, oe, out, handler, intr, pending>>
    BY <1>12 DEF BusyCount, Busy, In, irq, hal, busy
  <2>2. /\ oe /\ wired /\ out # 1 /\ ~pending /\ handler = "test" /\ toggles = 2 /\ count = 2
    BY <1>1, <2>1 DEF GoodBusy
  <2>3. at' = "disable"
    BY <1>12, <2>2 DEF BusyCount, Goes
  <2>4. QED
    BY <1>1, <2>1, <2>2, <2>3 DEF GoodBusy, NoneFailed
<1>13. CASE BusyDisable
  <2>1. /\ at = "disable" /\ at' = "raise" /\ SetBusyIrq(FALSE) /\ UNCHANGED <<count, toggles>>
    BY <1>13 DEF BusyDisable, Busy, In, Goes, irq
  <2>2. /\ oe /\ wired /\ out # 1 /\ ~pending /\ handler = "test" /\ toggles = 2 /\ count = 2
    BY <1>1, <2>1 DEF GoodBusy
  <2>3. ~pending' /\ intr' = "DISABLE" /\ UNCHANGED <<oe, out, handler>>
    BY <2>1, <2>2, NotLatched DEF SetBusyIrq
  <2>4. QED
    BY <1>1, <2>1, <2>2, <2>3 DEF GoodBusy, NoneFailed, Edges
<1>14. CASE BusyRecount
  <2>1. /\ at = "recount" /\ at' = "off" /\ count = 2 /\ oe /\ wired /\ UNCHANGED <<oe, out, handler, intr, pending>>
    BY <1>1, <1>14 DEF BusyRecount, Busy, In, irq, hal, busy, GoodBusy
  <2>2. result' = "PASSED"
    BY <1>14, <2>1 DEF BusyRecount
  <2>3. QED
    BY <1>1, <2>1, <2>2 DEF GoodBusy, NoneFailed
<1>15. CASE BusyOff
  <2>1. /\ at = "off" /\ at' = "unregister" /\ oe /\ wired /\ result = "PASSED" /\ result' = result /\ oe' = oe
    BY <1>1, <1>15 DEF BusyOff, SetBusyIrq, Busy, In, Goes, GoodBusy
  <2>2. QED
    BY <1>1, <2>1 DEF GoodBusy, NoneFailed
<1>16. CASE BusyUnregister
  <2>1. at = "unregister" /\ at' = "returned" /\ result = "PASSED" /\ result' = result
    BY <1>1, <1>16 DEF BusyUnregister, Busy, In, Goes, GoodBusy
  <2>2. QED
    BY <1>1, <2>1 DEF GoodBusy, NoneFailed
<1>17. QED
  BY <1>3, <1>4, <1>5, <1>6, <1>7, <1>8, <1>9, <1>10, <1>11, <1>12, <1>13, <1>14, <1>15, <1>16
     DEF BusyStep

\* On a good platform the BUSY test passes.
LEMMA BusyKeepsGood ==
  ASSUME SafeInv, GoodInv, BusyStep, Good'
  PROVE  GoodOs' /\ GoodChip' /\ GoodBusy' /\ GoodBulk' /\ NoneFailed'
<1>1. /\ step = 9 /\ step' = 9 /\ (Fine \/ Fault)
      /\ UNCHANGED <<newTask, cfg, mem, rx, txOffset, now, spi, chip, wired>>
  BY BusyLeaves DEF osal, chipId, bulk, power
<1>2. /\ Good /\ ~Fault /\ UNCHANGED <<chipKind, faults>>
      /\ GoodOs /\ GoodChip /\ GoodBusy /\ GoodBulk /\ NoneFailed
  BY <1>1, WasGood DEF GoodInv
<1>3. GoodOs' /\ GoodChip' /\ GoodBulk'
  BY <1>1, <1>2 DEF GoodOs, GoodChip, GoodBulk
<1>4. GoodBusy' /\ NoneFailed'
  BY <1>1, <1>2, BusyStepGood
<1>5. QED
  BY <1>3, <1>4

\* An interrupt that is served takes its edge.
LEMMA InterruptKeepsGood ==
  ASSUME SafeInv, GoodInv, Interrupt, Good'
  PROVE  GoodOs' /\ GoodChip' /\ GoodBusy' /\ GoodBulk' /\ NoneFailed'
<1>1. /\ UNCHANGED <<step, at, result, cfg, newTask, toggles, mem, rx, txOffset, now,
                     spi, chip, wired, oe, out, handler, intr, chipKind, faults, cores, psMode>>
      /\ pending /\ pending' = FALSE /\ count' = IF handler = "test" THEN (count + 1) % 256 ELSE count
  BY DEF Interrupt, Isr, runner, platform, Else, osal, chipId, bulk, power
<1>2. GoodOs /\ GoodChip /\ GoodBusy /\ GoodBulk /\ NoneFailed /\ toggles \in Nat
  BY <1>1 DEF GoodInv, Good, SafeInv, Types
<1>3. GoodOs' /\ GoodChip' /\ GoodBulk' /\ NoneFailed'
  BY <1>1, <1>2 DEF GoodOs, GoodChip, GoodBulk, NoneFailed, Pattern
<1>4. GoodBusy'
  <2>1. (0 + 1) % 256 = 1 /\ (1 + 1) % 256 = 2
    OBVIOUS
  <2>2. CASE step = 9 /\ at = "raised"
    <3>1. /\ toggles < 2 /\ count = toggles /\ handler = "test" /\ oe /\ wired /\ out = 1
          /\ intr = "POSEDGE"
      BY <1>1, <1>2, <2>2 DEF GoodBusy
    <3>2. count' = toggles + 1
      BY <1>1, <1>2, <2>1, <3>1
    <3>3. QED
      BY <1>1, <1>2, <2>2, <3>1, <3>2 DEF GoodBusy
  <2>3. CASE ~(step = 9 /\ at = "raised")
    BY <1>1, <1>2, <2>3 DEF GoodBusy
  <2>4. QED
    BY <2>2, <2>3
<1>5. QED
  BY <1>3, <1>4

\* What is written is read back, and the benchmark reads once at least.
LEMMA BulkStepGood ==
  ASSUME SafeInv, BulkStep, Good, ~Fault, GoodBulk
  PROVE  GoodBulk' /\ NoneFailed' /\ at \notin {"returned", "end"}
<1>1. /\ step \in {10, 11} /\ step' = step /\ (Benchmark <=> step = 11) /\ now \in Nat
  BY BulkLeaves DEF SafeInv, Types
<1>2. CASE Alloc
  <2>1. /\ at = "begin" /\ now' = now /\ at' \in {"loop", "write"}
    BY <1>2 DEF Alloc, Goes, Good
  <2>2. QED
    BY <1>1, <2>1 DEF GoodBulk, NoneFailed
<1>3. CASE Loop
  <2>1. /\ step = 11 /\ at = "loop" /\ now' = now
        /\ \/ at' = "write"
           \/ now > WaitTime /\ at' = "validate" /\ txOffset' = txOffset /\ rx' = rx
    BY <1>1, <1>3, PortingAssumption DEF Loop, Goes, Good
  <2>2. now > WaitTime => now # 0
    BY <1>1, PortingAssumption
  <2>3. QED
    BY <1>1, <2>1, <2>2 DEF GoodBulk, NoneFailed, Pattern
<1>4. CASE Write
  <2>1. /\ at = "write" /\ at' = "read" /\ now' = now /\ txOffset' = txOffset /\ mem' = {Pattern}
    BY <1>4, GoesOn DEF Write
  <2>2. QED
    BY <1>1, <2>1 DEF GoodBulk, NoneFailed, Pattern
<1>5. CASE Read
  <2>1. /\ at = "read" /\ txOffset' = txOffset /\ rx' = mem
        /\ now' \in (IF Benchmark THEN {now + 1, now + 2} ELSE {now})
        /\ at' = (IF Benchmark THEN "loop" ELSE "validate")
    BY <1>5, GoesOn DEF Read
  <2>2. mem = {Pattern} /\ Pattern' = Pattern
    BY <1>1, <2>1 DEF GoodBulk, Pattern
  <2>3. rx' = {Pattern'} /\ (step = 11 => at' = "loop") /\ (step = 10 => at' = "validate" /\ now' = now)
    BY <1>1, <2>1, <2>2
  <2>4. QED
    BY <1>1, <2>1, <2>3 DEF GoodBulk, NoneFailed
<1>6. CASE Validate
  <2>1. at = "validate" /\ at' = "free" /\ now' = now
        /\ result' = (IF rx = {Pattern} THEN "PASSED" ELSE "FAILED")
    BY <1>6 DEF Validate, io, bulk
  <2>2. rx = {Pattern}
    BY <1>1, <2>1 DEF GoodBulk
  <2>3. QED
    BY <1>1, <2>1, <2>2 DEF GoodBulk, NoneFailed
<1>7. CASE Free
  <2>1. at = "free" /\ at' = "returned" /\ now' = 0 /\ result' = result
    BY <1>7 DEF Free, Goes
  <2>2. result = "PASSED"
    BY <1>1, <2>1 DEF GoodBulk
  <2>3. QED
    BY <1>1, <2>1, <2>2 DEF GoodBulk, NoneFailed
<1>8. QED
  BY <1>2, <1>3, <1>4, <1>5, <1>6, <1>7 DEF BulkStep

\* On a good platform the transfer tests pass.
LEMMA BulkKeepsGood ==
  ASSUME SafeInv, GoodInv, BulkStep, Good'
  PROVE  GoodOs' /\ GoodChip' /\ GoodBusy' /\ GoodBulk' /\ NoneFailed'
<1>1. /\ step \in {10, 11} /\ step' = step /\ (Fine \/ Fault)
      /\ UNCHANGED <<newTask, cfg, spi, chip, wired, oe, out, handler, intr, pending>>
  BY BulkLeaves DEF chipId, hal, power, busy
<1>2. /\ Good /\ ~Fault /\ GoodOs /\ GoodChip /\ GoodBusy /\ GoodBulk
  BY <1>1, WasGood DEF GoodInv
<1>3. GoodOs' /\ GoodChip' /\ GoodBusy'
  BY <1>1, <1>2 DEF GoodOs, GoodChip, GoodBusy
<1>4. GoodBulk' /\ NoneFailed'
  BY <1>2, BulkStepGood
<1>5. QED
  BY <1>3, <1>4

\* The tests of the files use nothing of the platform.
LEMMA FileKeepsGood ==
  ASSUME SafeInv, GoodInv, FileStep, Good'
  PROVE  GoodOs' /\ GoodChip' /\ GoodBusy' /\ GoodBulk' /\ NoneFailed'
<1>1. step \in {12, 13} /\ step' = step
  BY StepNames DEF SafeInv, Types, FileStep, ValidateBegins, ValidateWalks, ValidateEnds, Validates,
     Goes, Returns, runner
<1>2. UNCHANGED <<platform, osal, io, hal>>
  BY DEF FileStep, ValidateBegins, ValidateWalks, ValidateEnds
<1>3. UNCHANGED <<cores, chipKind, faults, psMode, spi, wired>>
  BY <1>2 DEF platform, hal, power, busy
<1>4. Good /\ GoodOs
  BY <1>3 DEF GoodInv, Good
<1>5. QED
  BY <1>1, <1>3, <1>4 DEF GoodOs, GoodChip, GoodBusy, GoodBulk, NoneFailed

\* A step begins where the one before it ended.
LEMMA NextStepKeepsGood ==
  ASSUME SafeInv, GoodInv, NextStep, Good'
  PROVE  GoodOs' /\ GoodChip' /\ GoodBusy' /\ GoodBulk' /\ NoneFailed'
<1>1. /\ UNCHANGED <<platform, osal, io, hal, binary>> /\ at = "returned" /\ step \in 1..13
      /\ \/ at' = "end" /\ step' = step
         \/ at' = "begin" /\ step' = step + 1
  BY StepNames DEF NextStep, SafeInv, Types
<1>2. UNCHANGED <<newTask, cfg, count, toggles, mem, rx, txOffset, now, spi, chip, wired, oe, out,
                  handler, intr, pending, chipKind, faults, cores, psMode>>
  BY <1>1 DEF platform, osal, io, chipId, irq, bulk, hal, power, busy
<1>3. GoodOs /\ GoodChip /\ GoodBusy /\ GoodBulk /\ NoneFailed
  BY <1>2 DEF GoodInv, Good
<1>4. GoodOs'
  BY <1>1, <1>2, <1>3 DEF GoodOs
<1>5. GoodChip'
  BY <1>1, <1>2, <1>3 DEF GoodChip
<1>6. GoodBusy' /\ GoodBulk' /\ NoneFailed'
  BY <1>1, <1>2, <1>3 DEF GoodBusy, GoodBulk, NoneFailed
<1>7. QED
  BY <1>4, <1>5, <1>6

\* GoodInv survives stuttering.
LEMMA NothingKeepsGood ==
  ASSUME GoodInv, UNCHANGED vars, Good'
  PROVE  GoodOs' /\ GoodChip' /\ GoodBusy' /\ GoodBulk' /\ NoneFailed'
<1>1. UNCHANGED <<runner, platform, osal, io, hal>>
  BY DEF vars
<1>2. UNCHANGED <<step, at, result, newTask, cfg, count, toggles, mem, rx, txOffset, now, spi, chip,
                  wired, oe, out, handler, intr, pending, chipKind, faults, cores, psMode>>
  BY <1>1 DEF runner, platform, osal, io, chipId, irq, bulk, hal, power, busy
<1>3. GoodOs /\ GoodChip /\ GoodBusy /\ GoodBulk /\ NoneFailed
  BY <1>2 DEF GoodInv, Good
<1>4. QED
  BY <1>2, <1>3 DEF GoodOs, GoodChip, GoodBusy, GoodBulk, NoneFailed, Edges, Pattern

\* A good platform starts so.
LEMMA GoodInvInit == Init => GoodInv
  BY DEF Init, InitHal, GoodInv, GoodOs, GoodChip, GoodBusy, GoodBulk, NoneFailed

\* GoodInv is inductive, given SafeInv.
LEMMA GoodInvKept == SafeInv /\ GoodInv /\ [Next]_vars => GoodInv'
<1> SUFFICES ASSUME SafeInv, GoodInv, [Next]_vars, Good'
             PROVE  GoodOs' /\ GoodChip' /\ GoodBusy' /\ GoodBulk' /\ NoneFailed'
  BY DEF GoodInv
<1>1. CASE OsStep
  BY <1>1, OsKeepsGood
<1>2. CASE OtherTask
  BY <1>2, OtherTaskKeepsGood
<1>3. CASE ChipStep
  BY <1>3, ChipKeepsGood
<1>4. CASE ChipBoots
  BY <1>4, BootsKeepsGood
<1>5. CASE BusyStep
  BY <1>5, BusyKeepsGood
<1>6. CASE Interrupt
  BY <1>6, InterruptKeepsGood
<1>7. CASE BulkStep
  BY <1>7, BulkKeepsGood
<1>8. CASE FileStep
  BY <1>8, FileKeepsGood
<1>9. CASE NextStep
  BY <1>9, NextStepKeepsGood
<1>10. CASE UNCHANGED vars
  BY <1>10, NothingKeepsGood
<1>11. QED
  BY <1>1, <1>2, <1>3, <1>4, <1>5, <1>6, <1>7, <1>8, <1>9, <1>10, Steps

\* On one core, with a known chip, BUSY routed where it is used and well-formed files, no step
\* of the porting assistant reports a failure.
THEOREM GoodPlatformsPass == Spec => []GoodPlatformPasses
<1>1. SafeInv /\ GoodInv => GoodPlatformPasses
  <2> SUFFICES ASSUME SafeInv, GoodInv, KnownGood, at = "returned"
               PROVE  result \notin {"FAILED", "FAILED_NON_CRITICAL"}
    BY DEF GoodPlatformPasses
  <2>1. step \in 1..13 /\ NoneFailed /\ FileOK
    BY DEF SafeInv, Types, KnownGood, GoodInv, Good
  <2>2. CASE step < 12
    BY <2>1, <2>2 DEF NoneFailed
  <2>3. CASE step \in {12, 13}
    <3>1. WellFormed(file, kind)
      BY <2>1, <2>3, StepNames DEF KnownGood, Validates
    <3>2. result \in {"FAILED", "FAILED_NON_CRITICAL"} => ~WellFormed(file, kind)
      BY <2>1, <2>3 DEF FileOK
    <3>3. QED
      BY <3>1, <3>2
  <2>4. QED
    BY <2>1, <2>2, <2>3
<1>2. QED
  BY SafeInductive, GoodInvInit, GoodInvKept, <1>1, PTL DEF Spec
=============================================================================
